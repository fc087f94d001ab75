------------------------ MODULE RotateSession_proofs ------------------------
(***************************************************************************)
(* Proofs about one connection in Rotate mode: for every number of         *)
(* requests, records, tickets and key updates, in both flows, whoever is   *)
(* lost and whenever.                                                      *)
(***************************************************************************)
EXTENDS RotateSession, WellFoundedInduction, TLAPS

-----------------------------------------------------------------------------
(* The invariant *)

Requests == [kind : {"req", "ku"}, key : Nat, seq : Nat, resp : 1 .. NRequests]
ToWrite == Seq({"app", "short", "close"})
Origins == [rkey : Nat, rseq : Nat, wkey : Nat, wseq : Nat, served : 0 .. NRequests,
            todo : ToWrite, tickets : Nat, updates : Nat, closed : BOOLEAN,
            bad : BOOLEAN]

\* The types of everything that moves.
Types ==
    /\ RTypeOK
    /\ p2o \in Seq(Requests) /\ o \in Origins
    /\ skey \in Shares /\ ckey \in Shares /\ fresh \in Shares

\* The prover has its keys and still works.
Running == p.pc \notin {"setup", "done", "fail"}

\* The client key of this round has already been rotated.
ClientTurned ==
    /\ Flow = "epoch" /\ ~Last
    /\ p.pc \notin {"request", "request_tag", "ku", "ku_tag", "rotate_client"}

\* Prover and verifier hold shares of the same keys, and these are the keys the
\* epochs of both directions go by.
KeysInStep ==
    /\ p.pc = "setup" => fresh = 0 /\ p.epoch = 0 /\ p.round = 1
    /\ Running => p.skey = skey /\ p.ckey = ckey /\ skey = ServerKey(p.epoch)
    /\ Running /\ Flow = "epoch" =>
          /\ p.round = p.epoch + 1
          /\ ckey = ClientKey(IF ClientTurned THEN p.epoch + 1 ELSE p.epoch)
          /\ fresh = IF ClientTurned THEN ckey ELSE skey
    /\ Running /\ Flow = "batch" => ckey = ClientKey(0) /\ fresh = skey
    /\ p.pc \in {"ku", "ku_tag", "rotate_client"} => Flow = "epoch" /\ ~Last
    /\ p.pc = "rotate_server" /\ Flow = "epoch" => ~Last

\* What comes after a record of the prover's: the same key and the next number,
\* or the next key.
Follows(r, key, seq) ==
    IF r.kind = "ku" THEN key = r.key + 2 /\ seq = 0
    ELSE key = r.key /\ seq = r.seq + 1

\* The key of the prover's next record.
NextKey == IF p.pc = "rotate_client" THEN p.ckey + 2 ELSE p.ckey

\* The records under way to the origin lead, one by one, from what the origin
\* expects to what the prover sends next.
SentInOrder ==
    /\ ~o.bad
    /\ p2o # <<>> => p2o[1].key = ClientKey(o.rkey) /\ p2o[1].seq = o.rseq
    /\ \A i \in 1 .. Len(p2o) - 1 : Follows(p2o[i], p2o[i + 1].key, p2o[i + 1].seq)
    /\ p.pc = "setup" => p2o = <<>> /\ o.rkey = 0 /\ o.rseq = 0 /\ p.wseq = 0
    /\ Running /\ p2o # <<>> => Follows(p2o[Len(p2o)], NextKey, p.wseq)
    /\ Running /\ p2o = <<>> => ClientKey(o.rkey) = NextKey /\ o.rseq = p.wseq

\* The records of the origin, captured or under way, in the order it sealed them.
N == Len(recs) + Len(o2p)
At(i) == IF i <= Len(recs) THEN recs[i] ELSE o2p[i - Len(recs)]

\* Record r at place i comes before number q of epoch e at place j.
Before(r, i, e, q, j) ==
    /\ r.epoch <= e
    /\ r.epoch = e => q = r.oseq + (j - i)
    /\ r.kind = "ku" => r.epoch < e

\* Record r is the last one before number q of epoch e.
Leads(r, e, q) ==
    IF r.kind = "ku" THEN e = r.epoch + 1 /\ q = 0 ELSE e = r.epoch

StreamInOrder ==
    /\ \A i, j \in 1 .. N : i < j => Before(At(i), i, At(j).epoch, At(j).oseq, j)
    /\ \A i \in 1 .. N - 1 : Leads(At(i), At(i + 1).epoch, At(i + 1).oseq)
    /\ N > 0 => At(1).epoch = 0 /\ At(1).oseq = 0
    /\ \A i \in 1 .. N : At(i).epoch <= o.wkey
    /\ \A i \in 1 .. N : At(i).kind = "ku" => At(i).epoch < o.wkey
    /\ ~o.closed =>
          /\ \A i \in 1 .. N : Before(At(i), i, o.wkey, o.wseq, N + 1)
          /\ \A i \in 1 .. N : i = N => Leads(At(i), o.wkey, o.wseq)
          /\ N = 0 => o.wkey = 0 /\ o.wseq = 0

\* The epoch being released begins where the prover thinks it does, and the
\* numbers given at the capture count from there.
EpochStart ==
    /\ p.start <= Len(recs)
    /\ p.start = 0 => p.epoch = 0
    /\ p.start > 0 => recs[p.start].kind = "ku" /\ recs[p.start].epoch + 1 = p.epoch

Numbered ==
    /\ \A j \in p.start + 1 .. Len(recs) : recs[j].seq = j - p.start - 1
    /\ p.pc \in {"setup", "request", "request_tag", "ku", "ku_tag", "rotate_client",
                 "drain"} => p.rseq = Len(recs) - p.start

\* The records that passed their tag check belong to this epoch, and an epoch is
\* left behind at its KeyUpdate only.
Checked ==
    /\ p.pc = "verify" =>
          /\ p.idx \in p.start + 1 .. Len(recs)
          /\ p.idx > p.start + 1 => p.end = p.idx - 1
          /\ \A j \in p.start + 1 .. p.idx - 1 : recs[j].epoch = p.epoch
    /\ p.pc \in {"release", "open", "replay", "psk_done", "rotate_server"} =>
          /\ p.end \in p.start + 1 .. Len(recs)
          /\ Flow = "epoch" => p.end = Len(recs)
          /\ \A j \in p.start + 1 .. p.end : recs[j].epoch = p.epoch
    /\ Flow = "epoch" /\ ~Last /\ p.pc \in {"replay", "psk_done", "rotate_server"} =>
          recs[p.end].kind = "ku"
    /\ Flow = "batch" /\ p.pc = "rotate_server" => recs[p.end].kind = "ku"

Inv ==
    Types /\ KeysInStep /\ SentInOrder /\ StreamInOrder /\ EpochStart /\ Numbered
    /\ Checked

-----------------------------------------------------------------------------
(* The steps, as far as the invariant sees them *)

Quiet == UNCHANGED <<recs, o2p, o, sent, p2o>>
Keep == UNCHANGED <<skey, ckey, fresh>>
To(pc) == p' = [p EXCEPT !.pc = pc]

MoveIdle == Keep /\ Quiet /\ UNCHANGED <<p, delivered, leaked, attested>>

MoveFails ==
    /\ p.pc \notin {"done", "fail"}
    /\ To("fail") \/ p' = [p EXCEPT !.pc = "fail", !.idx = p.start + 1]
    /\ Quiet /\ UNCHANGED delivered /\ attested \subseteq attested'
    /\ \/ leaked' = leaked
       \/ p.pc = "release" /\ leaked' = leaked \cup {skey}
    /\ {skey, ckey, fresh} \subseteq Shares => {skey', ckey', fresh'} \subseteq Shares

MoveEstablish ==
    /\ p.pc = "setup" /\ fresh + 2 <= MaxKey
    /\ ckey' = fresh + 1 /\ skey' = fresh + 2 /\ fresh' = fresh + 2
    /\ p' = [p EXCEPT !.pc = "request", !.skey = skey', !.ckey = ckey']
    /\ Quiet /\ UNCHANGED <<delivered, leaked, attested>>

\* The steps that only lead to the next one.
MoveOn ==
    /\ \/ p.pc = "request" /\ To("request_tag")
       \/ p.pc = "ku" /\ To("ku_tag")
       \/ /\ p.pc = "drain" /\ (Flow = "epoch" => p.start < Len(recs))
          /\ StopSeen \/ o.closed \/ Timeouts
          /\ To("commit")
       \/ p.pc = "commit" /\ p.start < Len(recs)
          /\ p' = [p EXCEPT !.pc = "verify", !.idx = p.start + 1]
       \/ p.pc = "replay" /\ p' = [p EXCEPT !.pc = "psk_done", !.psk = FALSE]
       \/ p.pc \in {"replay", "psk_done"} /\ To(AfterReplay)
       \/ p.pc = "stop" /\ To("done")
    /\ Keep /\ Quiet /\ UNCHANGED <<delivered, leaked, attested>>

MoveRequest ==
    /\ p.pc = "request_tag"
    /\ p' = [p EXCEPT !.wseq = @ + 1,
                      !.pc = IF Flow = "epoch" /\ ~Last THEN "ku" ELSE "drain"]
    /\ p2o' = Append(p2o, Sealed1("req"))
    /\ Keep /\ UNCHANGED <<recs, o2p, o, sent, delivered, leaked, attested>>

MoveUpdate ==
    /\ p.pc = "ku_tag"
    /\ p' = [p EXCEPT !.wseq = 0, !.pc = "rotate_client"]
    /\ p2o' = Append(p2o, Sealed1("ku"))
    /\ Keep /\ UNCHANGED <<recs, o2p, o, sent, delivered, leaked, attested>>

MoveClient ==
    /\ p.pc = "rotate_client" /\ fresh < MaxKey
    /\ ckey' = fresh + 1 /\ fresh' = fresh + 1 /\ skey' = skey
    /\ p' = [p EXCEPT !.ckey = ckey', !.pc = "drain"]
    /\ Quiet /\ UNCHANGED <<delivered, leaked, attested>>

MoveCapture ==
    /\ p.pc = "drain"
    /\ \E k \in 1 .. Len(o2p) :
          /\ recs' = recs \o [i \in 1 .. k |-> [o2p[i] EXCEPT !.seq = p.rseq + i - 1]]
          /\ p' = [p EXCEPT !.rseq = @ + k]
          /\ o2p' = SubSeq(o2p, k + 1, Len(o2p))
    /\ Keep /\ UNCHANGED <<o, sent, p2o, delivered, leaked, attested>>

\* The tag check of the record at hand.
Passes(r) == ServerKey(r.epoch) = p.skey /\ r.oseq = r.seq
Vouched(r) == [key |-> ServerKey(r.epoch), seq |-> r.oseq, ct |-> Ct(r)]

MovePasses ==
    /\ p.pc = "verify"
    /\ Passes(recs[p.idx]) /\ Vouched(recs[p.idx]) \in attested'
    /\ p' = AfterVerdict(TRUE)
    /\ Keep /\ Quiet /\ attested \subseteq attested' /\ UNCHANGED <<delivered, leaked>>

MoveRejects ==
    /\ p.pc = "verify" /\ Flow = "batch" /\ p.idx > p.start + 1
    /\ ~Passes(recs[p.idx])
    /\ To("release")
    /\ Keep /\ Quiet /\ UNCHANGED <<delivered, leaked, attested>>

MoveRelease ==
    /\ p.pc = "release" /\ leaked' = leaked \cup {skey} /\ To("open")
    /\ Keep /\ Quiet /\ UNCHANGED <<delivered, attested>>

\* The records captured since the epoch began.
Epoch == [i \in 1 .. Len(recs) - p.start |-> recs[p.start + i]]

MoveOpen ==
    /\ p.pc = "open"
    /\ \/ /\ Flow = "epoch" /\ To("replay")
          /\ recs[Len(recs)].kind = IF Last THEN "close" ELSE "ku"
          /\ delivered' = Append(delivered, AppData(Epoch))
       \/ /\ Flow = "batch" /\ p.end = Len(recs) /\ To("replay")
          /\ recs[Len(recs)].kind = "close"
          /\ delivered' = Append(delivered, AppData(recs))
       \/ /\ Flow = "batch" /\ p.end # Len(recs) /\ recs[p.end].kind = "ku"
          /\ To("rotate_server") /\ UNCHANGED delivered
    /\ Keep /\ Quiet /\ UNCHANGED <<leaked, attested>>

MoveServer ==
    /\ p.pc = "rotate_server" /\ fresh < MaxKey
    /\ skey' = fresh + 1 /\ fresh' = fresh + 1 /\ ckey' = ckey
    /\ \/ /\ Flow = "epoch" /\ recs' = recs
          /\ p' = [p EXCEPT !.skey = skey', !.epoch = @ + 1, !.rseq = 0,
                            !.start = Len(recs), !.round = @ + 1, !.pc = "request"]
       \/ /\ Flow = "batch" /\ recs' = Renumber(recs, p.end)
          /\ p' = [p EXCEPT !.skey = skey', !.epoch = @ + 1, !.start = p.end,
                            !.pc = "commit"]
    /\ UNCHANGED <<o2p, o, sent, p2o, delivered, leaked, attested>>

MoveOrigin ==
    /\ \/ \E kinds \in Responses : OriginReads(kinds)
       \/ OriginWrites \/ OriginTicket \/ OriginUpdatesItself \/ OriginGone
    /\ Keep /\ UNCHANGED <<p, recs, delivered, leaked, attested>>

Move ==
    /\ \/ MoveIdle \/ MoveFails \/ MoveEstablish \/ MoveOn \/ MoveRequest \/ MoveUpdate
       \/ MoveClient \/ MoveCapture \/ MovePasses \/ MoveRejects \/ MoveRelease
       \/ MoveOpen \/ MoveServer \/ MoveOrigin
    /\ why \subseteq why' /\ why' \subseteq why \cup {"lost", "timeout", "origin", "noticket"}

-----------------------------------------------------------------------------
(* What the invariant says of the epoch being released *)

LEMMA Elements ==
    ASSUME Types
    PROVE  /\ \A i \in 1 .. Len(recs) : recs[i] \in Records
           /\ \A i \in 1 .. Len(o2p) : o2p[i] \in Records
           /\ Len(recs) \in Nat /\ Len(o2p) \in Nat /\ N \in Nat
           /\ \A i \in 1 .. N : At(i) \in Records
           /\ \A r \in Records : /\ r.kind \in Kinds /\ r.epoch \in Nat
                                 /\ r.oseq \in Nat /\ r.seq \in Nat
<1>1. recs \in Seq(Records) /\ o2p \in Seq(Records)
  BY DEF Types, RTypeOK
<1>2. /\ \A i \in 1 .. Len(recs) : recs[i] \in Records
      /\ \A i \in 1 .. Len(o2p) : o2p[i] \in Records
      /\ Len(recs) \in Nat /\ Len(o2p) \in Nat
  BY <1>1
<1>3. N \in Nat /\ \A i \in 1 .. N : At(i) \in Records
  BY <1>2 DEF N, At
<1>4. \A r \in Records : /\ r.kind \in Kinds /\ r.epoch \in Nat
                         /\ r.oseq \in Nat /\ r.seq \in Nat
  BY DEF Records
<1> QED
  BY <1>2, <1>3, <1>4

\* The place of an element past the start of a segment.
LEMMA InRange ==
    ASSUME NEW s \in Nat, NEW n \in Nat, NEW j \in s + 1 .. n
    PROVE  j \in 1 .. n /\ s + 1 \in 1 .. n /\ (j # s + 1 => s + 1 < j)
OBVIOUS

\* The first record of the epoch carries number 0, and what belongs to the
\* epoch is numbered as the origin numbered it.
LEMMA EpochNumbers ==
    ASSUME Types, StreamInOrder, EpochStart, Numbered
    PROVE  /\ p.start < Len(recs) => recs[p.start + 1].epoch = p.epoch
           /\ \A j \in p.start + 1 .. Len(recs) :
                 recs[j].epoch = p.epoch => recs[j].seq = recs[j].oseq
<1> USE Elements
<1>0. p.start \in Nat /\ p.epoch \in Nat
  BY DEF Types, RTypeOK, Provers
<1>a. Len(recs) \in Nat
  OBVIOUS
<1>1. ASSUME p.start < Len(recs)
      PROVE  recs[p.start + 1].epoch = p.epoch /\ recs[p.start + 1].oseq = 0
  <2>1. At(p.start + 1) = recs[p.start + 1] /\ p.start + 1 \in 1 .. N
    BY <1>0, <1>1 DEF At, N
  <2>2. CASE p.start = 0
    BY <1>0, <2>1, <2>2 DEF StreamInOrder, EpochStart
  <2>3. CASE p.start > 0
    <3>1. At(p.start) = recs[p.start] /\ p.start \in 1 .. N - 1
      BY <1>0, <1>1, <2>3 DEF At, N
    <3>2. Leads(recs[p.start], recs[p.start + 1].epoch, recs[p.start + 1].oseq)
      BY <2>1, <3>1 DEF StreamInOrder
    <3> QED
      BY <2>3, <3>2 DEF Leads, EpochStart
  <2> QED
    BY <1>0, <2>2, <2>3
<1>2. ASSUME NEW j \in p.start + 1 .. Len(recs), recs[j].epoch = p.epoch
      PROVE  recs[j].seq = recs[j].oseq
  <2>0. p.start < Len(recs) /\ recs[j].seq = j - p.start - 1
    BY <1>0, <1>2 DEF Numbered
  <2>1. CASE j = p.start + 1
    BY <1>0, <1>1, <2>0, <2>1
  <2>2. CASE j # p.start + 1
    <3>a. p.start + 1 \in 1 .. Len(recs) /\ j \in 1 .. Len(recs) /\ p.start + 1 < j
      BY <1>0, <1>a, <2>2, InRange, Zenon
    <3>b. \A i \in 1 .. Len(recs) : At(i) = recs[i]
      BY DEF At
    <3>c. \A i \in 1 .. Len(recs) : i \in 1 .. N
      BY DEF N
    <3>1. /\ At(p.start + 1) = recs[p.start + 1] /\ p.start + 1 \in 1 .. N
          /\ At(j) = recs[j] /\ j \in 1 .. N /\ p.start + 1 < j
      BY <3>a, <3>b, <3>c
    <3>2. Before(recs[p.start + 1], p.start + 1, recs[j].epoch, recs[j].oseq, j)
      BY <3>1 DEF StreamInOrder
    <3> QED
      BY <1>0, <1>1, <1>2, <2>0, <3>2 DEF Before
  <2> QED
    BY <2>1, <2>2
<1> QED
  BY <1>1, <1>2

LEMMA ServerKeys ==
    ASSUME NEW d \in Nat, NEW e \in Nat
    PROVE  /\ ServerKey(d) \in Nat /\ ClientKey(d) \in Nat
           /\ ServerKey(d) = ServerKey(e) => d = e
           /\ ServerKey(d) < ServerKey(e) <=> d < e
BY DEF ServerKey, ClientKey

\* The records that passed their check open to what they are.
LEMMA OpenedSame ==
    ASSUME Inv, p.pc \in {"release", "open"}
    PROVE  \A j \in p.start + 1 .. p.end : Opened(recs[j]) = recs[j]
<1> SUFFICES ASSUME NEW j \in p.start + 1 .. p.end
             PROVE  Opened(recs[j]) = recs[j]
  OBVIOUS
<1>0. p.start \in Nat /\ p.end \in p.start + 1 .. Len(recs) /\ Len(recs) \in Nat
  BY Elements DEF Inv, Checked, Types, RTypeOK, Provers
<1>1. recs[j].epoch = p.epoch /\ j \in p.start + 1 .. Len(recs)
  BY <1>0 DEF Inv, Checked
<1>2. recs[j].seq = recs[j].oseq
  BY <1>1, EpochNumbers DEF Inv
<1>3. p.skey = ServerKey(p.epoch)
  BY DEF Inv, KeysInStep, Running
<1> QED
  BY <1>1, <1>2, <1>3 DEF Opened

-----------------------------------------------------------------------------
(* Every step is a move *)

WhyGrows == why \subseteq why' /\ why' \subseteq why \cup {"lost", "timeout", "origin", "noticket"}

LEMMA ExchangeCases ==
    ASSUME NEW gate, NEW q, Exchange(gate, q)
    PROVE  /\ \/ state' = "FAILED" /\ To("fail")
              \/ state' # "FAILED" /\ p' = q
           /\ WhyGrows
BY DEF Exchange, To, WhyGrows

LEMMA VerifierEffects ==
    /\ \A s, l : encrypt_blocks(s, l) \/ make_gcm_tag(l) =>
          Keep /\ UNCHANGED <<leaked, attested>>
    /\ \A d : read_key_commitment(d) => Keep /\ UNCHANGED <<leaked, attested>>
    /\ release_key => /\ Keep /\ UNCHANGED attested
                      /\ leaked' \in {leaked, leaked \cup {skey}}
                      /\ state' = "FAILED" \/ leaked' = leaked \cup {skey}
    /\ Refuse \/ derive_psk \/ write_completed_psk \/ shutdown =>
          Keep /\ UNCHANGED <<leaked, attested>>
<1>1. \A s, l : encrypt_blocks(s, l) \/ make_gcm_tag(l) =>
          Keep /\ UNCHANGED <<leaked, attested>>
  BY DEF encrypt_blocks, make_gcm_tag, Refuse, Keep, keyVars, logVars
<1>2. \A d : read_key_commitment(d) => Keep /\ UNCHANGED <<leaked, attested>>
  BY DEF read_key_commitment, Refuse, Keep, keyVars, logVars
<1>3. release_key => /\ Keep /\ UNCHANGED attested
                     /\ leaked' \in {leaked, leaked \cup {skey}}
                     /\ state' = "FAILED" \/ leaked' = leaked \cup {skey}
  BY DEF release_key, Refuse, Fail, Keep, keyVars, logVars
<1>4. Refuse \/ derive_psk \/ write_completed_psk \/ shutdown =>
          Keep /\ UNCHANGED <<leaked, attested>>
  BY DEF Refuse, derive_psk, write_completed_psk, shutdown, Keep, keyVars, logVars
<1> QED
  BY <1>1, <1>2, <1>3, <1>4

LEMMA RotateEffects ==
    ASSUME NEW dir \in {"client", "server"}, rotate_key_op(dir)
    PROVE  /\ UNCHANGED <<leaked, attested>>
           /\ {skey, ckey, fresh} \subseteq Shares => {skey', ckey', fresh'} \subseteq Shares
           /\ \/ state' = "FAILED"
              \/ /\ fresh < MaxKey /\ fresh' = fresh + 1
                 /\ skey' = IF dir = "server" THEN fresh + 1 ELSE skey
                 /\ ckey' = IF dir = "client" THEN fresh + 1 ELSE ckey
<1>1. CASE Refuse
  BY <1>1 DEF Refuse, Fail, keyVars, logVars
<1>2. CASE fresh < MaxKey /\ rotate_installs(dir)
  BY <1>2, MaxKeyAssumption DEF rotate_installs, logVars, Shares
<1> QED
  BY <1>1, <1>2 DEF rotate_key_op

LEMMA VerifyEffects ==
    ASSUME NEW s, NEW c, NEW k, verify_gcm_tag(s, c, k)
    PROVE  /\ Keep /\ leaked' = leaked /\ attested \subseteq attested'
           /\ \/ state' = "FAILED"
              \/ ~TagPasses(s, c, k) /\ attested' = attested
              \/ TagPasses(s, c, k) /\ [key |-> skey, seq |-> s, ct |-> c] \in attested'
BY DEF verify_gcm_tag, Refuse, Fail, Keep, keyVars, logVars, vars

LEMMA ProverMoves == Inv /\ Prover => Move
<1> SUFFICES ASSUME Inv, Prover PROVE Move
  OBVIOUS
<1> USE DEF Move, WhyGrows
<1>0. p \in Provers /\ {skey, ckey, fresh} \subseteq Shares
  BY DEF Inv, Types, RTypeOK
<1>1. CASE Connect
  <2>1. CASE Accept /\ UNCHANGED <<p, why>>
    BY <1>1, <2>1 DEF Connect, Accept, MoveIdle, Keep, Quiet, originVars, wireVars,
                      logVars
  <2>2. CASE Establish /\ why' = why
             /\ p' = [p EXCEPT !.pc = "request", !.skey = skey', !.ckey = ckey']
    BY <1>1, <2>2 DEF Connect, Establish, MoveEstablish, Quiet, originVars, wireVars,
                      logVars
  <2>3. CASE SetupFails /\ why' = why \cup {"lost"} /\ p' = [p EXCEPT !.pc = "fail"]
    BY <1>0, <1>1, <2>3, VerifierEffects
       DEF Connect, SetupFails, MoveFails, To, Keep, Quiet, originVars, wireVars
  <2> QED
    BY <1>1, <2>1, <2>2, <2>3 DEF Connect
<1>2. CASE Encrypt
  <2>1. Keep /\ Quiet /\ UNCHANGED <<delivered, leaked, attested>> /\ WhyGrows
        /\ p.pc \in {"request", "ku"}
        /\ (To("fail") \/ To(IF p.pc = "request" THEN "request_tag" ELSE "ku_tag"))
    BY <1>2, VerifierEffects, ExchangeCases
       DEF Encrypt, Quiet, originVars, wireVars, To
  <2> QED
    BY <1>0, <2>1 DEF MoveFails, MoveOn, Keep
<1>3. CASE SendRequest
  <2>1. /\ Keep /\ UNCHANGED <<recs, delivered, o, sent, o2p, leaked, attested>> /\ WhyGrows
        /\ p.pc = "request_tag"
        /\ \/ To("fail") /\ p2o' = p2o
           \/ /\ p' = [p EXCEPT !.wseq = @ + 1,
                         !.pc = IF Flow = "epoch" /\ ~Last THEN "ku" ELSE "drain"]
              /\ p2o' = Append(p2o, Sealed1("req"))
    <3> DEFINE q == [p EXCEPT !.wseq = @ + 1,
                              !.pc = IF Flow = "epoch" /\ ~Last THEN "ku" ELSE "drain"]
    <3>1. /\ make_gcm_tag(1) /\ Exchange(TagGate(1), q) /\ p.pc = "request_tag"
          /\ p2o' = IF state' = "FAILED" THEN p2o ELSE Append(p2o, Sealed1("req"))
          /\ UNCHANGED <<recs, delivered, o, sent, o2p>>
      BY <1>3 DEF SendRequest, originVars
    <3> HIDE DEF q
    <3>2. /\ Keep /\ UNCHANGED <<leaked, attested>> /\ WhyGrows
          /\ \/ state' = "FAILED" /\ To("fail")
             \/ state' # "FAILED" /\ p' = q
      BY <3>1, VerifierEffects, ExchangeCases
    <3> QED
      BY <3>1, <3>2 DEF q
  <2> QED
    BY <1>0, <2>1 DEF MoveFails, MoveRequest, Keep, Quiet
<1>4. CASE SendKeyUpdate
  <2>1. /\ Keep /\ UNCHANGED <<recs, delivered, o, sent, o2p, leaked, attested>> /\ WhyGrows
        /\ p.pc = "ku_tag"
        /\ \/ To("fail") /\ p2o' = p2o
           \/ /\ p' = [p EXCEPT !.wseq = 0, !.pc = "rotate_client"]
              /\ p2o' = Append(p2o, Sealed1("ku"))
    BY <1>4, VerifierEffects, ExchangeCases DEF SendKeyUpdate, NextWriteSeq, originVars
  <2> QED
    BY <1>0, <2>1 DEF MoveFails, MoveUpdate, Keep, Quiet
<1>5. CASE RotateClient
  <2>1. /\ Quiet /\ UNCHANGED <<delivered, leaked, attested>> /\ WhyGrows
        /\ p.pc = "rotate_client" /\ rotate_key_op("client")
        /\ \/ state' = "FAILED" /\ To("fail")
           \/ state' # "FAILED" /\ p' = [p EXCEPT !.ckey = ckey', !.pc = "drain"]
    BY <1>5, RotateEffects, ExchangeCases DEF RotateClient, Quiet, originVars, wireVars
  <2>2. /\ {skey', ckey', fresh'} \subseteq Shares
        /\ \/ state' = "FAILED"
           \/ /\ fresh < MaxKey /\ fresh' = fresh + 1
              /\ skey' = skey /\ ckey' = fresh + 1
    BY <1>0, <2>1, RotateEffects
  <2> QED
    BY <2>1, <2>2 DEF MoveFails, MoveClient
<1>6. ASSUME NEW k \in 1 .. Len(o2p), Capture(k) PROVE Move
  BY <1>6 DEF Capture, MoveCapture, Keep, verifierVars, keyVars, logVars, originVars
<1>7. CASE DrainDone
  <2>1. /\ Keep /\ Quiet /\ UNCHANGED <<delivered, leaked, attested>> /\ WhyGrows
        /\ p.pc = "drain" /\ (StopSeen \/ o.closed \/ Timeouts)
        /\ p' = [p EXCEPT !.pc = IF Flow = "epoch" /\ p.start >= Len(recs)
                                 THEN "fail" ELSE "commit"]
    BY <1>7 DEF DrainDone, Keep, Quiet, verifierVars, keyVars, logVars, originVars, wireVars
  <2>2. CASE Flow = "epoch" /\ p.start >= Len(recs)
    BY <1>0, <2>1, <2>2 DEF MoveFails, To, Keep
  <2>3. CASE ~(Flow = "epoch" /\ p.start >= Len(recs))
    <3>1. Flow = "epoch" => p.start < Len(recs)
      BY <1>0, <2>3, Elements DEF Provers, Inv
    <3> QED
      BY <2>1, <2>3, <3>1 DEF MoveOn, To
  <2> QED
    BY <2>2, <2>3
<1>8. CASE Commit
  <2>1. /\ Keep /\ Quiet /\ UNCHANGED <<delivered, leaked, attested>> /\ WhyGrows
        /\ p.pc = "commit"
        /\ \/ To("fail")
           \/ p' = [p EXCEPT !.pc = IF p.start < Len(recs) THEN "verify" ELSE "fail",
                             !.idx = p.start + 1]
    BY <1>8, VerifierEffects, ExchangeCases
       DEF Commit, FirstIndex, Quiet, originVars, wireVars
  <2>2. CASE p.start < Len(recs)
    BY <1>0, <2>1, <2>2 DEF MoveFails, MoveOn, Keep
  <2>3. CASE ~(p.start < Len(recs))
    BY <1>0, <2>1, <2>3 DEF MoveFails, MoveOn, Keep
  <2> QED
    BY <2>2, <2>3

<1>9. CASE VerifyRecord
  <2> DEFINE r == recs[p.idx]
             ok == TagPasses(r.seq, Ct(r), p.skey)
  <2>0. p.skey = skey /\ p.pc = "verify"
    BY <1>9 DEF VerifyRecord, Inv, KeysInStep, Running
  <2>1. ok <=> Passes(r)
    BY <2>0 DEF TagPasses, Passes, Ct
  <2>2. Passes(r) => [key |-> skey, seq |-> r.seq, ct |-> Ct(r)] = Vouched(r)
    BY <2>0 DEF Passes, Vouched
  <2>3. verify_gcm_tag(r.seq, Ct(r), p.skey)
        /\ Exchange(VerifyGate /\ KeyOpens(p.skey), AfterVerdict(ok))
        /\ Quiet /\ UNCHANGED delivered
    BY <1>9 DEF VerifyRecord, Quiet, originVars, wireVars
  <2> HIDE DEF ok, r
  <2>4. /\ Keep /\ leaked' = leaked /\ attested \subseteq attested'
        /\ \/ state' = "FAILED" /\ To("fail")
           \/ state' # "FAILED" /\ p' = AfterVerdict(ok)
        /\ WhyGrows
    BY <2>3, VerifyEffects, ExchangeCases
  <2>5. CASE To("fail")
    BY <1>0, <2>0, <2>3, <2>4, <2>5 DEF MoveFails, Keep
  <2>6. CASE state' # "FAILED" /\ p' = AfterVerdict(ok) /\ ok
    <3>1. Passes(r) /\ Vouched(r) \in attested'
      BY <2>1, <2>2, <2>3, <2>6, VerifyEffects DEF ok
    <3>2. p' = AfterVerdict(TRUE)
      BY <2>6 DEF AfterVerdict
    <3> QED
      BY <2>0, <2>3, <2>4, <3>1, <3>2 DEF MovePasses, r
  <2>7. CASE state' # "FAILED" /\ p' = AfterVerdict(ok) /\ ~ok
    <3>1. ~Passes(r) /\ attested' = attested
      BY <2>1, <2>3, <2>7, VerifyEffects DEF ok
    <3>2. CASE Flow = "batch" /\ p.idx > p.start + 1
      <4>1. To("release")
        BY <2>7, <3>2 DEF AfterVerdict, To
      <4> QED
        BY <2>0, <2>3, <2>4, <3>1, <3>2, <4>1 DEF MoveRejects, r
    <3>3. CASE ~(Flow = "batch" /\ p.idx > p.start + 1)
      <4>1. To("fail")
        BY <2>7, <3>3 DEF AfterVerdict, To
      <4> QED
        BY <2>5, <4>1
    <3> QED
      BY <3>2, <3>3
  <2> QED
    BY <2>4, <2>5, <2>6, <2>7
<1>10. CASE Release
  <2>1. Keep /\ Quiet /\ UNCHANGED <<delivered, attested>> /\ WhyGrows
        /\ p.pc = "release" /\ leaked' \in {leaked, leaked \cup {skey}}
        /\ (To("fail") \/ (To("open") /\ leaked' = leaked \cup {skey}))
    <3> DEFINE q == [p EXCEPT !.pc = "open"]
    <3>1. /\ release_key /\ Exchange(ReleaseGate, q) /\ p.pc = "release"
          /\ Quiet /\ UNCHANGED delivered
      BY <1>10 DEF Release, Quiet, originVars, wireVars
    <3>2. q = p' => To("open")
      BY DEF To
    <3> HIDE DEF q
    <3>3. /\ Keep /\ UNCHANGED attested /\ WhyGrows
          /\ leaked' \in {leaked, leaked \cup {skey}}
          /\ state' = "FAILED" \/ leaked' = leaked \cup {skey}
          /\ \/ state' = "FAILED" /\ To("fail")
             \/ state' # "FAILED" /\ p' = q
      BY <3>1, VerifierEffects, ExchangeCases
    <3> QED
      BY <3>1, <3>2, <3>3
  <2> QED
    BY <1>0, <2>1 DEF MoveFails, MoveRelease, Keep
<1>11. CASE OpenEpoch
  <2> DEFINE rs == [i \in 1 .. Len(recs) - p.start |-> Opened(recs[p.start + i])]
  <2>0. /\ p.pc = "open" /\ Flow = "epoch" /\ p.end = Len(recs) /\ Len(recs) \in Nat
        /\ p.start \in Nat /\ p.start < Len(recs)
        /\ Keep /\ Quiet /\ UNCHANGED <<leaked, attested>> /\ WhyGrows
    BY <1>0, <1>11, Elements
       DEF OpenEpoch, Inv, Checked, Provers, Keep, Quiet, verifierVars, keyVars, logVars,
           originVars, wireVars
  <2>1. \A i \in 1 .. Len(recs) - p.start : Opened(recs[p.start + i]) = recs[p.start + i]
    BY <2>0, OpenedSame
  <2>2. rs = Epoch
    BY <2>1 DEF Epoch
  <2>3. IF BoundaryOk(rs) THEN delivered' = Append(delivered, AppData(rs)) /\ To("replay")
        ELSE To("fail") /\ UNCHANGED delivered
    BY <1>11 DEF OpenEpoch, To
  <2> HIDE DEF rs
  <2>4. CASE BoundaryOk(rs)
    <3>1. Len(Epoch) = Len(recs) - p.start /\ Epoch[Len(Epoch)] = recs[Len(recs)]
      BY <2>0 DEF Epoch
    <3>2. recs[Len(recs)].kind = IF Last THEN "close" ELSE "ku"
      BY <2>2, <2>4, <3>1 DEF BoundaryOk, EndsIn
    <3> QED
      BY <2>0, <2>2, <2>3, <2>4, <3>2 DEF MoveOpen
  <2>5. CASE ~BoundaryOk(rs)
    BY <1>0, <2>0, <2>3, <2>5 DEF MoveFails, Keep
  <2> QED
    BY <2>4, <2>5
<1>12. CASE OpenBatch
  <2> DEFINE rs == [j \in DOMAIN recs |->
                      IF j \in p.start + 1 .. p.end THEN Opened(recs[j]) ELSE recs[j]]
  <2>0. /\ p.pc = "open" /\ Flow = "batch" /\ p.end \in 1 .. Len(recs)
        /\ Keep /\ UNCHANGED <<o2p, o, sent, p2o, leaked, attested>> /\ WhyGrows
    BY <1>0, <1>12, Elements
       DEF OpenBatch, Inv, Checked, Provers, Keep, verifierVars, keyVars, logVars,
           originVars, wireVars
  <2>1. rs = recs
    <3>1. recs = [j \in DOMAIN recs |-> recs[j]]
      BY DEF Inv, Types, RTypeOK
    <3>2. \A j \in DOMAIN recs : rs[j] = recs[j]
      BY <2>0, OpenedSame
    <3> QED
      BY <3>1, <3>2
  <2> DEFINE final == p.end = Len(recs)
             ok == IF final THEN NoEarlyClose(rs) /\ EndsIn(rs, "close")
                   ELSE EndsIn(SubSeq(rs, 1, p.end), "ku")
  <2>2. /\ recs' = rs
        /\ p' = [p EXCEPT !.pc = IF ~ok THEN "fail"
                                 ELSE IF final THEN "replay" ELSE "rotate_server"]
        /\ delivered' = IF ok /\ final THEN Append(delivered, AppData(rs)) ELSE delivered
    BY <1>12 DEF OpenBatch
  <2>3. /\ ok /\ ~final => recs[p.end].kind = "ku"
        /\ ok /\ final => recs[Len(recs)].kind = "close"
    <3>1. Len(SubSeq(recs, 1, p.end)) = p.end /\ SubSeq(recs, 1, p.end)[p.end] = recs[p.end]
      BY <2>0 DEF Inv, Types, RTypeOK
    <3> QED
      BY <2>1, <3>1 DEF EndsIn
  <2> HIDE DEF ok, rs, final
  <2>4. Quiet
    BY <2>0, <2>1, <2>2 DEF Quiet
  <2>5. CASE ~ok
    BY <1>0, <2>0, <2>2, <2>4, <2>5 DEF MoveFails, Keep, To
  <2>6. CASE ok /\ final
    BY <2>0, <2>1, <2>2, <2>3, <2>4, <2>6 DEF MoveOpen, To, final
  <2>7. CASE ok /\ ~final
    BY <2>0, <2>1, <2>2, <2>3, <2>4, <2>7 DEF MoveOpen, To, final
  <2> QED
    BY <2>5, <2>6, <2>7

<1>13. CASE Replay
  <2>1. /\ Keep /\ Quiet /\ UNCHANGED <<delivered, leaked, attested>> /\ WhyGrows
        /\ p.pc = "replay"
        /\ \/ To("fail") \/ To(AfterReplay)
           \/ p' = [p EXCEPT !.pc = "psk_done", !.psk = FALSE]
    <3>1. CASE derive_psk /\ Exchange(TRUE, [p EXCEPT !.pc = "psk_done", !.psk = FALSE])
      BY <1>13, <3>1, VerifierEffects, ExchangeCases
         DEF Replay, Quiet, originVars, wireVars
    <3>2. CASE p' = [p EXCEPT !.pc = AfterReplay] /\ UNCHANGED <<verifierVars, why>>
      BY <1>13, <3>2 DEF Replay, Keep, Quiet, originVars, wireVars, verifierVars, keyVars,
                         logVars, To
    <3> QED
      BY <1>13, <3>1, <3>2 DEF Replay
  <2> QED
    BY <1>0, <2>1 DEF MoveFails, MoveOn, Keep
<1>14. CASE RotateServer
  <2> DEFINE q == [p EXCEPT !.skey = skey', !.epoch = @ + 1]
  <2>1. /\ UNCHANGED <<o2p, o, sent, p2o, delivered, leaked, attested>>
        /\ p.pc = "rotate_server" /\ rotate_key_op("server")
        /\ \/ /\ Flow = "epoch" /\ recs' = recs
              /\ Exchange(RotateGate("server"),
                          [RestartReadSeq(q) EXCEPT !.start = Len(recs),
                                                    !.round = @ + 1, !.pc = "request"])
           \/ /\ Flow = "batch"
              /\ Exchange(RotateGate("server"), [q EXCEPT !.start = p.end, !.pc = "commit"])
              /\ recs' = IF state' = "FAILED" THEN recs ELSE Renumber(recs, p.end)
    BY <1>14, RotateEffects, RotateAssumption DEF RotateServer, originVars, wireVars
  <2>2. /\ {skey', ckey', fresh'} \subseteq Shares
        /\ \/ state' = "FAILED"
           \/ /\ fresh < MaxKey /\ fresh' = fresh + 1
              /\ skey' = fresh + 1 /\ ckey' = ckey
    BY <1>0, <2>1, RotateEffects
  <2>3. CASE state' = "FAILED"
    <3>1. To("fail") /\ WhyGrows /\ recs' = recs
      BY <2>1, <2>3, ExchangeCases
    <3> QED
      BY <2>1, <2>2, <3>1 DEF MoveFails, Quiet
  <2>4. CASE state' # "FAILED" /\ Flow = "epoch"
    <3>1. /\ WhyGrows /\ recs' = recs
          /\ p' = [RestartReadSeq(q) EXCEPT !.start = Len(recs),
                                            !.round = @ + 1, !.pc = "request"]
      BY <2>1, <2>4, ExchangeCases
    <3>2. p' = [p EXCEPT !.skey = skey', !.epoch = @ + 1, !.rseq = 0,
                         !.start = Len(recs), !.round = @ + 1, !.pc = "request"]
      BY <1>0, <3>1 DEF RestartReadSeq, Provers
    <3> QED
      BY <2>1, <2>2, <2>4, <3>1, <3>2 DEF MoveServer
  <2>5. CASE state' # "FAILED" /\ Flow = "batch"
    <3>1. /\ WhyGrows /\ recs' = Renumber(recs, p.end)
          /\ p' = [q EXCEPT !.start = p.end, !.pc = "commit"]
      BY <2>1, <2>5, ExchangeCases
    <3>2. p' = [p EXCEPT !.skey = skey', !.epoch = @ + 1, !.start = p.end,
                         !.pc = "commit"]
      BY <1>0, <3>1 DEF Provers
    <3> QED
      BY <2>1, <2>2, <2>5, <3>1, <3>2 DEF MoveServer
  <2> QED
    BY <2>1, <2>3, <2>4, <2>5
<1>15. CASE Stop
  <2>1. Keep /\ Quiet /\ UNCHANGED <<delivered, leaked, attested>> /\ WhyGrows
        /\ p.pc = "stop" /\ (To("done") \/ To("fail"))
    BY <1>15, VerifierEffects DEF Stop, Quiet, originVars, wireVars, To
  <2> QED
    BY <1>0, <2>1 DEF MoveFails, MoveOn, Keep
<1>16. CASE VerifierGone
  BY <1>0, <1>16 DEF VerifierGone, MoveFails, To, Keep, Quiet, verifierVars, keyVars,
                     logVars, originVars, wireVars
<1> QED
  BY <1>1, <1>2, <1>3, <1>4, <1>5, <1>6, <1>7, <1>8, <1>9, <1>10, <1>11, <1>12, <1>13,
     <1>14, <1>15, <1>16 DEF Prover

LEMMA StepsMove == Inv /\ [RNext]_rvars => Move
<1> SUFFICES ASSUME Inv, [RNext]_rvars PROVE Move
  OBVIOUS
<1> USE DEF Move, WhyGrows
<1>0. p \in Provers /\ {skey, ckey, fresh} \subseteq Shares
  BY DEF Inv, Types, RTypeOK
<1>1. CASE Prover
  BY <1>1, ProverMoves
<1>2. CASE PskDone
  <2>1. /\ Keep /\ Quiet /\ UNCHANGED <<delivered, leaked, attested>> /\ WhyGrows
        /\ \/ p' = p
           \/ p.pc = "psk_done" /\ (To("fail") \/ To(AfterReplay))
    BY <1>2, VerifierEffects, ExchangeCases
       DEF PskDone, Quiet, originVars, wireVars, To
  <2> QED
    BY <1>0, <2>1 DEF MoveIdle, MoveFails, MoveOn, Keep
<1>3. CASE ProverGone
  BY <1>3, VerifierEffects
     DEF ProverGone, PeerGone, MoveIdle, Quiet, proverVars, originVars, wireVars
<1>4. CASE \E kinds \in Responses : OriginReads(kinds)
  BY <1>4 DEF OriginReads, MoveOrigin, Keep, verifierVars, keyVars, logVars, proverVars
<1>5. CASE OriginWrites \/ OriginTicket \/ OriginUpdatesItself \/ OriginGone
  BY <1>5 DEF OriginWrites, OriginTicket, OriginUpdatesItself, OriginGone, MoveOrigin,
              Keep, verifierVars, keyVars, logVars, proverVars
<1>6. CASE Ended \/ UNCHANGED rvars
  BY <1>6 DEF Ended, rvars, MoveIdle, Keep, Quiet, verifierVars, keyVars, logVars,
              proverVars, originVars, wireVars
<1> QED
  BY <1>1, <1>2, <1>3, <1>4, <1>5, <1>6 DEF RNext, Verifier, Origin

-----------------------------------------------------------------------------
(* The steps of the origin *)

\* What a record of the prover's does to the origin's read state.
Reads ==
    /\ p2o # <<>> /\ p2o' = Tail(p2o)
    /\ IF p2o[1].kind = "ku" THEN o'.rkey = o.rkey + 1 /\ o'.rseq = 0
       ELSE o'.rkey = o.rkey /\ o'.rseq = o.rseq + 1

\* The origin seals record r.
Seals(r) ==
    /\ o2p' = Append(o2p, r) /\ r \in Records /\ r.epoch = o.wkey /\ r.oseq = o.wseq
    /\ IF r.kind = "ku" THEN o'.wkey = o.wkey + 1 /\ o'.wseq = 0
       ELSE o'.wkey = o.wkey /\ o'.wseq = o.wseq + 1

OriginEffects ==
    /\ ~o.closed /\ o' \in Origins /\ o'.bad = o.bad
    /\ \/ p2o' = p2o /\ o'.rkey = o.rkey /\ o'.rseq = o.rseq
       \/ Reads
    /\ \/ o2p' = o2p /\ o'.wkey = o.wkey /\ o'.wseq = o.wseq /\ ~o'.closed
       \/ \E r \in Records : Seals(r)
       \/ /\ o'.closed /\ o'.wkey = o.wkey
          /\ \E k \in 0 .. Len(o2p) : o2p' = SubSeq(o2p, 1, k)

LEMMA ResponseTypes ==
    ASSUME NEW kinds \in Responses
    PROVE  kinds \in ToWrite /\ Append(kinds, "close") \in ToWrite
<1>1. PICK n \in 1 .. MaxResponse :
          kinds \in [1 .. n -> IF Short THEN {"app", "short"} ELSE {"app"}]
  BY DEF Responses
<1>2. n \in Nat
  BY RotateAssumption
<1>3. kinds \in [1 .. n -> {"app", "short", "close"}]
  BY <1>1
<1>4. kinds \in Seq({"app", "short", "close"})
  BY <1>2, <1>3
<1> QED
  BY <1>4 DEF ToWrite

LEMMA OriginMoves == Inv /\ MoveOrigin => OriginEffects
<1> SUFFICES ASSUME Inv, MoveOrigin PROVE OriginEffects
  OBVIOUS
<1>0. /\ o \in Origins /\ p2o \in Seq(Requests) /\ o2p \in Seq(Records)
      /\ SentInOrder /\ Types
  BY DEF Inv, Types, RTypeOK
<1>a. \A kind \in Kinds, resp \in Nat :
         /\ Out(kind, resp) \in Records /\ Out(kind, resp).kind = kind
         /\ Out(kind, resp).epoch = o.wkey /\ Out(kind, resp).oseq = o.wseq
  BY <1>0 DEF Out, Records, Origins
<1>b. o.todo \in ToWrite
  BY <1>0 DEF Origins
<1>c. o.rkey + 1 \in Nat /\ o.rseq + 1 \in Nat /\ o.wkey + 1 \in Nat
      /\ o.wseq + 1 \in Nat /\ o.tickets + 1 \in Nat /\ o.updates + 1 \in Nat
      /\ 0 \in Nat
  <2>1. /\ o.rkey \in Nat /\ o.rseq \in Nat /\ o.wkey \in Nat /\ o.wseq \in Nat
        /\ o.tickets \in Nat /\ o.updates \in Nat
    BY <1>0 DEF Origins
  <2> QED
    BY <2>1
<1>1. ASSUME NEW kinds \in Responses, OriginReads(kinds) PROVE OriginEffects
  <2> DEFINE m == Head(p2o)
  <2>1. /\ p2o # <<>> /\ ~o.closed /\ p2o' = Tail(p2o) /\ m = p2o[1] /\ m \in Requests
    BY <1>0, <1>1 DEF OriginReads, Reading
  <2>2. Fits(m)
    BY <1>0, <2>1 DEF SentInOrder, Fits
  <2> HIDE DEF m
  <2>3. CASE m.kind = "ku"
    <3>1. /\ o' = [Updated(o) EXCEPT !.rkey = @ + 1, !.rseq = 0]
          /\ o2p' = Append(o2p, Out("ku", 0))
      BY <1>1, <2>2, <2>3 DEF OriginReads, m
    <3>2. /\ o' \in Origins /\ o'.bad = o.bad /\ o'.closed = o.closed
          /\ o'.rkey = o.rkey + 1 /\ o'.rseq = 0 /\ o'.wkey = o.wkey + 1 /\ o'.wseq = 0
      <4>1. o' \in Origins
        BY <1>0, <3>1, <1>c, Zenon DEF Updated, Origins
      <4>2. o'.bad = o.bad /\ o'.closed = o.closed
        BY <1>0, <3>1, Zenon DEF Updated, Origins
      <4>3. o'.rkey = o.rkey + 1 /\ o'.rseq = 0 /\ o'.wkey = o.wkey + 1 /\ o'.wseq = 0
        BY <1>0, <3>1 DEF Updated, Origins
      <4> QED
        BY <4>1, <4>2, <4>3
    <3>3. Reads
      BY <2>1, <2>3, <3>2 DEF Reads
    <3>4. Out("ku", 0) \in Records /\ Seals(Out("ku", 0))
      BY <1>a, <3>1, <3>2 DEF Seals, Kinds
    <3> QED
      BY <2>1, <3>2, <3>3, <3>4 DEF OriginEffects
  <2>4. CASE m.kind # "ku"
    <3>1. /\ o' = [o EXCEPT !.rseq = @ + 1, !.served = m.resp,
                            !.todo = IF m.resp = NRequests
                                     THEN Append(kinds, "close") ELSE kinds]
          /\ o2p' = o2p
      BY <1>1, <2>2, <2>4 DEF OriginReads, m
    <3>2. (IF m.resp = NRequests THEN Append(kinds, "close") ELSE kinds) \in ToWrite
          /\ m.resp \in 0 .. NRequests
      BY <2>1, ResponseTypes, RotateAssumption DEF Requests
    <3>3. /\ o' \in Origins /\ o'.bad = o.bad /\ o'.closed = o.closed
          /\ o'.rkey = o.rkey /\ o'.rseq = o.rseq + 1 /\ o'.wkey = o.wkey /\ o'.wseq = o.wseq
      <4>1. o' \in Origins
        BY <1>0, <3>1, <3>2, <1>c, Zenon DEF Origins
      <4>2. o'.bad = o.bad /\ o'.closed = o.closed
        BY <1>0, <3>1, <3>2, Zenon DEF Origins
      <4>3. o'.rkey = o.rkey /\ o'.rseq = o.rseq + 1 /\ o'.wkey = o.wkey /\ o'.wseq = o.wseq
        BY <1>0, <3>1, <3>2 DEF Origins
      <4> QED
        BY <4>1, <4>2, <4>3
    <3>4. Reads
      BY <2>1, <2>4, <3>3 DEF Reads
    <3> QED
      BY <2>1, <3>1, <3>3, <3>4 DEF OriginEffects
  <2> QED
    BY <2>3, <2>4
<1>2. CASE OriginWrites
  <2> DEFINE kind == Head(o.todo)
             rec == Out(kind, IF kind = "close" THEN 0 ELSE o.served)
  <2>1. /\ o.todo # <<>> /\ ~o.closed /\ o2p' = Append(o2p, rec) /\ p2o' = p2o
        /\ o' = [o EXCEPT !.wseq = @ + 1, !.todo = Tail(@), !.closed = kind = "close"]
    BY <1>2 DEF OriginWrites
  <2>2. kind \in {"app", "short", "close"} /\ Tail(o.todo) \in ToWrite
    BY <1>b, <2>1 DEF ToWrite
  <2>3. (IF kind = "close" THEN 0 ELSE o.served) \in Nat
    BY <1>0, RotateAssumption DEF Origins
  <2>4. rec \in Records /\ rec.kind # "ku" /\ rec.epoch = o.wkey /\ rec.oseq = o.wseq
    BY <1>a, <2>2, <2>3 DEF Kinds
  <2> HIDE DEF kind, rec
  <2>5. /\ o' \in Origins /\ o'.bad = o.bad
        /\ o'.rkey = o.rkey /\ o'.rseq = o.rseq /\ o'.wkey = o.wkey /\ o'.wseq = o.wseq + 1
    <3>1. o' \in Origins
      BY <1>0, <2>1, <2>2, <1>c, Zenon DEF Origins
    <3>2. o'.bad = o.bad
      BY <1>0, <2>1, <2>2, Zenon DEF Origins
    <3>3. o'.rkey = o.rkey /\ o'.rseq = o.rseq /\ o'.wkey = o.wkey /\ o'.wseq = o.wseq + 1
      BY <1>0, <2>1, <2>2 DEF Origins
    <3> QED
      BY <3>1, <3>2, <3>3
  <2>6. Seals(rec)
    BY <2>1, <2>4, <2>5 DEF Seals
  <2> QED
    BY <2>1, <2>4, <2>5, <2>6 DEF OriginEffects
<1>3. CASE OriginTicket
  <2>1. /\ ~o.closed /\ o2p' = Append(o2p, Out("nst", 0)) /\ p2o' = p2o
        /\ o' = [o EXCEPT !.wseq = @ + 1, !.tickets = @ + 1]
    BY <1>3 DEF OriginTicket
  <2>2. /\ o' \in Origins /\ o'.bad = o.bad
        /\ o'.rkey = o.rkey /\ o'.rseq = o.rseq /\ o'.wkey = o.wkey /\ o'.wseq = o.wseq + 1
    <3>1. o' \in Origins
      BY <1>0, <2>1, <1>c, Zenon DEF Origins
    <3>2. o'.bad = o.bad
      BY <1>0, <2>1, Zenon DEF Origins
    <3>3. o'.rkey = o.rkey /\ o'.rseq = o.rseq /\ o'.wkey = o.wkey /\ o'.wseq = o.wseq + 1
      BY <1>0, <2>1 DEF Origins
    <3> QED
      BY <3>1, <3>2, <3>3
  <2>3. Out("nst", 0) \in Records /\ Seals(Out("nst", 0))
    BY <1>a, <2>1, <2>2 DEF Seals, Kinds
  <2> QED
    BY <2>1, <2>2, <2>3 DEF OriginEffects
<1>4. CASE OriginUpdatesItself
  <2>1. /\ ~o.closed /\ o2p' = Append(o2p, Out("ku", 0)) /\ p2o' = p2o
        /\ o' = [Updated(o) EXCEPT !.updates = @ + 1]
    BY <1>4 DEF OriginUpdatesItself
  <2>2. /\ o' \in Origins /\ o'.bad = o.bad
        /\ o'.rkey = o.rkey /\ o'.rseq = o.rseq /\ o'.wkey = o.wkey + 1 /\ o'.wseq = 0
    <3>1. o' \in Origins
      BY <1>0, <2>1, <1>c, Zenon DEF Origins, Updated
    <3>2. o'.bad = o.bad
      BY <1>0, <2>1, Zenon DEF Origins, Updated
    <3>3. o'.rkey = o.rkey /\ o'.rseq = o.rseq /\ o'.wkey = o.wkey + 1 /\ o'.wseq = 0
      BY <1>0, <2>1 DEF Origins, Updated
    <3> QED
      BY <3>1, <3>2, <3>3
  <2>3. Out("ku", 0) \in Records /\ Seals(Out("ku", 0))
    BY <1>a, <2>1, <2>2 DEF Seals, Kinds
  <2> QED
    BY <2>1, <2>2, <2>3 DEF OriginEffects
<1>5. CASE OriginGone
  <2>1. /\ ~o.closed /\ p2o' = p2o /\ o' = [o EXCEPT !.closed = TRUE]
        /\ \E k \in 0 .. Len(o2p) : o2p' = SubSeq(o2p, 1, k)
    BY <1>5 DEF OriginGone
  <2>2. /\ o' \in Origins /\ o'.bad = o.bad /\ o'.closed
        /\ o'.rkey = o.rkey /\ o'.rseq = o.rseq /\ o'.wkey = o.wkey
    BY <1>0, <2>1 DEF Origins
  <2> QED
    BY <2>1, <2>2 DEF OriginEffects
<1> QED
  BY <1>1, <1>2, <1>3, <1>4, <1>5 DEF MoveOrigin

-----------------------------------------------------------------------------
(* Every move keeps the types *)

PcNames ==
    {"setup", "request", "request_tag", "ku", "ku_tag", "rotate_client", "drain",
     "commit", "verify", "release", "open", "replay", "psk_done", "rotate_server",
     "stop", "done", "fail"}

\* The fields of the prover's record.
LEMMA ProverFields ==
    ASSUME Types
    PROVE  /\ p.pc \in PcNames /\ p.round \in Nat /\ p.round \in 1 .. NRequests
           /\ p.idx \in Nat /\ p.skey \in Shares /\ p.ckey \in Shares
           /\ p.wseq \in Nat /\ p.rseq \in Nat /\ p.start \in Nat /\ p.end \in Nat
           /\ p.epoch \in Nat
           /\ p.skey \in Nat /\ p.ckey \in Nat
<1>1. p \in Provers
  BY DEF Types, RTypeOK
<1>2. /\ p.pc \in PcNames /\ p.round \in 1 .. NRequests
      /\ p.idx \in Nat /\ p.skey \in Shares /\ p.ckey \in Shares
      /\ p.wseq \in Nat /\ p.rseq \in Nat /\ p.start \in Nat /\ p.end \in Nat
      /\ p.epoch \in Nat
  BY <1>1 DEF Provers, PcNames
<1>3. p.skey \in Nat /\ p.ckey \in Nat /\ p.round \in Nat
  BY <1>2, MaxKeyAssumption, RotateAssumption DEF Shares
<1> QED
  BY <1>2, <1>3

LEMMA ProverTypes == Inv /\ Move => p' \in Provers /\ {skey', ckey', fresh'} \subseteq Shares
<1> SUFFICES ASSUME Inv, Move
             PROVE  p' \in Provers /\ skey' \in Shares /\ ckey' \in Shares /\ fresh' \in Shares
  OBVIOUS
<1>0. Types /\ p \in Provers
  BY DEF Inv, Types, RTypeOK
<1>b. /\ skey \in Shares /\ ckey \in Shares /\ fresh \in Shares
      /\ Len(recs) \in Nat /\ Len(o2p) \in Nat
  BY Elements DEF Inv, Types, RTypeOK
<1>c. /\ p.idx + 1 \in Nat /\ p.wseq + 1 \in Nat /\ p.start + 1 \in Nat /\ 0 \in Nat
      /\ p.epoch + 1 \in Nat /\ p.idx \in Nat /\ p.end \in Nat
  BY <1>0, ProverFields
<1>1. CASE MoveIdle
  BY <1>0, <1>b, <1>1 DEF MoveIdle, Keep
<1>2. CASE MoveFails
  <2>1. p' \in Provers
    BY <1>0, <1>c, <1>2, ZenonT(40) DEF MoveFails, To, Provers
  <2> QED
    BY <1>b, <1>2, <2>1 DEF MoveFails
<1>3. CASE MoveEstablish
  <2>1. fresh + 1 \in Shares /\ fresh + 2 \in Shares
    <3>1. fresh + 2 <= MaxKey
      BY <1>3 DEF MoveEstablish
    <3> QED
      BY <1>b, <3>1, MaxKeyAssumption DEF Shares
  <2>2. p' = [p EXCEPT !.pc = "request", !.skey = skey', !.ckey = ckey']
        /\ skey' \in Shares /\ ckey' \in Shares /\ fresh' \in Shares
    BY <1>3, <2>1, Zenon DEF MoveEstablish
  <2>3. p' \in Provers
    BY <1>0, <2>2, Zenon DEF Provers
  <2> QED
    BY <2>2, <2>3
<1>4. CASE MoveOn
  <2>0. AfterReplay \in {"rotate_server", "stop"}
    BY DEF AfterReplay
  <2>1. \/ To("request_tag") \/ To("ku_tag") \/ To("commit") \/ To("rotate_server")
        \/ To("stop") \/ To("done")
        \/ p' = [p EXCEPT !.pc = "verify", !.idx = p.start + 1]
        \/ p' = [p EXCEPT !.pc = "psk_done", !.psk = FALSE]
    BY <1>4, <2>0 DEF MoveOn
  <2>2. p' \in Provers
    <3>1. CASE p' = [p EXCEPT !.pc = "verify", !.idx = p.start + 1]
      BY <1>0, <1>c, <3>1, Zenon DEF Provers
    <3>2. CASE p' = [p EXCEPT !.pc = "psk_done", !.psk = FALSE]
      <4>1. FALSE \in BOOLEAN /\ p \in Provers
        BY <1>0
      <4> QED
        BY <3>2, <4>1 DEF Provers
    <3>3. CASE \/ To("request_tag") \/ To("ku_tag") \/ To("commit") \/ To("rotate_server")
               \/ To("stop") \/ To("done")
      <4>1. ASSUME NEW pc \in PcNames, To(pc) PROVE p' \in Provers
        BY <1>0, <4>1, Zenon DEF To, Provers, PcNames
      <4> QED
        BY <3>3, <4>1 DEF PcNames
    <3> QED
      BY <2>1, <3>1, <3>2, <3>3
  <2> QED
    BY <1>b, <1>4, <2>2 DEF MoveOn, Keep
<1>5. CASE MoveRequest
  <2>1. p' \in Provers
    BY <1>0, <1>c, <1>5, Zenon DEF MoveRequest, Provers
  <2> QED
    BY <1>b, <1>5, <2>1 DEF MoveRequest, Keep
<1>6. CASE MoveUpdate
  <2>1. p' \in Provers
    BY <1>0, <1>c, <1>6, Zenon DEF MoveUpdate, Provers
  <2> QED
    BY <1>b, <1>6, <2>1 DEF MoveUpdate, Keep
<1>7. CASE MoveClient
  <2>1. fresh + 1 \in Shares
    <3>1. fresh < MaxKey
      BY <1>7 DEF MoveClient
    <3> QED
      BY <1>b, <3>1, MaxKeyAssumption DEF Shares
  <2>2. p' = [p EXCEPT !.ckey = ckey', !.pc = "drain"]
        /\ skey' \in Shares /\ ckey' \in Shares /\ fresh' \in Shares
    BY <1>b, <1>7, <2>1, Zenon DEF MoveClient
  <2>3. p' \in Provers
    BY <1>0, <2>2, Zenon DEF Provers
  <2> QED
    BY <2>2, <2>3
<1>8. CASE MoveCapture
  <2>1. PICK k \in 1 .. Len(o2p) : p' = [p EXCEPT !.rseq = @ + k]
    BY <1>8 DEF MoveCapture
  <2>2. p.rseq + k \in Nat
    <3>1. p.rseq \in Nat /\ k \in Nat
      BY <1>0, <1>b, ProverFields
    <3> QED
      BY <3>1
  <2>3. p' \in Provers
    BY <1>0, <2>1, <2>2, Zenon DEF Provers
  <2> QED
    BY <1>b, <1>8, <2>3 DEF MoveCapture, Keep
<1>9. CASE MovePasses
  <2>1. p' = [p EXCEPT !.idx = @ + 1, !.end = p.idx,
                       !.pc = IF p.idx = Len(recs) THEN "release" ELSE "verify"]
    BY <1>9 DEF MovePasses, AfterVerdict
  <2>2. p' \in Provers
    BY <1>0, <1>c, <2>1, Zenon DEF Provers
  <2> QED
    BY <1>b, <1>9, <2>2 DEF MovePasses, Keep
<1>10. CASE MoveRejects \/ MoveRelease \/ MoveOpen
  <2>1. Keep /\ (To("release") \/ To("open") \/ To("replay") \/ To("rotate_server"))
    BY <1>10, Zenon DEF MoveRejects, MoveRelease, MoveOpen
  <2>2. p' \in Provers
    BY <1>0, <2>1, ZenonT(40) DEF To, Provers
  <2> QED
    BY <1>b, <2>1, <2>2 DEF Keep
<1>11. CASE MoveServer
  <2>1. fresh + 1 \in Shares
    <3>1. fresh < MaxKey
      BY <1>11 DEF MoveServer
    <3> QED
      BY <1>b, <3>1, MaxKeyAssumption DEF Shares
  <2>2. skey' \in Shares /\ ckey' \in Shares /\ fresh' \in Shares
    BY <1>b, <1>11, <2>1, Zenon DEF MoveServer
  <2>3. CASE Flow = "epoch"
    <3>1. p' = [p EXCEPT !.skey = skey', !.epoch = @ + 1, !.rseq = 0,
                         !.start = Len(recs), !.round = @ + 1, !.pc = "request"]
      BY <1>11, <2>3 DEF MoveServer
    <3>2. p.round # NRequests
      BY <1>11, <2>3 DEF MoveServer, Inv, KeysInStep, Last
    <3>3. p.round + 1 \in 1 .. NRequests
      BY <1>0, <3>2, ProverFields, RotateAssumption
    <3>4. p' \in Provers
      BY <1>0, <1>b, <1>c, <2>2, <3>1, <3>3, Zenon DEF Provers
    <3> QED
      BY <2>2, <3>4
  <2>4. CASE Flow = "batch"
    <3>1. p' = [p EXCEPT !.skey = skey', !.epoch = @ + 1, !.start = p.end,
                         !.pc = "commit"]
      BY <1>11, <2>4 DEF MoveServer
    <3>2. p' \in Provers
      BY <1>0, <1>c, <2>2, <3>1, Zenon DEF Provers
    <3> QED
      BY <2>2, <3>2
  <2> QED
    BY <2>3, <2>4, RotateAssumption
<1>12. CASE MoveOrigin
  BY <1>0, <1>b, <1>12 DEF MoveOrigin, Keep
<1> QED
  BY <1>1, <1>2, <1>3, <1>4, <1>5, <1>6, <1>7, <1>8, <1>9, <1>10, <1>11, <1>12 DEF Move

LEMMA RenumberTyped ==
    ASSUME NEW rs \in Seq(Records), NEW from \in Nat
    PROVE  /\ Renumber(rs, from) \in Seq(Records)
           /\ Len(Renumber(rs, from)) = Len(rs)
           /\ \A j \in 1 .. Len(rs) :
                 /\ Renumber(rs, from)[j].kind = rs[j].kind
                 /\ Renumber(rs, from)[j].epoch = rs[j].epoch
                 /\ Renumber(rs, from)[j].oseq = rs[j].oseq
                 /\ Renumber(rs, from)[j].resp = rs[j].resp
                 /\ j > from => Renumber(rs, from)[j].seq = j - from - 1
<1>1. DOMAIN rs = 1 .. Len(rs) /\ Len(rs) \in Nat /\ \A j \in 1 .. Len(rs) : rs[j] \in Records
  OBVIOUS
<1> DEFINE g == Renumber(rs, from)
<1>2. /\ DOMAIN g = 1 .. Len(rs)
      /\ \A j \in 1 .. Len(rs) :
            g[j] = IF j > from THEN [rs[j] EXCEPT !.seq = j - from - 1] ELSE rs[j]
      /\ g = [j \in 1 .. Len(rs) |->
                IF j > from THEN [rs[j] EXCEPT !.seq = j - from - 1] ELSE rs[j]]
  BY <1>1 DEF Renumber
<1> HIDE DEF g
<1>3. ASSUME NEW j \in 1 .. Len(rs)
      PROVE  /\ g[j] \in Records /\ g[j].kind = rs[j].kind /\ g[j].epoch = rs[j].epoch
             /\ g[j].oseq = rs[j].oseq /\ g[j].resp = rs[j].resp
             /\ (j > from => g[j].seq = j - from - 1)
  <2>1. rs[j] \in Records /\ j \in Nat
    BY <1>1
  <2>2. CASE j > from
    <3>1. g[j] = [rs[j] EXCEPT !.seq = j - from - 1] /\ j - from - 1 \in Nat
      BY <1>2, <2>1, <2>2
    <3> QED
      BY <2>1, <3>1 DEF Records
  <2>3. CASE ~(j > from)
    BY <1>2, <2>1, <2>3
  <2> QED
    BY <2>2, <2>3
<1>4. g \in [1 .. Len(rs) -> Records]
  BY <1>2, <1>3
<1>5. g \in Seq(Records)
  BY <1>1, <1>4
<1>6. Len(g) = Len(rs)
  BY <1>1, <1>2, <1>5
<1> QED
  BY <1>3, <1>5, <1>6 DEF g

\* The records one SSL_read takes.
Taken(k) == [i \in 1 .. k |-> [o2p[i] EXCEPT !.seq = p.rseq + i - 1]]

LEMMA CaptureTyped ==
    ASSUME Types, NEW k \in 1 .. Len(o2p)
    PROVE  /\ Taken(k) \in Seq(Records) /\ Len(Taken(k)) = k
           /\ \A i \in 1 .. k : /\ Taken(k)[i].kind = o2p[i].kind
                                /\ Taken(k)[i].epoch = o2p[i].epoch
                                /\ Taken(k)[i].oseq = o2p[i].oseq
                                /\ Taken(k)[i].resp = o2p[i].resp
                                /\ Taken(k)[i].seq = p.rseq + i - 1
<1>1. Len(o2p) \in Nat /\ \A i \in 1 .. Len(o2p) : o2p[i] \in Records
  BY Elements
<1>2. p.rseq \in Nat
  BY ProverFields
<1>3. ASSUME NEW i \in 1 .. k
      PROVE  /\ Taken(k)[i] \in Records /\ Taken(k)[i].kind = o2p[i].kind
             /\ Taken(k)[i].epoch = o2p[i].epoch /\ Taken(k)[i].oseq = o2p[i].oseq
             /\ Taken(k)[i].resp = o2p[i].resp /\ Taken(k)[i].seq = p.rseq + i - 1
  <2>1. o2p[i] \in Records /\ p.rseq + i - 1 \in Nat
    BY <1>1, <1>2
  <2>2. Taken(k)[i] = [o2p[i] EXCEPT !.seq = p.rseq + i - 1]
    BY DEF Taken
  <2> QED
    BY <2>1, <2>2 DEF Records
<1>4. Taken(k) \in [1 .. k -> Records]
  BY <1>3 DEF Taken
<1>5. Taken(k) \in Seq(Records) /\ Len(Taken(k)) = k
  BY <1>1, <1>4
<1> QED
  BY <1>3, <1>5

LEMMA SeqTyped ==
    ASSUME NEW S, NEW s \in Seq(S)
    PROVE  /\ \A x \in S : Append(s, x) \in Seq(S)
           /\ s # <<>> => Tail(s) \in Seq(S)
           /\ \A k \in 0 .. Len(s) : SubSeq(s, 1, k) \in Seq(S)
OBVIOUS

LEMMA TypesKept == Inv /\ Move => Types'
<1> SUFFICES ASSUME Inv, Move PROVE Types'
  OBVIOUS
<1>0. /\ Types /\ recs \in Seq(Records) /\ o2p \in Seq(Records) /\ p2o \in Seq(Requests)
      /\ o \in Origins /\ why \subseteq {"lost", "timeout", "origin", "noticket"}
  BY DEF Inv, Types, RTypeOK
<1>a. ASSUME recs' \in Seq(Records), o2p' \in Seq(Records), p2o' \in Seq(Requests),
             o' \in Origins
      PROVE  Types'
  <2>1. why' \subseteq {"lost", "timeout", "origin", "noticket"}
    BY <1>0 DEF Move
  <2> QED
    BY <1>a, <2>1, ProverTypes DEF Types, RTypeOK
<1>1. CASE Quiet
  BY <1>0, <1>1, <1>a DEF Quiet
<1>2. CASE MoveRequest \/ MoveUpdate
  <2>1. UNCHANGED <<recs, o2p, o>>
        /\ (p2o' = Append(p2o, Sealed1("req")) \/ p2o' = Append(p2o, Sealed1("ku")))
    BY <1>2 DEF MoveRequest, MoveUpdate
  <2>2. Sealed1("req") \in Requests /\ Sealed1("ku") \in Requests
    <3>1. ckey \in Nat /\ p.wseq \in Nat /\ p.round \in 1 .. NRequests /\ Junk \in Nat
      BY <1>0, ProverFields, MaxKeyAssumption DEF Types, Shares, Junk
    <3> QED
      BY <3>1 DEF Sealed1, Requests
  <2>3. p2o' \in Seq(Requests)
    BY <1>0, <2>1, <2>2, SeqTyped
  <2> QED
    BY <1>0, <1>a, <2>1, <2>3
<1>3. CASE MoveCapture
  <2>1. PICK k \in 1 .. Len(o2p) :
            recs' = recs \o Taken(k) /\ o2p' = SubSeq(o2p, k + 1, Len(o2p))
    BY <1>3 DEF MoveCapture, Taken
  <2>2. UNCHANGED <<o, p2o>>
    BY <1>3 DEF MoveCapture
  <2>3. recs' \in Seq(Records)
    BY <1>0, <2>1, CaptureTyped
  <2>4. o2p' \in Seq(Records)
    BY <1>0, <2>1
  <2> QED
    BY <1>0, <1>a, <2>2, <2>3, <2>4
<1>4. CASE MoveServer
  <2>1. UNCHANGED <<o2p, o, p2o>> /\ (recs' = recs \/ recs' = Renumber(recs, p.end))
    BY <1>4 DEF MoveServer
  <2>2. recs' \in Seq(Records)
    BY <1>0, <2>1, RenumberTyped, ProverFields
  <2> QED
    BY <1>0, <1>a, <2>1, <2>2
<1>5. CASE MoveOrigin
  <2>1. OriginEffects /\ recs' = recs
    BY <1>5, OriginMoves DEF MoveOrigin
  <2>2. p2o' \in Seq(Requests)
    BY <1>0, <2>1, SeqTyped DEF OriginEffects, Reads
  <2>3. o2p' \in Seq(Records)
    BY <1>0, <2>1, SeqTyped DEF OriginEffects, Seals
  <2> QED
    BY <1>0, <1>a, <2>1, <2>2, <2>3 DEF OriginEffects
<1> QED
  BY <1>1, <1>2, <1>3, <1>4, <1>5
     DEF Move, MoveIdle, MoveFails, MoveEstablish, MoveOn, MoveClient, MovePasses,
         MoveRejects, MoveRelease, MoveOpen

-----------------------------------------------------------------------------
(* What each move makes of the prover's fields *)

SameRound == p'.round = p.round /\ p'.epoch = p.epoch /\ p'.start = p.start
SameKeys == p'.skey = p.skey /\ p'.ckey = p.ckey
SameSeqs == p'.wseq = p.wseq /\ p'.rseq = p.rseq

LEMMA ProverEffects ==
    ASSUME Inv
    PROVE  /\ MoveFails => p'.pc = "fail" /\ SameRound
           /\ MoveEstablish => /\ p'.pc = "request" /\ p'.skey = skey' /\ p'.ckey = ckey'
                               /\ SameRound /\ SameSeqs
           /\ MoveOn => /\ SameRound /\ SameKeys /\ SameSeqs /\ p'.end = p.end
                        /\ p'.pc = "verify" => p'.idx = p.start + 1
                        /\ <<p.pc, p'.pc>> \in
                              {<<"request", "request_tag">>, <<"ku", "ku_tag">>,
                               <<"drain", "commit">>, <<"commit", "verify">>,
                               <<"replay", "psk_done">>, <<"replay", AfterReplay>>,
                               <<"psk_done", AfterReplay>>, <<"stop", "done">>}
           /\ MoveRequest => /\ SameRound /\ SameKeys /\ p'.rseq = p.rseq
                             /\ p'.wseq = p.wseq + 1
                             /\ p'.pc = IF Flow = "epoch" /\ ~Last THEN "ku" ELSE "drain"
           /\ MoveUpdate => /\ SameRound /\ SameKeys /\ p'.rseq = p.rseq
                            /\ p'.wseq = 0 /\ p'.pc = "rotate_client"
           /\ MoveClient => /\ SameRound /\ SameSeqs /\ p'.pc = "drain"
                            /\ p'.skey = p.skey /\ p'.ckey = ckey'
           /\ MovePasses => /\ SameRound /\ SameKeys /\ SameSeqs
                            /\ p'.idx = p.idx + 1 /\ p'.end = p.idx
                            /\ p'.pc = IF p.idx = Len(recs) THEN "release" ELSE "verify"
           /\ MoveRejects => /\ SameRound /\ SameKeys /\ SameSeqs /\ p'.end = p.end
                             /\ p'.pc = "release"
           /\ MoveRelease => /\ SameRound /\ SameKeys /\ SameSeqs /\ p'.end = p.end
                             /\ p'.pc = "open"
           /\ MoveOpen => /\ SameRound /\ SameKeys /\ SameSeqs /\ p'.end = p.end
                          /\ p'.pc \in {"replay", "rotate_server"}
                          /\ p'.pc = "rotate_server" => Flow = "batch" /\ recs[p.end].kind = "ku"
                          /\ Flow = "epoch" /\ ~Last => recs[Len(recs)].kind = "ku"
           /\ MoveServer => /\ p'.skey = skey' /\ p'.ckey = p.ckey /\ p'.wseq = p.wseq
                            /\ p'.epoch = p.epoch + 1
                            /\ Flow = "epoch" =>
                                  /\ p'.rseq = 0 /\ p'.start = Len(recs) /\ recs' = recs
                                  /\ p'.round = p.round + 1 /\ p'.pc = "request"
                            /\ Flow = "batch" =>
                                  /\ p'.start = p.end /\ p'.round = p.round
                                  /\ p'.pc = "commit" /\ recs' = Renumber(recs, p.end)
<1>0. p \in Provers
  BY DEF Inv, Types, RTypeOK
<1> USE <1>0 DEF Provers, SameRound, SameKeys, SameSeqs, To
<1>1. MoveFails => p'.pc = "fail" /\ SameRound
  BY DEF MoveFails
<1>2. MoveEstablish => /\ p'.pc = "request" /\ p'.skey = skey' /\ p'.ckey = ckey'
                       /\ SameRound /\ SameSeqs
  BY DEF MoveEstablish
<1>3. MoveOn => /\ SameRound /\ SameKeys /\ SameSeqs /\ p'.end = p.end
                /\ p'.pc = "verify" => p'.idx = p.start + 1
                /\ <<p.pc, p'.pc>> \in
                      {<<"request", "request_tag">>, <<"ku", "ku_tag">>,
                       <<"drain", "commit">>, <<"commit", "verify">>,
                       <<"replay", "psk_done">>, <<"replay", AfterReplay>>,
                       <<"psk_done", AfterReplay>>, <<"stop", "done">>}
  <2> SUFFICES ASSUME MoveOn
               PROVE  /\ SameRound /\ SameKeys /\ SameSeqs /\ p'.end = p.end
                      /\ p'.pc = "verify" => p'.idx = p.start + 1
                      /\ <<p.pc, p'.pc>> \in
                            {<<"request", "request_tag">>, <<"ku", "ku_tag">>,
                             <<"drain", "commit">>, <<"commit", "verify">>,
                             <<"replay", "psk_done">>, <<"replay", AfterReplay>>,
                             <<"psk_done", AfterReplay>>, <<"stop", "done">>}
    OBVIOUS
  <2>1. AfterReplay # "verify"
    BY DEF AfterReplay
  <2>2. CASE p.pc = "commit" /\ p' = [p EXCEPT !.pc = "verify", !.idx = p.start + 1]
    BY <2>2
  <2>3. CASE p.pc = "replay" /\ p' = [p EXCEPT !.pc = "psk_done", !.psk = FALSE]
    BY <2>3
  <2>4. CASE \/ p.pc = "request" /\ To("request_tag")
             \/ p.pc = "ku" /\ To("ku_tag")
             \/ p.pc = "drain" /\ To("commit")
             \/ p.pc \in {"replay", "psk_done"} /\ To(AfterReplay)
             \/ p.pc = "stop" /\ To("done")
    BY <2>1, <2>4
  <2> QED
    BY <2>2, <2>3, <2>4 DEF MoveOn
<1>4. MoveRequest => /\ SameRound /\ SameKeys /\ p'.rseq = p.rseq
                     /\ p'.wseq = p.wseq + 1
                     /\ p'.pc = IF Flow = "epoch" /\ ~Last THEN "ku" ELSE "drain"
  BY DEF MoveRequest
<1>5. MoveUpdate => /\ SameRound /\ SameKeys /\ p'.rseq = p.rseq
                    /\ p'.wseq = 0 /\ p'.pc = "rotate_client"
  BY DEF MoveUpdate
<1>6. MoveClient => /\ SameRound /\ SameSeqs /\ p'.pc = "drain"
                    /\ p'.skey = p.skey /\ p'.ckey = ckey'
  BY DEF MoveClient
<1>7. MovePasses => /\ SameRound /\ SameKeys /\ SameSeqs
                    /\ p'.idx = p.idx + 1 /\ p'.end = p.idx
                    /\ p'.pc = IF p.idx = Len(recs) THEN "release" ELSE "verify"
  BY DEF MovePasses, AfterVerdict
<1>8. MoveRejects => SameRound /\ SameKeys /\ SameSeqs /\ p'.end = p.end /\ p'.pc = "release"
  BY DEF MoveRejects
<1>9. MoveRelease => SameRound /\ SameKeys /\ SameSeqs /\ p'.end = p.end /\ p'.pc = "open"
  BY DEF MoveRelease
<1>10. MoveOpen => /\ SameRound /\ SameKeys /\ SameSeqs /\ p'.end = p.end
                   /\ p'.pc \in {"replay", "rotate_server"}
                   /\ p'.pc = "rotate_server" => Flow = "batch" /\ recs[p.end].kind = "ku"
                   /\ Flow = "epoch" /\ ~Last => recs[Len(recs)].kind = "ku"
  BY DEF MoveOpen
<1>11. MoveServer => /\ p'.skey = skey' /\ p'.ckey = p.ckey /\ p'.wseq = p.wseq
                     /\ p'.epoch = p.epoch + 1
                     /\ Flow = "epoch" =>
                           /\ p'.rseq = 0 /\ p'.start = Len(recs) /\ recs' = recs
                           /\ p'.round = p.round + 1 /\ p'.pc = "request"
                     /\ Flow = "batch" =>
                           /\ p'.start = p.end /\ p'.round = p.round
                           /\ p'.pc = "commit" /\ recs' = Renumber(recs, p.end)
  BY DEF MoveServer
<1> QED
  BY <1>1, <1>2, <1>3, <1>4, <1>5, <1>6, <1>7, <1>8, <1>9, <1>10, <1>11

LEMMA CaptureEffects ==
    ASSUME Inv, MoveCapture
    PROVE  /\ SameRound /\ SameKeys /\ p'.wseq = p.wseq /\ p.pc = "drain" /\ p'.pc = "drain"
           /\ \E k \in 1 .. Len(o2p) :
                 /\ recs' = recs \o Taken(k) /\ p'.rseq = p.rseq + k
                 /\ o2p' = SubSeq(o2p, k + 1, Len(o2p))
<1>0. p \in Provers /\ p.pc = "drain"
  BY DEF Inv, Types, RTypeOK, MoveCapture
<1>1. PICK k \in 1 .. Len(o2p) :
          /\ recs' = recs \o Taken(k) /\ p' = [p EXCEPT !.rseq = @ + k]
          /\ o2p' = SubSeq(o2p, k + 1, Len(o2p))
  BY DEF MoveCapture, Taken
<1>2. SameRound /\ SameKeys /\ p'.wseq = p.wseq /\ p'.pc = "drain" /\ p'.rseq = p.rseq + k
  BY <1>0, <1>1 DEF Provers, SameRound, SameKeys
<1> QED
  BY <1>0, <1>1, <1>2

-----------------------------------------------------------------------------
(* The keys stay in step *)

LEMMA KeysKept == Inv /\ Move => KeysInStep'
<1> SUFFICES ASSUME Inv, Move PROVE KeysInStep'
  OBVIOUS
<1>0. /\ KeysInStep /\ Types /\ p.epoch \in Nat /\ p.round \in Nat /\ p.pc \in PcNames
      /\ skey \in Nat /\ ckey \in Nat /\ fresh \in Nat
  BY ProverFields, MaxKeyAssumption DEF Inv, Types, Shares
<1> USE RotateAssumption, ProverEffects
<1>1. CASE MoveIdle \/ MoveOrigin
  <2>1. UNCHANGED <<p, skey, ckey, fresh>>
    BY <1>1 DEF MoveIdle, MoveOrigin, Keep
  <2> QED
    BY <1>0, <2>1 DEF KeysInStep, Running, ClientTurned, Last
<1>2. CASE MoveFails
  BY <1>2 DEF KeysInStep, Running
<1>3. CASE MoveEstablish
  <2>1. /\ p'.pc = "request" /\ p'.skey = skey' /\ p'.ckey = ckey' /\ SameRound
        /\ p.pc = "setup" /\ ckey' = fresh + 1 /\ skey' = fresh + 2 /\ fresh' = fresh + 2
    BY <1>3 DEF MoveEstablish
  <2>2. fresh = 0 /\ p.epoch = 0 /\ p.round = 1
    BY <1>0, <2>1 DEF KeysInStep
  <2> QED
    BY <2>1, <2>2
       DEF KeysInStep, Running, ClientTurned, Last, ClientKey, ServerKey, SameRound
<1>4. CASE MoveOn
  <2>1. SameRound /\ SameKeys /\ UNCHANGED <<skey, ckey, fresh>> /\ Last' = Last
    BY <1>4 DEF MoveOn, Keep, SameRound, Last
  <2>2. /\ Running' => Running
        /\ Running' => ClientTurned' = ClientTurned
        /\ p'.pc # "setup"
        /\ p'.pc \in {"ku", "ku_tag", "rotate_client"} =>
              p.pc \in {"ku", "ku_tag", "rotate_client"}
        /\ p'.pc = "rotate_server" /\ Flow = "epoch" => ~Last
    BY <1>4, <2>1 DEF Running, ClientTurned, AfterReplay
  <2> QED
    BY <1>0, <2>1, <2>2 DEF KeysInStep, SameRound, SameKeys
<1>5. CASE MoveRequest
  <2>1. SameRound /\ SameKeys /\ UNCHANGED <<skey, ckey, fresh>> /\ Last' = Last
        /\ p.pc = "request_tag" /\ p'.pc = IF Flow = "epoch" /\ ~Last THEN "ku" ELSE "drain"
    BY <1>5 DEF MoveRequest, Keep, SameRound, Last
  <2> QED
    BY <1>0, <2>1 DEF KeysInStep, SameRound, SameKeys, Running, ClientTurned
<1>6. CASE MoveUpdate
  <2>1. SameRound /\ SameKeys /\ UNCHANGED <<skey, ckey, fresh>> /\ Last' = Last
        /\ p.pc = "ku_tag" /\ p'.pc = "rotate_client"
    BY <1>6 DEF MoveUpdate, Keep, SameRound, Last
  <2> QED
    BY <1>0, <2>1 DEF KeysInStep, SameRound, SameKeys, Running, ClientTurned
<1>7. CASE MoveClient
  <2>1. /\ SameRound /\ p'.skey = p.skey /\ p'.ckey = ckey' /\ Last' = Last
        /\ p.pc = "rotate_client" /\ p'.pc = "drain"
        /\ ckey' = fresh + 1 /\ fresh' = fresh + 1 /\ skey' = skey
    BY <1>7 DEF MoveClient, SameRound, Last
  <2>2. /\ Flow = "epoch" /\ ~Last /\ p.skey = skey /\ skey = ServerKey(p.epoch)
        /\ fresh = skey /\ p.round = p.epoch + 1
    BY <1>0, <2>1 DEF KeysInStep, Running, ClientTurned
  <2> QED
    BY <1>0, <2>1, <2>2
       DEF KeysInStep, SameRound, Running, ClientTurned, ServerKey, ClientKey
<1>8. CASE MoveCapture
  <2>1. SameRound /\ SameKeys /\ UNCHANGED <<skey, ckey, fresh>> /\ Last' = Last
        /\ p.pc = "drain" /\ p'.pc = "drain"
    BY <1>8, CaptureEffects DEF MoveCapture, Keep, SameRound, Last
  <2> QED
    BY <1>0, <2>1 DEF KeysInStep, SameRound, SameKeys, Running, ClientTurned
<1>9. CASE MovePasses \/ MoveRejects \/ MoveRelease \/ MoveOpen
  <2>1. /\ SameRound /\ SameKeys /\ UNCHANGED <<skey, ckey, fresh>> /\ Last' = Last
        /\ p.pc \in {"verify", "release", "open"}
        /\ p'.pc \in {"verify", "release", "open", "replay", "rotate_server"}
        /\ p'.pc = "rotate_server" => Flow = "batch"
    BY <1>9 DEF MovePasses, MoveRejects, MoveRelease, MoveOpen, Keep, SameRound, Last
  <2>2. /\ Running' /\ Running /\ (ClientTurned' <=> ClientTurned) /\ p'.pc # "setup"
        /\ p'.pc \notin {"ku", "ku_tag", "rotate_client"}
    BY <2>1 DEF Running, ClientTurned, SameRound, Last
  <2> QED
    BY <1>0, <2>1, <2>2 DEF KeysInStep, SameRound, SameKeys
<1>10. CASE MoveServer
  <2>1. /\ p'.skey = skey' /\ p'.ckey = p.ckey /\ p'.epoch = p.epoch + 1
        /\ p.pc = "rotate_server" /\ skey' = fresh + 1 /\ fresh' = fresh + 1 /\ ckey' = ckey
    BY <1>10 DEF MoveServer
  <2>2. CASE Flow = "epoch"
    <3>1. p'.round = p.round + 1 /\ p'.pc = "request"
      BY <1>10, <2>2
    <3>2. /\ p.ckey = ckey /\ p.round = p.epoch + 1 /\ ~Last
          /\ ckey = ClientKey(p.epoch + 1) /\ fresh = ckey
      BY <1>0, <2>1, <2>2 DEF KeysInStep, Running, ClientTurned
    <3>3. /\ Running' /\ ~ClientTurned' /\ p'.pc # "setup" /\ p'.pc # "rotate_server"
          /\ p'.pc \notin {"ku", "ku_tag", "rotate_client"}
      BY <3>1 DEF Running, ClientTurned
    <3>4. skey' = ServerKey(p'.epoch) /\ ckey' = ClientKey(p'.epoch) /\ fresh' = skey'
          /\ p'.ckey = ckey' /\ p'.round = p'.epoch + 1
      <4>1. p.epoch \in Nat /\ p'.epoch = p.epoch + 1
        BY <1>0, <2>1
      <4>2. ClientKey(p.epoch + 1) = 2 * p.epoch + 3 /\ ServerKey(p.epoch + 1) = 2 * p.epoch + 4
        BY <2>2, <4>1 DEF ServerKey, ClientKey
      <4>3. skey' = ServerKey(p.epoch + 1) /\ fresh' = skey' /\ ckey' = ClientKey(p.epoch + 1)
        BY <2>1, <3>2, <4>1, <4>2
      <4> QED
        BY <2>1, <3>1, <3>2, <4>1, <4>3
    <3> QED
      BY <2>1, <2>2, <3>3, <3>4 DEF KeysInStep
  <2>3. CASE Flow = "batch"
    <3>1. p'.pc = "commit"
      BY <1>10, <2>3
    <3>2. p.ckey = ckey /\ ckey = ClientKey(0) /\ fresh = skey /\ skey = ServerKey(p.epoch)
      BY <1>0, <2>1, <2>3 DEF KeysInStep, Running
    <3> QED
      BY <1>0, <2>1, <2>3, <3>1, <3>2 DEF KeysInStep, Running, ServerKey
  <2> QED
    BY <2>2, <2>3
<1> QED
  BY <1>1, <1>2, <1>3, <1>4, <1>5, <1>6, <1>7, <1>8, <1>9, <1>10 DEF Move

-----------------------------------------------------------------------------
(* The prover's records stay in order *)

LEMMA AppendFacts ==
    ASSUME NEW S, NEW s \in Seq(S), NEW x \in S
    PROVE  /\ Append(s, x) \in Seq(S) /\ Len(Append(s, x)) = Len(s) + 1 /\ Len(s) \in Nat
           /\ Append(s, x) # <<>> /\ Append(s, x)[Len(s) + 1] = x
           /\ \A i \in 1 .. Len(s) : Append(s, x)[i] = s[i]
           /\ s # <<>> => Len(s) > 0
           /\ s = <<>> => Len(s) = 0
OBVIOUS

LEMMA TailFacts ==
    ASSUME NEW S, NEW s \in Seq(S), s # <<>>
    PROVE  /\ Len(s) \in Nat /\ Len(s) > 0 /\ Tail(s) \in Seq(S) /\ Len(Tail(s)) = Len(s) - 1
           /\ \A i \in 1 .. Len(s) - 1 : Tail(s)[i] = s[i + 1]
           /\ Tail(s) # <<>> => Len(s) > 1
           /\ Tail(s) = <<>> => Len(s) = 1
<1>1. /\ Len(s) \in Nat /\ Len(s) > 0 /\ Tail(s) \in Seq(S) /\ Len(Tail(s)) = Len(s) - 1
      /\ \A i \in 1 .. Len(s) - 1 : Tail(s)[i] = s[i + 1]
  OBVIOUS
<1>2. \A t \in Seq(S) : (t = <<>>) <=> (Len(t) = 0)
  OBVIOUS
<1> QED
  BY <1>1, <1>2

\* A step that leaves the records and what the prover seals next alone.
LEMMA SentSame ==
    ASSUME SentInOrder, UNCHANGED p2o, o'.bad = o.bad, o'.rkey = o.rkey, o'.rseq = o.rseq,
           p'.pc # "setup",
           Running' => Running /\ NextKey' = NextKey /\ p'.wseq = p.wseq
    PROVE  SentInOrder'
BY DEF SentInOrder, Follows, ClientKey

\* A record the prover seals.
LEMMA SentOne ==
    ASSUME Types, SentInOrder, Running, NextKey = p.ckey, UNCHANGED o, NEW r \in Requests,
           r.key = p.ckey, r.seq = p.wseq, p2o' = Append(p2o, r), p'.pc # "setup",
           Follows(r, NextKey', p'.wseq)
    PROVE  SentInOrder'
<1>0. p2o \in Seq(Requests)
  BY DEF Types
<1>1. /\ p2o' # <<>> /\ Len(p2o') = Len(p2o) + 1 /\ Len(p2o) \in Nat /\ p2o'[Len(p2o) + 1] = r
      /\ \A i \in 1 .. Len(p2o) : p2o'[i] = p2o[i]
      /\ p2o # <<>> => Len(p2o) > 0
      /\ p2o = <<>> => Len(p2o) = 0
  BY <1>0, AppendFacts
<1>2. ~o'.bad
  BY DEF SentInOrder
<1>3. p2o'[1].key = ClientKey(o'.rkey) /\ p2o'[1].seq = o'.rseq
  BY <1>1 DEF SentInOrder
<1>4. ASSUME NEW i \in 1 .. Len(p2o)
      PROVE  Follows(p2o'[i], p2o'[i + 1].key, p2o'[i + 1].seq)
  <2>1. CASE i = Len(p2o)
    BY <1>1, <2>1 DEF SentInOrder
  <2>2. CASE i # Len(p2o)
    <3>1. i \in 1 .. Len(p2o) - 1 /\ i + 1 \in 1 .. Len(p2o)
      BY <1>1, <2>2
    <3> QED
      BY <1>1, <3>1 DEF SentInOrder
  <2> QED
    BY <2>1, <2>2
<1>5. \A i \in 1 .. Len(p2o') - 1 : Follows(p2o'[i], p2o'[i + 1].key, p2o'[i + 1].seq)
  BY <1>1, <1>4
<1>6. Follows(p2o'[Len(p2o')], NextKey', p'.wseq)
  BY <1>1
<1> QED
  BY <1>1, <1>2, <1>3, <1>5, <1>6 DEF SentInOrder

\* A record the origin reads.
LEMMA SentRead ==
    ASSUME Types, SentInOrder, o' \in Origins, o'.bad = o.bad, UNCHANGED p, Reads
    PROVE  SentInOrder'
<1>0. p2o \in Seq(Requests) /\ p2o # <<>> /\ p2o' = Tail(p2o)
  BY DEF Types, Reads
<1>1. /\ Len(p2o) \in Nat /\ Len(p2o) > 0 /\ Len(p2o') = Len(p2o) - 1
      /\ \A i \in 1 .. Len(p2o) - 1 : p2o'[i] = p2o[i + 1]
      /\ p2o' # <<>> => Len(p2o) > 1
      /\ p2o' = <<>> => Len(p2o) = 1
  BY <1>0, TailFacts
<1>2. /\ p2o[1].key = ClientKey(o.rkey) /\ p2o[1].seq = o.rseq
      /\ o.rkey \in Nat /\ o.rseq \in Nat
  BY <1>0 DEF SentInOrder, Types, Origins
<1>3. \A key, seq : Follows(p2o[1], key, seq) => key = ClientKey(o'.rkey) /\ seq = o'.rseq
  BY <1>2 DEF Follows, Reads, ClientKey
<1>4. p2o' # <<>> => p2o'[1].key = ClientKey(o'.rkey) /\ p2o'[1].seq = o'.rseq
  <2> SUFFICES ASSUME p2o' # <<>>
               PROVE  p2o'[1].key = ClientKey(o'.rkey) /\ p2o'[1].seq = o'.rseq
    OBVIOUS
  <2>1. p2o'[1] = p2o[2] /\ Follows(p2o[1], p2o[2].key, p2o[2].seq)
    BY <1>1 DEF SentInOrder
  <2> QED
    BY <1>3, <2>1
<1>5. ASSUME NEW i \in 1 .. Len(p2o') - 1
      PROVE  Follows(p2o'[i], p2o'[i + 1].key, p2o'[i + 1].seq)
  <2>1. /\ i + 1 \in 1 .. Len(p2o) - 1 /\ p2o'[i] = p2o[i + 1] /\ p2o'[i + 1] = p2o[(i + 1) + 1]
    BY <1>1
  <2> QED
    BY <2>1 DEF SentInOrder
<1>6. p.pc = "setup" => FALSE
  BY <1>0 DEF SentInOrder
<1>7. Running /\ p2o' # <<>> => Follows(p2o'[Len(p2o')], NextKey, p.wseq)
  BY <1>0, <1>1 DEF SentInOrder
<1>8. Running /\ p2o' = <<>> => ClientKey(o'.rkey) = NextKey /\ o'.rseq = p.wseq
  BY <1>0, <1>1, <1>3 DEF SentInOrder
<1>9. (Running' <=> Running) /\ NextKey' = NextKey
  BY DEF Running, NextKey
<1> QED
  BY <1>4, <1>5, <1>6, <1>7, <1>8, <1>9 DEF SentInOrder

LEMMA SentKept == Inv /\ Move => SentInOrder'
<1> SUFFICES ASSUME Inv, Move PROVE SentInOrder'
  OBVIOUS
<1>0. /\ KeysInStep /\ Types /\ SentInOrder /\ p.epoch \in Nat /\ p.round \in 1 .. NRequests
      /\ p.wseq \in Nat /\ p.ckey \in Nat /\ skey \in Nat /\ ckey \in Nat /\ fresh \in Nat
  BY ProverFields, MaxKeyAssumption DEF Inv, Types, Shares
<1> USE RotateAssumption
<1>1. CASE MoveIdle
  <2>1. UNCHANGED <<p, o, p2o>>
    BY <1>1 DEF MoveIdle, Quiet
  <2> QED
    BY <1>0, <2>1 DEF SentInOrder, Running, NextKey, Follows
<1>2. CASE MoveFails
  <2>1. UNCHANGED <<o, p2o>> /\ p'.pc = "fail"
    BY <1>2, ProverEffects DEF MoveFails, Quiet
  <2>2. ~Running'
    BY <2>1 DEF Running
  <2> QED
    BY <1>0, <2>1, <2>2, SentSame
<1>3. CASE MoveEstablish
  <2>1. UNCHANGED <<o, p2o>> /\ p'.pc = "request" /\ p.pc = "setup" /\ p'.ckey = fresh + 1
        /\ p'.wseq = p.wseq
    BY <1>3, ProverEffects DEF MoveEstablish, Quiet, SameSeqs
  <2>2. fresh = 0 /\ p2o = <<>> /\ o.rkey = 0 /\ o.rseq = 0 /\ p.wseq = 0 /\ ~o.bad
    BY <1>0, <2>1 DEF KeysInStep, SentInOrder
  <2>3. NextKey' = ClientKey(0)
    BY <2>1, <2>2 DEF NextKey, ClientKey
  <2>4. /\ p2o' = <<>> /\ Len(p2o') = 0
    BY <2>1, <2>2
  <2> QED
    BY <2>1, <2>2, <2>3, <2>4 DEF SentInOrder
<1>4. CASE MoveOn
  <2>1. UNCHANGED <<o, p2o>> /\ SameKeys /\ SameSeqs
    BY <1>4, ProverEffects DEF MoveOn, Quiet
  <2>2. /\ p'.pc # "setup" /\ p'.pc # "rotate_client" /\ p.pc # "rotate_client"
        /\ p.pc \notin {"setup", "done", "fail"}
    BY <1>4, ProverEffects DEF AfterReplay
  <2>3. Running /\ NextKey' = NextKey
    BY <2>1, <2>2 DEF Running, NextKey, SameKeys
  <2> QED
    BY <1>0, <2>1, <2>2, <2>3, SentSame DEF SameSeqs
<1>5. CASE MoveRequest \/ MoveUpdate
  <2>0. /\ UNCHANGED o /\ p.pc \in {"request_tag", "ku_tag"} /\ p'.ckey = p.ckey
        /\ p'.pc \in {"ku", "drain", "rotate_client"}
    BY <1>5, ProverEffects DEF MoveRequest, MoveUpdate, SameKeys
  <2>1. Running /\ NextKey = p.ckey /\ p.ckey = ckey
    BY <1>0, <2>0 DEF Running, NextKey, KeysInStep
  <2>2. \A kind \in {"req", "ku"} :
           /\ Sealed1(kind) \in Requests /\ Sealed1(kind).key = p.ckey
           /\ Sealed1(kind).seq = p.wseq /\ Sealed1(kind).kind = kind
    BY <1>0, <2>1 DEF Sealed1, Requests
  <2>3. CASE MoveRequest
    <3>1. /\ p2o' = Append(p2o, Sealed1("req")) /\ p'.wseq = p.wseq + 1
          /\ p'.pc # "rotate_client"
      BY <2>3, ProverEffects DEF MoveRequest
    <3>2. Follows(Sealed1("req"), NextKey', p'.wseq)
      BY <2>0, <2>2, <3>1 DEF Follows, NextKey
    <3> QED
      BY <1>0, <2>0, <2>1, <2>2, <3>1, <3>2, SentOne
  <2>4. CASE MoveUpdate
    <3>1. p2o' = Append(p2o, Sealed1("ku")) /\ p'.wseq = 0 /\ p'.pc = "rotate_client"
      BY <2>4, ProverEffects DEF MoveUpdate
    <3>2. Follows(Sealed1("ku"), NextKey', p'.wseq)
      BY <2>0, <2>2, <3>1 DEF Follows, NextKey
    <3> QED
      BY <1>0, <2>0, <2>1, <2>2, <3>1, <3>2, SentOne
  <2> QED
    BY <1>5, <2>3, <2>4
<1>6. CASE MoveClient
  <2>1. /\ UNCHANGED <<o, p2o>> /\ p.pc = "rotate_client" /\ p'.pc = "drain"
        /\ p'.ckey = fresh + 1 /\ p'.wseq = p.wseq
    BY <1>6, ProverEffects DEF MoveClient, Quiet, SameSeqs
  <2>2. Running /\ p.ckey = ckey /\ ckey = ClientKey(p.epoch) /\ fresh = ServerKey(p.epoch)
        /\ Flow = "epoch"
    BY <1>0, <2>1 DEF KeysInStep, Running, ClientTurned
  <2>3. NextKey' = NextKey
    BY <1>0, <2>1, <2>2 DEF NextKey, ClientKey, ServerKey
  <2> QED
    BY <1>0, <2>1, <2>2, <2>3, SentSame
<1>7. CASE MoveCapture
  <2>1. /\ UNCHANGED <<o, p2o>> /\ p.pc = "drain" /\ p'.pc = "drain" /\ p'.ckey = p.ckey
        /\ p'.wseq = p.wseq
    BY <1>7, CaptureEffects DEF MoveCapture, SameKeys
  <2>2. Running /\ NextKey' = NextKey
    BY <2>1 DEF NextKey, Running
  <2> QED
    BY <1>0, <2>1, <2>2, SentSame
<1>8. CASE MovePasses \/ MoveRejects \/ MoveRelease \/ MoveOpen \/ MoveServer
  <2>1. /\ UNCHANGED <<o, p2o>> /\ p'.ckey = p.ckey /\ p'.wseq = p.wseq
        /\ p.pc \in {"verify", "release", "open", "rotate_server"}
    BY <1>8, ProverEffects
       DEF MovePasses, MoveRejects, MoveRelease, MoveOpen, MoveServer, Quiet, SameKeys, SameSeqs
  <2>2. p'.pc \in {"verify", "release", "open", "replay", "rotate_server", "request", "commit"}
    BY <1>8, ProverEffects
  <2>3. Running /\ NextKey' = NextKey
    BY <2>1, <2>2 DEF NextKey, Running
  <2> QED
    BY <1>0, <2>1, <2>2, <2>3, SentSame
<1>9. CASE MoveOrigin
  <2>1. OriginEffects /\ p' = p
    BY <1>9, OriginMoves DEF MoveOrigin
  <2>2. CASE Reads
    BY <1>0, <2>1, <2>2, SentRead DEF OriginEffects
  <2>3. CASE p2o' = p2o /\ o'.rkey = o.rkey /\ o'.rseq = o.rseq
    <3>1. ~o'.bad
      BY <1>0, <2>1 DEF OriginEffects, SentInOrder
    <3> QED
      BY <1>0, <2>1, <2>3, <3>1 DEF SentInOrder, Running, NextKey, Follows
  <2> QED
    BY <2>1, <2>2, <2>3 DEF OriginEffects
<1> QED
  BY <1>1, <1>2, <1>3, <1>4, <1>5, <1>6, <1>7, <1>8, <1>9 DEF Move

-----------------------------------------------------------------------------
(* The origin's records stay in order *)

\* Record s is what record r was, up to the number the prover gave it.
Alike(r, s) ==
    r.kind = s.kind /\ r.epoch = s.epoch /\ r.oseq = s.oseq /\ r.resp = s.resp

\* A step that takes records over, renumbers them or loses the last ones.
LEMMA StreamCut ==
    ASSUME Types, Types', StreamInOrder, N' <= N,
           \A i \in 1 .. N' : Alike(At(i)', At(i)),
           o'.wkey = o.wkey,
           ~o'.closed => ~o.closed /\ o'.wseq = o.wseq /\ N' = N
    PROVE  StreamInOrder'
<1>0. N \in Nat /\ N' \in Nat
  BY DEF N, Types, RTypeOK
<1>1. \A i \in 1 .. N' : /\ i \in 1 .. N /\ At(i)'.kind = At(i).kind
                         /\ At(i)'.epoch = At(i).epoch /\ At(i)'.oseq = At(i).oseq
  BY <1>0 DEF Alike
<1>2. \A i \in 1 .. N', j \in 1 .. N' :
         i < j => Before(At(i)', i, At(j)'.epoch, At(j)'.oseq, j)
  BY <1>1 DEF StreamInOrder, Before
<1>3. ASSUME NEW i \in 1 .. N' - 1
      PROVE  Leads(At(i)', At(i + 1)'.epoch, At(i + 1)'.oseq)
  <2>1. i \in 1 .. N' /\ i + 1 \in 1 .. N' /\ i \in 1 .. N - 1
    <3>1. ASSUME NEW m \in Nat, NEW n \in Nat, m <= n, NEW j \in 1 .. m - 1
          PROVE  j \in 1 .. m /\ j + 1 \in 1 .. m /\ j \in 1 .. n - 1
      BY <3>1
    <3> QED
      BY <1>0, <3>1
  <2> QED
    BY <1>1, <2>1 DEF StreamInOrder, Leads
<1>4. N' > 0 => At(1)'.epoch = 0 /\ At(1)'.oseq = 0
  BY <1>0, <1>1 DEF StreamInOrder
<1>5. /\ \A i \in 1 .. N' : At(i)'.epoch <= o'.wkey
      /\ \A i \in 1 .. N' : At(i)'.kind = "ku" => At(i)'.epoch < o'.wkey
  BY <1>1 DEF StreamInOrder
<1>6. ASSUME ~o'.closed
      PROVE  /\ \A i \in 1 .. N' : Before(At(i)', i, o'.wkey, o'.wseq, N' + 1)
             /\ \A i \in 1 .. N' : i = N' => Leads(At(i)', o'.wkey, o'.wseq)
             /\ N' = 0 => o'.wkey = 0 /\ o'.wseq = 0
  <2>1. ~o.closed /\ o'.wseq = o.wseq /\ N' = N
    BY <1>6
  <2>2. \A i \in 1 .. N' : Before(At(i)', i, o'.wkey, o'.wseq, N' + 1)
    BY <1>1, <2>1 DEF StreamInOrder, Before
  <2>3. \A i \in 1 .. N' : i = N' => Leads(At(i)', o'.wkey, o'.wseq)
    BY <1>1, <2>1 DEF StreamInOrder, Leads
  <2>4. N' = 0 => o'.wkey = 0 /\ o'.wseq = 0
    BY <2>1 DEF StreamInOrder
  <2> QED
    BY <2>2, <2>3, <2>4
<1> QED
  BY <1>2, <1>3, <1>4, <1>5, <1>6 DEF StreamInOrder

LEMMA StreamGrows ==
    ASSUME Types, NEW r \in Records, o2p' = Append(o2p, r), UNCHANGED recs
    PROVE  /\ N \in Nat /\ N' = N + 1
           /\ \A i \in 1 .. N : At(i)' = At(i)
           /\ \A i \in 1 .. N + 1 : i = N + 1 => At(i)' = r
<1>0. N \in Nat /\ Len(recs) \in Nat /\ Len(o2p) \in Nat /\ o2p \in Seq(Records)
  BY Elements DEF Types, RTypeOK
<1>1. /\ Len(o2p') = Len(o2p) + 1 /\ o2p'[Len(o2p) + 1] = r
      /\ \A i \in 1 .. Len(o2p) : o2p'[i] = o2p[i]
  BY <1>0, AppendFacts
<1>2. N' = N + 1
  BY <1>0, <1>1 DEF N
<1>3. ASSUME NEW i \in 1 .. N PROVE At(i)' = At(i)
  BY <1>0, <1>1 DEF At, N
<1>4. ASSUME NEW i \in 1 .. N + 1, i = N + 1 PROVE At(i)' = r
  BY <1>0, <1>1, <1>4 DEF At, N
<1> QED
  BY <1>0, <1>2, <1>3, <1>4

\* What comes before the next record comes before the one after it.
LEMMA BeforeNext ==
    ASSUME NEW r, NEW n \in Nat, NEW i \in 1 .. n, NEW e \in Nat, NEW q \in Nat,
           r.epoch \in Nat, r.oseq \in Nat, Before(r, i, e, q, n + 1)
    PROVE  Before(r, i, e, q + 1, n + 2) /\ Before(r, i, e + 1, 0, n + 2)
BY DEF Before

\* The stream after the origin has sealed record r.
LEMMA StreamSealed ==
    ASSUME Types, StreamInOrder, ~o.closed, NEW r \in Records, Seals(r), UNCHANGED recs
    PROVE  StreamInOrder'
<1>0. /\ N \in Nat /\ Len(recs) \in Nat /\ Len(o2p) \in Nat /\ o2p \in Seq(Records)
      /\ o.wkey \in Nat /\ o.wseq \in Nat
  BY Elements DEF Types, RTypeOK, Origins
<1>2. N' = N + 1
  BY StreamGrows DEF Seals
<1>3. /\ \A i \in 1 .. N : At(i)' = At(i)
      /\ \A i \in 1 .. N + 1 : i = N + 1 => At(i)' = r
  BY StreamGrows DEF Seals
<1>4. \A i \in 1 .. N : /\ At(i).epoch \in Nat /\ At(i).oseq \in Nat
                        /\ Before(At(i), i, o.wkey, o.wseq, N + 1)
                        /\ i = N => Leads(At(i), o.wkey, o.wseq)
  BY Elements DEF StreamInOrder
<1>5. /\ r.epoch = o.wkey /\ r.oseq = o.wseq
      /\ r.kind = "ku" => o'.wkey = o.wkey + 1 /\ o'.wseq = 0
      /\ r.kind # "ku" => o'.wkey = o.wkey /\ o'.wseq = o.wseq + 1
      /\ o.wkey <= o'.wkey
  BY <1>0 DEF Seals
<1>6. ASSUME NEW i \in 1 .. N', NEW j \in 1 .. N', i < j
      PROVE  Before(At(i)', i, At(j)'.epoch, At(j)'.oseq, j)
  <2>1. i \in 1 .. N /\ i \in 1 .. N + 1 /\ j \in 1 .. N + 1
    BY <1>0, <1>2, <1>6
  <2>2. CASE j = N + 1
    BY <1>3, <1>4, <1>5, <2>1, <2>2
  <2>3. CASE j # N + 1
    <3>1. j \in 1 .. N
      BY <1>0, <2>1, <2>3
    <3> QED
      BY <1>3, <1>6, <2>1, <3>1 DEF StreamInOrder
  <2> QED
    BY <2>2, <2>3
<1>7. ASSUME NEW i \in 1 .. N' - 1
      PROVE  Leads(At(i)', At(i + 1)'.epoch, At(i + 1)'.oseq)
  <2>1. i \in 1 .. N /\ i + 1 \in 1 .. N + 1
    BY <1>0, <1>2
  <2>2. CASE i = N
    BY <1>3, <1>4, <1>5, <2>1, <2>2
  <2>3. CASE i # N
    <3>1. i \in 1 .. N - 1 /\ i + 1 \in 1 .. N
      BY <1>0, <2>1, <2>3
    <3> QED
      BY <1>3, <2>1, <3>1 DEF StreamInOrder
  <2> QED
    BY <2>2, <2>3
<1>8. N' > 0 => At(1)'.epoch = 0 /\ At(1)'.oseq = 0
  <2>1. CASE N = 0
    BY <1>0, <1>3, <1>5, <2>1 DEF StreamInOrder
  <2>2. CASE N > 0
    BY <1>0, <1>3, <2>2 DEF StreamInOrder
  <2> QED
    BY <1>0, <2>1, <2>2
<1>9. ASSUME NEW i \in 1 .. N'
      PROVE  /\ At(i)'.epoch <= o'.wkey
             /\ At(i)'.kind = "ku" => At(i)'.epoch < o'.wkey
             /\ Before(At(i)', i, o'.wkey, o'.wseq, N' + 1)
             /\ i = N' => Leads(At(i)', o'.wkey, o'.wseq)
  <2>0. i \in 1 .. N + 1 /\ N' = N + 1
    BY <1>2
  <2>1. CASE i = N + 1
    BY <1>0, <1>3, <1>5, <2>0, <2>1 DEF Before, Leads
  <2>2. CASE i # N + 1
    <3>1. i \in 1 .. N
      BY <1>0, <2>0, <2>2
    <3>2. /\ At(i)' = At(i) /\ At(i).epoch \in Nat /\ At(i).oseq \in Nat
          /\ Before(At(i), i, o.wkey, o.wseq, N + 1)
      BY <1>3, <1>4, <3>1
    <3>3. Before(At(i), i, o'.wkey, o'.wseq, N' + 1)
      <4>1. \/ o'.wkey = o.wkey /\ o'.wseq = o.wseq + 1
            \/ o'.wkey = o.wkey + 1 /\ o'.wseq = 0
        BY <1>5
      <4>2. Before(At(i), i, o.wkey, o.wseq + 1, N + 2) /\ Before(At(i), i, o.wkey + 1, 0, N + 2)
        BY <1>0, <3>1, <3>2, BeforeNext
      <4>3. N' + 1 = N + 2
        BY <1>0, <2>0
      <4> QED
        BY <4>1, <4>2, <4>3
    <3> QED
      BY <1>0, <1>5, <2>0, <2>2, <3>2, <3>3 DEF Before
  <2> QED
    BY <2>1, <2>2
<1>10. N' # 0
  BY <1>0, <1>2
<1> QED
  BY <1>6, <1>7, <1>8, <1>9, <1>10 DEF StreamInOrder

LEMMA ConcatFacts ==
    ASSUME NEW s \in Seq(Records), NEW t \in Seq(Records)
    PROVE  /\ Len(s \o t) = Len(s) + Len(t)
           /\ \A i \in 1 .. Len(s) : (s \o t)[i] = s[i]
           /\ \A i \in 1 .. Len(t) : (s \o t)[Len(s) + i] = t[i]
OBVIOUS

LEMMA CaptureMoves ==
    ASSUME Types, NEW k \in 1 .. Len(o2p), recs' = recs \o Taken(k),
           o2p' = SubSeq(o2p, k + 1, Len(o2p))
    PROVE  /\ Len(recs') = Len(recs) + k /\ N' = N
           /\ \A i \in 1 .. Len(recs) : recs'[i] = recs[i]
           /\ \A i \in 1 .. k : recs'[Len(recs) + i].seq = p.rseq + i - 1
           /\ \A i \in 1 .. N : Alike(At(i)', At(i))
<1>0. /\ recs \in Seq(Records) /\ o2p \in Seq(Records) /\ Len(recs) \in Nat
      /\ Len(o2p) \in Nat /\ k \in Nat /\ k <= Len(o2p)
  BY Elements DEF Types, RTypeOK
<1>1. /\ Taken(k) \in Seq(Records) /\ Len(Taken(k)) = k
      /\ \A i \in 1 .. k : /\ Alike(Taken(k)[i], o2p[i])
                           /\ Taken(k)[i].seq = p.rseq + i - 1
  BY CaptureTyped DEF Alike
<1> DEFINE t == Taken(k)
<1> HIDE DEF t
<1>2. /\ Len(recs') = Len(recs) + k
      /\ \A i \in 1 .. Len(recs) : recs'[i] = recs[i]
      /\ \A i \in 1 .. k : recs'[Len(recs) + i] = Taken(k)[i]
  <2>1. t \in Seq(Records) /\ Len(t) = k /\ recs' = recs \o t
    BY <1>1 DEF t
  <2>2. /\ Len(recs') = Len(recs) + k
        /\ \A i \in 1 .. Len(recs) : recs'[i] = recs[i]
        /\ \A i \in 1 .. k : recs'[Len(recs) + i] = t[i]
    <3>1. /\ Len(recs \o t) = Len(recs) + Len(t)
          /\ \A i \in 1 .. Len(recs) : (recs \o t)[i] = recs[i]
          /\ \A i \in 1 .. Len(t) : (recs \o t)[Len(recs) + i] = t[i]
      BY <1>0, <2>1, ConcatFacts, Zenon
    <3> QED
      BY <2>1, <3>1, Zenon
  <2> QED
    BY <2>2 DEF t
<1>3. /\ Len(o2p') = Len(o2p) - k
      /\ \A i \in 1 .. Len(o2p) - k : o2p'[i] = o2p[k + i]
  BY <1>0
<1>4. N' = N
  <2>1. \A a \in Nat, b \in Nat : (a + k) + (b - k) = a + b
    BY <1>0
  <2>2. Len(recs') + Len(o2p') = Len(recs) + Len(o2p)
    BY <1>0, <1>2, <1>3, <2>1
  <2> QED
    BY <2>2 DEF N
<1>5. ASSUME NEW i \in 1 .. N PROVE Alike(At(i)', At(i))
  <2>0. i \in 1 .. Len(recs) + Len(o2p)
    BY DEF N
  <2>1. CASE i <= Len(recs)
    <3>1. At(i) = recs[i] /\ At(i)' = recs'[i] /\ recs'[i] = recs[i]
      BY <1>0, <1>2, <2>0, <2>1 DEF At
    <3> QED
      BY <3>1 DEF Alike
  <2>2. CASE i > Len(recs) /\ i <= Len(recs) + k
    <3> DEFINE j == i - Len(recs)
    <3>1. j \in 1 .. k /\ i = Len(recs) + j
      BY <1>0, <2>0, <2>2
    <3>2. At(i) = o2p[j]
      BY <1>0, <2>0, <2>2 DEF At
    <3>3. At(i)' = recs'[i]
      BY <1>0, <1>2, <2>0, <2>2 DEF At
    <3> HIDE DEF j
    <3> QED
      BY <1>1, <1>2, <3>1, <3>2, <3>3
  <2>3. CASE i > Len(recs) + k
    <3> DEFINE j == i - Len(recs) - k
    <3>1. j \in 1 .. Len(o2p) - k /\ i - Len(recs) = k + j /\ i - (Len(recs) + k) = j
      BY <1>0, <2>0, <2>3
    <3>2. At(i) = o2p[k + j]
      BY <1>0, <2>0, <2>3, <3>1 DEF At
    <3>3. At(i)' = o2p'[j]
      BY <1>0, <1>2, <2>0, <2>3, <3>1 DEF At
    <3> HIDE DEF j
    <3>4. o2p'[j] = o2p[k + j]
      BY <1>3, <3>1
    <3> QED
      BY <3>2, <3>3, <3>4 DEF Alike
  <2> QED
    BY <1>0, <2>0, <2>1, <2>2, <2>3
<1> QED
  BY <1>1, <1>2, <1>4, <1>5

\* Whatever the prover and the verifier do, the origin's records stay.
LEMMA StreamStays ==
    ASSUME Inv, Move, ~MoveOrigin
    PROVE  o' = o /\ N' = N /\ \A i \in 1 .. N : Alike(At(i)', At(i))
<1>0. /\ Types /\ N \in Nat /\ Len(recs) \in Nat /\ Len(o2p) \in Nat
      /\ recs \in Seq(Records) /\ o2p \in Seq(Records)
  BY Elements DEF Inv, Types, RTypeOK
<1>1. ASSUME UNCHANGED <<recs, o2p, o>>
      PROVE  o' = o /\ N' = N /\ \A i \in 1 .. N : Alike(At(i)', At(i))
  BY <1>1 DEF N, At, Alike
<1>2. CASE MoveCapture
  <2>1. PICK k \in 1 .. Len(o2p) :
            recs' = recs \o Taken(k) /\ o2p' = SubSeq(o2p, k + 1, Len(o2p))
    BY <1>2, CaptureEffects
  <2>2. N' = N /\ \A i \in 1 .. N : Alike(At(i)', At(i))
    BY <1>0, <2>1, CaptureMoves
  <2> QED
    BY <1>2, <2>2 DEF MoveCapture
<1>3. CASE MoveServer
  <2>1. UNCHANGED <<o2p, o>> /\ (recs' = recs \/ recs' = Renumber(recs, p.end))
    BY <1>3 DEF MoveServer
  <2>2. CASE recs' = recs
    BY <1>1, <2>1, <2>2
  <2>3. CASE recs' = Renumber(recs, p.end)
    <3>a. p.end \in Nat
      BY <1>0, ProverFields
    <3>1. Len(recs') = Len(recs) /\ \A i \in 1 .. Len(recs) : Alike(recs'[i], recs[i])
      BY <1>0, <2>3, <3>a, RenumberTyped DEF Alike
    <3>2. N' = N
      BY <2>1, <3>1 DEF N
    <3>3. ASSUME NEW i \in 1 .. N PROVE Alike(At(i)', At(i))
      <4>1. CASE i <= Len(recs)
        <5>1. i \in 1 .. Len(recs) /\ At(i)' = recs'[i] /\ At(i) = recs[i]
          BY <1>0, <3>1, <4>1 DEF At
        <5> QED
          BY <3>1, <5>1
      <4>2. CASE ~(i <= Len(recs))
        BY <2>1, <3>1, <4>2 DEF At, Alike
      <4> QED
        BY <4>1, <4>2
    <3> QED
      BY <2>1, <3>2, <3>3
  <2> QED
    BY <2>1, <2>2, <2>3
<1> QED
  BY <1>1, <1>2, <1>3
     DEF Move, MoveIdle, MoveFails, MoveEstablish, MoveOn, MoveRequest, MoveUpdate,
         MoveClient, MovePasses, MoveRejects, MoveRelease, MoveOpen, Quiet

LEMMA StreamKept == Inv /\ Move => StreamInOrder'
<1> SUFFICES ASSUME Inv, Move PROVE StreamInOrder'
  OBVIOUS
<1>0. /\ Types /\ StreamInOrder /\ N \in Nat /\ Len(recs) \in Nat /\ Len(o2p) \in Nat
      /\ recs \in Seq(Records) /\ o2p \in Seq(Records) /\ Types'
  BY Elements, TypesKept DEF Inv, Types, RTypeOK
<1>1. CASE ~MoveOrigin
  <2>1. o' = o /\ N' = N /\ N' <= N /\ \A i \in 1 .. N' : Alike(At(i)', At(i))
    BY <1>0, <1>1, StreamStays
  <2> QED
    BY <1>0, <2>1, StreamCut
<1>2. CASE MoveOrigin
  <2>1. OriginEffects /\ recs' = recs
    BY <1>2, OriginMoves DEF MoveOrigin
  <2>2. CASE o2p' = o2p /\ o'.wkey = o.wkey /\ o'.wseq = o.wseq /\ ~o'.closed
    <3>1. N' = N /\ \A i \in 1 .. N' : Alike(At(i)', At(i))
      BY <2>1, <2>2 DEF N, At, Alike
    <3>2. N' <= N
      BY <1>0, <3>1
    <3> QED
      BY <1>0, <2>1, <2>2, <3>1, <3>2, StreamCut DEF OriginEffects
  <2>3. CASE \E r \in Records : Seals(r)
    BY <1>0, <2>1, <2>3, StreamSealed DEF OriginEffects
  <2>4. CASE o'.closed /\ o'.wkey = o.wkey /\ \E k \in 0 .. Len(o2p) : o2p' = SubSeq(o2p, 1, k)
    <3>1. PICK k \in 0 .. Len(o2p) : o2p' = SubSeq(o2p, 1, k)
      BY <2>4
    <3>2. Len(o2p') = k /\ \A i \in 1 .. k : o2p'[i] = o2p[i]
      BY <1>0, <3>1
    <3>3. N' = Len(recs) + k /\ N' <= N
      BY <1>0, <2>1, <3>1, <3>2 DEF N
    <3>4. ASSUME NEW i \in 1 .. N' PROVE Alike(At(i)', At(i))
      BY <1>0, <2>1, <3>1, <3>2, <3>3 DEF At, Alike
    <3> QED
      BY <1>0, <2>4, <3>3, <3>4, StreamCut
  <2> QED
    BY <2>1, <2>2, <2>3, <2>4 DEF OriginEffects
<1> QED
  BY <1>1, <1>2

-----------------------------------------------------------------------------
(* The epoch being released *)

\* The steps that leave the captured records and the epoch alone.
LEMMA EpochSame ==
    ASSUME Inv, Move, ~MoveCapture, ~MoveServer
    PROVE  recs' = recs /\ p'.start = p.start /\ p'.epoch = p.epoch
<1>1. CASE MoveIdle \/ MoveOrigin
  BY <1>1 DEF MoveIdle, MoveOrigin, Quiet
<1>2. CASE ~MoveIdle /\ ~MoveOrigin
  <2>1. SameRound
    BY <1>2, ProverEffects DEF Move
  <2>2. recs' = recs
    BY <1>2 DEF Move, MoveFails, MoveEstablish, MoveOn, MoveRequest, MoveUpdate, MoveClient,
                MovePasses, MoveRejects, MoveRelease, MoveOpen, Quiet
  <2> QED
    BY <2>1, <2>2 DEF SameRound
<1> QED
  BY <1>1, <1>2

LEMMA StartKept == Inv /\ Move => EpochStart'
<1> SUFFICES ASSUME Inv, Move PROVE EpochStart'
  OBVIOUS
<1>0. /\ Types /\ EpochStart /\ Checked /\ KeysInStep /\ Len(recs) \in Nat
      /\ p.start \in Nat /\ p.end \in Nat /\ p.epoch \in Nat /\ recs \in Seq(Records)
  BY ProverFields, Elements DEF Inv, Types, RTypeOK
<1>1. CASE ~MoveCapture /\ ~MoveServer
  BY <1>0, <1>1, EpochSame DEF EpochStart
<1>2. CASE MoveCapture
  <2>1. PICK k \in 1 .. Len(o2p) :
            recs' = recs \o Taken(k) /\ o2p' = SubSeq(o2p, k + 1, Len(o2p))
    BY <1>2, CaptureEffects
  <2>2. /\ p'.start = p.start /\ p'.epoch = p.epoch
    BY <1>2, CaptureEffects DEF SameRound
  <2>3. /\ Len(recs') = Len(recs) + k /\ k \in Nat
        /\ \A i \in 1 .. Len(recs) : recs'[i] = recs[i]
    <3>1. k \in Nat
      BY <1>0, Elements
    <3> QED
      BY <1>0, <2>1, <3>1, CaptureMoves
  <2> QED
    BY <1>0, <2>2, <2>3 DEF EpochStart
<1>3. CASE MoveServer
  <2>1. /\ p.pc = "rotate_server" /\ p'.epoch = p.epoch + 1
        /\ p.end \in p.start + 1 .. Len(recs)
        /\ recs[p.end].epoch = p.epoch /\ recs[p.end].kind = "ku"
    BY <1>0, <1>3, ProverEffects, RotateAssumption DEF MoveServer, Checked, KeysInStep
  <2>2. CASE Flow = "epoch"
    <3>1. p'.start = p.end /\ recs' = recs
      BY <1>0, <1>3, <2>1, <2>2, ProverEffects DEF Checked
    <3> QED
      BY <1>0, <2>1, <3>1 DEF EpochStart
  <2>3. CASE Flow = "batch"
    <3>1. p'.start = p.end /\ recs' = Renumber(recs, p.end)
      BY <1>3, <2>3, ProverEffects
    <3>2. Len(recs') = Len(recs) /\ p.end \in 1 .. Len(recs)
          /\ recs'[p.end].kind = "ku" /\ recs'[p.end].epoch = p.epoch
      BY <1>0, <2>1, <3>1, RenumberTyped
    <3> QED
      BY <1>0, <2>1, <3>1, <3>2 DEF EpochStart
  <2> QED
    BY <2>2, <2>3, RotateAssumption
<1> QED
  BY <1>1, <1>2, <1>3

Capturing == {"setup", "request", "request_tag", "ku", "ku_tag", "rotate_client", "drain"}

LEMMA NumbersKept == Inv /\ Move => Numbered'
<1> SUFFICES ASSUME Inv, Move PROVE Numbered'
  OBVIOUS
<1>0. /\ Types /\ EpochStart /\ Numbered /\ Checked /\ Len(recs) \in Nat
      /\ p.start \in Nat /\ p.end \in Nat /\ p.rseq \in Nat /\ recs \in Seq(Records)
  BY ProverFields, Elements DEF Inv, Types, RTypeOK
<1>1. CASE ~MoveCapture /\ ~MoveServer
  <2>1. recs' = recs /\ p'.start = p.start
    BY <1>1, EpochSame
  <2>2. p'.pc \in Capturing => p'.rseq = p.rseq /\ p.pc \in Capturing
    <3>1. CASE MoveIdle \/ MoveOrigin
      BY <3>1 DEF MoveIdle, MoveOrigin
    <3>2. CASE MoveEstablish \/ MoveOn \/ MoveRequest \/ MoveUpdate \/ MoveClient
      <4>1. p'.rseq = p.rseq
        BY <3>2, ProverEffects DEF SameSeqs
      <4>2. p'.pc \in Capturing => p.pc \in Capturing
        BY <3>2, ProverEffects
           DEF Capturing, AfterReplay, MoveEstablish, MoveRequest, MoveUpdate, MoveClient
      <4> QED
        BY <4>1, <4>2
    <3>3. CASE MoveFails \/ MovePasses \/ MoveRejects \/ MoveRelease \/ MoveOpen
      BY <3>3, ProverEffects DEF Capturing
    <3> QED
      BY <1>1, <3>1, <3>2, <3>3 DEF Move
  <2> QED
    BY <1>0, <2>1, <2>2 DEF Numbered, Capturing
<1>2. CASE MoveCapture
  <2>1. PICK k \in 1 .. Len(o2p) : /\ recs' = recs \o Taken(k) /\ p'.rseq = p.rseq + k
                                   /\ o2p' = SubSeq(o2p, k + 1, Len(o2p))
    BY <1>2, CaptureEffects
  <2>2. p'.start = p.start /\ p.pc = "drain"
    BY <1>2, CaptureEffects DEF SameRound
  <2>3. /\ Len(recs') = Len(recs) + k /\ k \in Nat
        /\ \A i \in 1 .. Len(recs) : recs'[i] = recs[i]
        /\ \A i \in 1 .. k : recs'[Len(recs) + i].seq = p.rseq + i - 1
    <3>1. k \in Nat
      BY <1>0, Elements
    <3> QED
      BY <1>0, <2>1, <3>1, CaptureMoves
  <2>4. p.rseq = Len(recs) - p.start /\ p.start <= Len(recs)
    BY <1>0, <2>2 DEF Numbered, EpochStart
  <2>5. ASSUME NEW j \in p.start + 1 .. Len(recs')
        PROVE  recs'[j].seq = j - p.start - 1
    <3>1. CASE j <= Len(recs)
      <4>1. j \in 1 .. Len(recs) /\ j \in p.start + 1 .. Len(recs)
        BY <1>0, <3>1
      <4>2. recs[j].seq = j - p.start - 1
        BY <1>0, <4>1 DEF Numbered
      <4> QED
        BY <2>3, <4>1, <4>2
    <3>2. CASE j > Len(recs)
      <4> DEFINE i == j - Len(recs)
      <4>1. i \in 1 .. k /\ j = Len(recs) + i
        BY <1>0, <2>3, <3>2
      <4> HIDE DEF i
      <4>2. recs'[j].seq = p.rseq + i - 1
        BY <2>3, <4>1
      <4> QED
        BY <1>0, <2>3, <2>4, <4>1, <4>2
    <3> QED
      BY <1>0, <2>3, <3>1, <3>2
  <2>6. p'.rseq = Len(recs') - p'.start
    BY <1>0, <2>1, <2>2, <2>3, <2>4
  <2> QED
    BY <2>2, <2>5, <2>6 DEF Numbered
<1>3. CASE MoveServer
  <2>1. CASE Flow = "epoch"
    <3>1. p'.start = Len(recs) /\ recs' = recs /\ p'.rseq = 0
      BY <1>3, <2>1, ProverEffects
    <3> QED
      BY <1>0, <3>1 DEF Numbered
  <2>2. CASE Flow = "batch"
    <3>1. p'.start = p.end /\ recs' = Renumber(recs, p.end) /\ p'.pc = "commit"
      BY <1>3, <2>2, ProverEffects
    <3>2. /\ Len(recs') = Len(recs)
          /\ \A j \in 1 .. Len(recs) : j > p.end => recs'[j].seq = j - p.end - 1
      BY <1>0, <3>1, RenumberTyped
    <3>3. \A j \in p'.start + 1 .. Len(recs') : j \in 1 .. Len(recs) /\ j > p.end
      BY <1>0, <3>1, <3>2
    <3>4. \A j \in p'.start + 1 .. Len(recs') : recs'[j].seq = j - p'.start - 1
      BY <3>1, <3>2, <3>3
    <3>5. p'.pc = "commit"
      BY <3>1
    <3> QED
      BY <3>4, <3>5 DEF Numbered
  <2> QED
    BY <2>1, <2>2, RotateAssumption
<1> QED
  BY <1>1, <1>2, <1>3

LEMMA CheckedKept == Inv /\ Move => Checked'
<1> SUFFICES ASSUME Inv, Move PROVE Checked'
  OBVIOUS
<1>0. /\ Types /\ Checked /\ KeysInStep /\ Len(recs) \in Nat /\ p.start \in Nat
      /\ p.end \in Nat /\ p.idx \in Nat /\ p.epoch \in Nat
  BY ProverFields, Elements DEF Inv, Types, RTypeOK
<1> DEFINE Late == {"release", "open", "replay", "psk_done", "rotate_server"}
<1>1. CASE MoveIdle \/ MoveOrigin
  <2>1. UNCHANGED <<p, recs>>
    BY <1>1 DEF MoveIdle, MoveOrigin, Quiet
  <2> QED
    BY <1>0, <2>1 DEF Checked, Last
<1>2. CASE MoveFails \/ MoveEstablish \/ MoveRequest \/ MoveUpdate \/ MoveClient
           \/ MoveCapture \/ MoveServer
  <2>1. p'.pc \in {"fail", "request", "ku", "drain", "rotate_client", "commit"}
    BY <1>2, ProverEffects, CaptureEffects, RotateAssumption
  <2> QED
    BY <2>1 DEF Checked
<1>3. CASE MoveOn
  <2>1. /\ recs' = recs /\ p'.start = p.start /\ p'.epoch = p.epoch /\ p'.end = p.end
        /\ p'.round = p.round
    BY <1>3, ProverEffects DEF MoveOn, Quiet, SameRound
  <2>2. CASE p'.pc = "verify"
    <3>1. p'.idx = p.start + 1
      BY <1>3, <2>2, ProverEffects
    <3>2. p.start < Len(recs)
      <4>1. p \in Provers /\ AfterReplay # "verify"
        BY DEF Inv, Types, RTypeOK, AfterReplay
      <4> QED
        BY <1>3, <2>2, <4>1 DEF MoveOn, To, Provers
    <3> QED
      BY <1>0, <2>1, <2>2, <3>1, <3>2 DEF Checked
  <2>3. CASE p'.pc # "verify"
    <3>1. /\ p'.pc \in Late => p.pc \in {"replay", "psk_done"}
          /\ p'.pc = "rotate_server" => Flow = "epoch"
      BY <1>3, <2>3, ProverEffects, RotateAssumption DEF AfterReplay
    <3> QED
      BY <1>0, <2>1, <2>3, <3>1 DEF Checked, Last
  <2> QED
    BY <2>2, <2>3
<1>4. CASE MovePasses
  <2>1. /\ recs' = recs /\ p'.start = p.start /\ p'.epoch = p.epoch /\ p'.end = p.idx
        /\ p'.idx = p.idx + 1 /\ p.pc = "verify"
        /\ p'.pc = IF p.idx = Len(recs) THEN "release" ELSE "verify"
    BY <1>4, ProverEffects DEF MovePasses, Quiet, SameRound
  <2>2. /\ p.idx \in p.start + 1 .. Len(recs)
        /\ \A j \in p.start + 1 .. p.idx - 1 : recs[j].epoch = p.epoch
    BY <1>0, <2>1 DEF Checked
  <2>3. recs[p.idx].epoch = p.epoch
    <3>1. recs[p.idx].epoch \in Nat
      BY <1>0, <2>2, Elements
    <3>2. ServerKey(recs[p.idx].epoch) = ServerKey(p.epoch)
      BY <1>0, <1>4, <2>1 DEF MovePasses, Passes, KeysInStep, Running
    <3> QED
      BY <1>0, <3>1, <3>2, ServerKeys
  <2>4. \A j \in p.start + 1 .. p.idx : recs[j].epoch = p.epoch
    BY <1>0, <2>2, <2>3
  <2>5. CASE p.idx = Len(recs)
    BY <1>0, <2>1, <2>2, <2>4, <2>5 DEF Checked
  <2>6. CASE p.idx # Len(recs)
    BY <1>0, <2>1, <2>2, <2>4, <2>6 DEF Checked
  <2> QED
    BY <2>5, <2>6
<1>5. CASE MoveRejects
  <2>1. /\ recs' = recs /\ p'.start = p.start /\ p'.epoch = p.epoch /\ p'.end = p.end
        /\ p.pc = "verify" /\ p'.pc = "release" /\ Flow = "batch" /\ p.idx > p.start + 1
    BY <1>5, ProverEffects DEF MoveRejects, Quiet, SameRound
  <2>2. /\ p.idx \in p.start + 1 .. Len(recs) /\ p.end = p.idx - 1
        /\ \A j \in p.start + 1 .. p.idx - 1 : recs[j].epoch = p.epoch
    BY <1>0, <2>1 DEF Checked
  <2> QED
    BY <1>0, <2>1, <2>2 DEF Checked
<1>6. CASE MoveRelease \/ MoveOpen
  <2>1. /\ recs' = recs /\ p'.start = p.start /\ p'.epoch = p.epoch /\ p'.end = p.end
        /\ p'.round = p.round
        /\ p.pc \in {"release", "open"} /\ p'.pc \in {"open", "replay", "rotate_server"}
    BY <1>6, ProverEffects DEF MoveRelease, MoveOpen, Quiet, SameRound
  <2>2. /\ p'.pc = "rotate_server" => Flow = "batch" /\ recs[p.end].kind = "ku"
        /\ p'.pc # "open" /\ Flow = "epoch" /\ ~Last => recs[Len(recs)].kind = "ku"
    BY <1>6, ProverEffects
  <2> QED
    BY <1>0, <2>1, <2>2 DEF Checked, Last
<1> QED
  BY <1>1, <1>2, <1>3, <1>4, <1>5, <1>6 DEF Move

-----------------------------------------------------------------------------
(* The invariant holds *)

LEMMA InvInit == RInit => Inv
<1> SUFFICES ASSUME RInit PROVE Inv
  OBVIOUS
<1>0. /\ p = [pc |-> "setup", round |-> 1, idx |-> 0, skey |-> Junk, ckey |-> Junk,
              wseq |-> 0, rseq |-> 0, start |-> 0, end |-> 0, epoch |-> 0, psk |-> TRUE]
      /\ o = [rkey |-> 0, rseq |-> 0, wkey |-> 0, wseq |-> 0, served |-> 0,
              todo |-> <<>>, tickets |-> 0, updates |-> 0, closed |-> FALSE, bad |-> FALSE]
      /\ recs = <<>> /\ p2o = <<>> /\ o2p = <<>> /\ why = {}
      /\ skey = Junk /\ ckey = Junk /\ fresh = 0
  BY DEF RInit, Init
<1>1. Types
  <2>1. Junk \in Shares /\ 0 \in Shares /\ 1 \in 1 .. NRequests /\ 0 \in 0 .. NRequests
        /\ 0 \in Nat
    BY MaxKeyAssumption, RotateAssumption DEF Shares, Junk
  <2>2. p \in Provers
    BY <1>0, <2>1, Zenon DEF Provers
  <2>3. <<>> \in ToWrite
    BY DEF ToWrite
  <2>4. o \in Origins
    BY <1>0, <2>1, <2>3, Zenon DEF Origins
  <2>5. recs \in Seq(Records) /\ o2p \in Seq(Records) /\ p2o \in Seq(Requests)
    BY <1>0
  <2> QED
    BY <1>0, <2>1, <2>2, <2>4, <2>5 DEF Types, RTypeOK
<1>2. KeysInStep
  BY <1>0 DEF KeysInStep, Running
<1>3. SentInOrder
  BY <1>0 DEF SentInOrder, Running
<1>4. N = 0
  BY <1>0 DEF N
<1>5. StreamInOrder
  BY <1>0, <1>4 DEF StreamInOrder
<1>6. EpochStart /\ Numbered /\ Checked
  BY <1>0 DEF EpochStart, Numbered, Checked
<1> QED
  BY <1>1, <1>2, <1>3, <1>5, <1>6 DEF Inv

LEMMA InvKept == Inv /\ [RNext]_rvars => Inv'
BY StepsMove, TypesKept, KeysKept, SentKept, StreamKept, StartKept, NumbersKept, CheckedKept
   DEF Inv

LEMMA InvAlways == RSpec => []Inv
<1>1. Inv /\ [RNext]_rvars => Inv'
  BY InvKept
<1> QED
  BY <1>1, InvInit, PTL DEF RSpec

\* The numbers of both directions agree with the peer's in every state of a
\* Rotate connection, in both flows and whatever the origin sends: every record
\* the prover seals after a KeyUpdate opens at the origin, and every captured
\* record of the epoch at hand is checked under the number it was sealed with
\* (surf_reset_write_state, surf_capture_ciphertext, the renumbering in
\* rotate_surf_release).
THEOREM NumbersFit == RSpec => []NumbersAgree
<1>1. Inv => NumbersAgree
  <2> SUFFICES ASSUME Inv PROVE NumbersAgree
    OBVIOUS
  <2>1. RTypeOK /\ RequestsOpen
    BY DEF Inv, Types, SentInOrder, RequestsOpen
  <2>2. SequenceNumbersFit
    BY EpochNumbers DEF Inv, SequenceNumbersFit
  <2> QED
    BY <2>1, <2>2 DEF NumbersAgree
<1> QED
  BY <1>1, InvAlways, PTL

-----------------------------------------------------------------------------
(* A released key is a closed epoch's *)

\* Without responses of five bytes the only record of six bytes is a KeyUpdate.
NoShort ==
    ~Short => /\ \A i \in 1 .. Len(recs) : recs[i].kind # "short"
              /\ \A i \in 1 .. Len(o2p) : o2p[i].kind # "short"
              /\ \A i \in 1 .. Len(o.todo) : o.todo[i] # "short"

\* A drain ends at the KeyUpdate that ends the epoch, or the origin has closed.
Drained ==
    /\ Flow = "epoch" /\ p.pc \in {"commit", "verify", "release"} =>
          o.closed \/ recs[Len(recs)].kind = "ku"
    /\ Flow = "batch" /\ p.pc \in {"commit", "verify", "release", "open", "replay",
                                   "psk_done", "rotate_server"} => o.closed

\* Every key that went out is that of an epoch the origin has left.
LeakedClosed == \A k \in leaked : k \in Nat /\ (o.closed \/ k < ServerKey(o.wkey))

KeysClosed == Inv /\ NoShort /\ Drained /\ LeakedClosed

LEMMA ShortKept == Inv /\ NoShort /\ Move => NoShort'
<1> SUFFICES ASSUME Inv, NoShort, Move, ~Short PROVE NoShort'
  BY DEF NoShort
<1>0. /\ Types /\ recs \in Seq(Records) /\ o2p \in Seq(Records) /\ o.todo \in ToWrite
      /\ Len(recs) \in Nat /\ Len(o2p) \in Nat /\ o \in Origins
      /\ \A i \in 1 .. Len(recs) : recs[i].kind # "short"
      /\ \A i \in 1 .. Len(o2p) : o2p[i].kind # "short"
      /\ \A i \in 1 .. Len(o.todo) : o.todo[i] # "short"
  BY Elements DEF Inv, Types, RTypeOK, Origins, NoShort
<1>1. CASE UNCHANGED <<recs, o2p, o>>
  BY <1>0, <1>1 DEF NoShort
<1>2. CASE MoveCapture
  <2>1. PICK k \in 1 .. Len(o2p) :
            recs' = recs \o Taken(k) /\ o2p' = SubSeq(o2p, k + 1, Len(o2p))
    BY <1>2, CaptureEffects
  <2>2. k \in Nat /\ k <= Len(o2p) /\ o' = o
    BY <1>0, <1>2 DEF MoveCapture
  <2>3. \A i \in 1 .. Len(o2p') : o2p'[i].kind # "short"
    <3>1. Len(o2p') = Len(o2p) - k /\ \A i \in 1 .. Len(o2p) - k : o2p'[i] = o2p[k + i]
      BY <1>0, <2>1, <2>2
    <3>2. \A i \in 1 .. Len(o2p) - k : k + i \in 1 .. Len(o2p)
      BY <1>0, <2>2
    <3> QED
      BY <1>0, <3>1, <3>2
  <2>4. \A i \in 1 .. Len(recs') : recs'[i].kind # "short"
    <3> DEFINE t == Taken(k)
    <3>1. t \in Seq(Records) /\ Len(t) = k /\ \A i \in 1 .. k : t[i].kind = o2p[i].kind
      BY <1>0, CaptureTyped
    <3> HIDE DEF t
    <3>2. recs' = recs \o t
      BY <2>1 DEF t
    <3>3. /\ Len(recs') = Len(recs) + k
          /\ \A i \in 1 .. Len(recs) : recs'[i] = recs[i]
          /\ \A i \in 1 .. k : recs'[Len(recs) + i] = t[i]
      <4>1. /\ Len(recs \o t) = Len(recs) + Len(t)
            /\ \A i \in 1 .. Len(recs) : (recs \o t)[i] = recs[i]
            /\ \A i \in 1 .. Len(t) : (recs \o t)[Len(recs) + i] = t[i]
        BY <1>0, <3>1, ConcatFacts, Zenon
      <4> QED
        BY <3>1, <3>2, <4>1, Zenon
    <3>4. ASSUME NEW i \in 1 .. Len(recs) + k PROVE recs'[i].kind # "short"
      <4>1. CASE i <= Len(recs)
        BY <1>0, <2>2, <3>3, <4>1
      <4>2. CASE i > Len(recs)
        <5> DEFINE j == i - Len(recs)
        <5>1. j \in 1 .. k /\ j \in 1 .. Len(o2p) /\ i = Len(recs) + j
          BY <1>0, <2>2, <4>2
        <5> HIDE DEF j
        <5>2. recs'[i] = t[j] /\ t[j].kind = o2p[j].kind
          BY <3>1, <3>3, <5>1
        <5> QED
          BY <1>0, <5>1, <5>2
      <4> QED
        BY <1>0, <2>2, <4>1, <4>2
    <3> QED
      BY <3>3, <3>4
  <2> QED
    BY <1>0, <2>2, <2>3, <2>4 DEF NoShort
<1>3. CASE MoveServer
  <2>1. UNCHANGED <<o2p, o>> /\ (recs' = recs \/ recs' = Renumber(recs, p.end))
    BY <1>3 DEF MoveServer
  <2>2. \A i \in 1 .. Len(recs') : recs'[i].kind # "short"
    <3>1. CASE recs' = recs
      BY <1>0, <3>1
    <3>2. CASE recs' = Renumber(recs, p.end)
      <4>a. p.end \in Nat
        BY <1>0, ProverFields
      <4>1. Len(recs') = Len(recs) /\ \A j \in 1 .. Len(recs) : recs'[j].kind = recs[j].kind
        BY <1>0, <3>2, <4>a, RenumberTyped
      <4> QED
        BY <1>0, <4>1
    <3> QED
      BY <2>1, <3>1, <3>2
  <2> QED
    BY <1>0, <2>1, <2>2 DEF NoShort
<1>4. CASE MoveOrigin
  <2>0. recs' = recs
    BY <1>4 DEF MoveOrigin
  <2>a. ASSUME NEW r \in Records, r.kind # "short", o2p' = Append(o2p, r)
        PROVE  \A i \in 1 .. Len(o2p') : o2p'[i].kind # "short"
    BY <1>0, <2>a, AppendFacts
  <2>b. ASSUME NEW kind \in Kinds, NEW resp \in Nat
        PROVE  Out(kind, resp) \in Records /\ Out(kind, resp).kind = kind
    BY <1>0 DEF Out, Records, Origins
  <2>1. ASSUME NEW kinds \in Responses, OriginReads(kinds) PROVE NoShort'
    <3>1. /\ o2p' = o2p \/ o2p' = Append(o2p, Out("ku", 0))
          /\ \/ o'.todo = o.todo
             \/ o'.todo = kinds
             \/ o'.todo = Append(kinds, "close")
      BY <1>0, <2>1 DEF OriginReads, Origins, Updated
    <3>2. \A i \in 1 .. Len(o2p') : o2p'[i].kind # "short"
      <4>1. Out("ku", 0) \in Records /\ Out("ku", 0).kind = "ku"
        BY <2>b DEF Kinds
      <4> QED
        BY <1>0, <2>a, <3>1, <4>1
    <3>3. \A i \in 1 .. Len(o'.todo) : o'.todo[i] # "short"
      <4>1. PICK n \in 1 .. MaxResponse : kinds \in [1 .. n -> {"app"}]
        BY DEF Responses
      <4>2. kinds \in Seq({"app"}) /\ Len(kinds) \in Nat
        BY <4>1, RotateAssumption
      <4>3. kinds \in Seq({"app", "close"})
        BY <4>2
      <4>4. Append(kinds, "close") \in Seq({"app", "close"})
        BY <4>3
      <4>5. \A t \in Seq({"app", "close"}) : \A i \in 1 .. Len(t) : t[i] # "short"
        OBVIOUS
      <4> QED
        BY <1>0, <3>1, <4>3, <4>4, <4>5
    <3> QED
      BY <1>0, <2>0, <3>2, <3>3 DEF NoShort
  <2>2. CASE OriginWrites
    <3> DEFINE kind == Head(o.todo)
               resp == IF kind = "close" THEN 0 ELSE o.served
    <3>1. /\ o.todo # <<>> /\ o2p' = Append(o2p, Out(kind, resp)) /\ o'.todo = Tail(o.todo)
      BY <1>0, <2>2 DEF OriginWrites, Origins
    <3>2. /\ kind \in {"app", "close"} /\ \A i \in 1 .. Len(Tail(o.todo)) : Tail(o.todo)[i] # "short"
      <4>1. /\ Len(o.todo) \in Nat /\ Len(o.todo) > 0 /\ Len(Tail(o.todo)) = Len(o.todo) - 1
            /\ \A i \in 1 .. Len(o.todo) - 1 : Tail(o.todo)[i] = o.todo[i + 1]
        BY <1>0, <3>1, TailFacts DEF ToWrite
      <4>2. kind = o.todo[1] /\ o.todo[1] \in {"app", "short", "close"}
        BY <1>0, <3>1, <4>1 DEF ToWrite
      <4> QED
        BY <1>0, <4>1, <4>2
    <3>3. resp \in Nat
      BY <1>0, RotateAssumption DEF Origins
    <3>4. Out(kind, resp) \in Records /\ Out(kind, resp).kind # "short"
      BY <2>b, <3>2, <3>3 DEF Kinds
    <3> HIDE DEF kind, resp
    <3> QED
      BY <1>0, <2>0, <2>a, <3>1, <3>2, <3>4 DEF NoShort
  <2>3. CASE OriginTicket \/ OriginUpdatesItself
    <3>1. /\ o2p' = Append(o2p, Out("nst", 0)) \/ o2p' = Append(o2p, Out("ku", 0))
          /\ o'.todo = o.todo
      BY <1>0, <2>3 DEF OriginTicket, OriginUpdatesItself, Origins, Updated
    <3>2. /\ Out("ku", 0) \in Records /\ Out("ku", 0).kind = "ku"
          /\ Out("nst", 0) \in Records /\ Out("nst", 0).kind = "nst"
      BY <2>b DEF Kinds
    <3> QED
      BY <1>0, <2>0, <2>a, <3>1, <3>2 DEF NoShort
  <2>4. CASE OriginGone
    <3>1. PICK k \in 0 .. Len(o2p) : o2p' = SubSeq(o2p, 1, k) /\ o'.todo = o.todo
      BY <1>0, <2>4 DEF OriginGone, Origins
    <3>2. Len(o2p') = k /\ \A i \in 1 .. k : o2p'[i] = o2p[i] /\ i \in 1 .. Len(o2p)
      BY <1>0, <3>1
    <3> QED
      BY <1>0, <2>0, <3>1, <3>2 DEF NoShort
  <2> QED
    BY <1>4, <2>1, <2>2, <2>3, <2>4 DEF MoveOrigin
<1> QED
  BY <1>1, <1>2, <1>3, <1>4
     DEF Move, MoveIdle, MoveFails, MoveEstablish, MoveOn, MoveRequest, MoveUpdate,
         MoveClient, MovePasses, MoveRejects, MoveRelease, MoveOpen, Quiet

LEMMA ClosedStays == Inv /\ Move => (o.closed => o'.closed) /\ (o' = o \/ MoveOrigin)
<1> SUFFICES ASSUME Inv, Move PROVE (o.closed => o'.closed) /\ (o' = o \/ MoveOrigin)
  OBVIOUS
<1>1. CASE MoveOrigin
  BY <1>1, OriginMoves DEF OriginEffects
<1>2. CASE ~MoveOrigin
  BY <1>2 DEF Move, MoveIdle, MoveFails, MoveEstablish, MoveOn, MoveRequest, MoveUpdate,
              MoveClient, MoveCapture, MovePasses, MoveRejects, MoveRelease, MoveOpen,
              MoveServer, Quiet
<1> QED
  BY <1>1, <1>2

LEMMA DrainedKept ==
    ASSUME ~Timeouts, Flow = "epoch" => ~Short, Inv, NoShort, Drained, Move
    PROVE  Drained'
<1>0. /\ Types /\ Len(recs) \in Nat /\ p.start \in Nat /\ p \in Provers
  BY ProverFields, Elements DEF Inv, Types, RTypeOK
<1> USE <1>0, RotateAssumption
<1>1. CASE MoveIdle \/ MoveOrigin
  BY <1>1, ClosedStays DEF Drained, MoveIdle, MoveOrigin, Quiet
<1>2. CASE MoveFails \/ MoveEstablish \/ MoveRequest \/ MoveUpdate \/ MoveClient \/ MoveCapture
  <2>1. p'.pc \in {"fail", "request", "ku", "drain", "rotate_client"}
    BY <1>2, ProverEffects, CaptureEffects
  <2> QED
    BY <2>1 DEF Drained
<1>3. CASE MoveOn
  <2>1. recs' = recs /\ o' = o
    BY <1>3 DEF MoveOn, Quiet
  <2>2. CASE p.pc = "drain"
    <3>1. /\ p'.pc = "commit" /\ (Flow = "epoch" => p.start < Len(recs))
          /\ StopSeen \/ o.closed
      BY <1>3, <2>2 DEF MoveOn, To, Provers
    <3>2. ASSUME StopSeen PROVE Flow = "epoch" /\ recs[Len(recs)].kind = "ku"
      <4>1. /\ Flow = "epoch" /\ Len(recs) > p.start /\ SixBytes(recs[Len(recs)])
        BY <3>2 DEF StopSeen
      <4>2. Len(recs) \in 1 .. Len(recs)
        BY <4>1
      <4> QED
        BY <4>1, <4>2 DEF NoShort, SixBytes
    <3> QED
      BY <2>1, <3>1, <3>2 DEF Drained
  <2>3. CASE p.pc # "drain"
    <3>1. /\ p'.pc = "commit" => FALSE
          /\ p'.pc \in {"verify"} => p.pc = "commit"
          /\ p'.pc = "release" => FALSE
          /\ p'.pc = "open" => FALSE
          /\ p'.pc \in {"replay", "psk_done"} => p.pc = "replay"
          /\ p'.pc = "rotate_server" => Flow = "epoch"
      BY <1>3, <2>3, ProverEffects DEF AfterReplay
    <3> QED
      BY <2>1, <3>1 DEF Drained
  <2> QED
    BY <2>2, <2>3
<1>4. CASE MovePasses \/ MoveRejects \/ MoveRelease \/ MoveOpen
  <2>1. /\ recs' = recs /\ o' = o /\ p.pc \in {"verify", "release", "open"}
        /\ p'.pc \in {"verify", "release", "open", "replay", "rotate_server"}
        /\ p'.pc \in {"verify", "release"} => p.pc = "verify"
    BY <1>4, ProverEffects DEF MovePasses, MoveRejects, MoveRelease, MoveOpen, Quiet
  <2> QED
    BY <2>1 DEF Drained
<1>5. CASE MoveServer
  <2>1. o' = o /\ p.pc = "rotate_server"
    BY <1>5 DEF MoveServer
  <2>2. Flow = "epoch" => p'.pc = "request"
    BY <1>5, ProverEffects
  <2> QED
    BY <2>1, <2>2 DEF Drained
<1> QED
  BY <1>1, <1>2, <1>3, <1>4, <1>5 DEF Move

\* The key that goes out at a release.
LEMMA ReleaseClosed ==
    ASSUME Inv, Drained, p.pc = "release"
    PROVE  skey \in Nat /\ (o.closed \/ skey < ServerKey(o.wkey))
<1>0. /\ Types /\ Len(recs) \in Nat /\ p.start \in Nat /\ p.epoch \in Nat
      /\ o.wkey \in Nat
  BY ProverFields, Elements DEF Inv, Types, RTypeOK, Origins
<1>1. skey = ServerKey(p.epoch) /\ skey \in Nat
  BY <1>0, ServerKeys DEF Inv, KeysInStep, Running
<1>2. ASSUME ~o.closed PROVE p.epoch < o.wkey
  <2>1. Flow = "epoch" /\ recs[Len(recs)].kind = "ku"
    BY <1>2, RotateAssumption DEF Drained
  <2>2. Len(recs) \in p.start + 1 .. Len(recs) /\ recs[Len(recs)].epoch = p.epoch
    BY <1>0, <2>1 DEF Inv, Checked
  <2>3. Len(recs) \in 1 .. N /\ At(Len(recs)) = recs[Len(recs)]
    BY <1>0, <2>2, Elements DEF N, At
  <2> QED
    BY <2>1, <2>2, <2>3 DEF Inv, StreamInOrder
<1> QED
  BY <1>0, <1>1, <1>2, ServerKeys

LEMMA LeakedKept ==
    ASSUME Inv, Drained, LeakedClosed, Move
    PROVE  LeakedClosed'
<1>0. o \in Origins /\ o.wkey \in Nat
  BY DEF Inv, Types, Origins
<1>1. CASE MoveOrigin
  <2>1. leaked' = leaked /\ OriginEffects
    BY <1>1, OriginMoves DEF MoveOrigin
  <2>2. o'.wkey \in Nat /\ o.wkey <= o'.wkey /\ ~o.closed
    <3>1. o' \in Origins /\ ~o.closed
      BY <2>1 DEF OriginEffects
    <3>2. o'.wkey \in Nat
      BY <3>1 DEF Origins
    <3>3. o'.wkey = o.wkey \/ o'.wkey = o.wkey + 1
      BY <2>1 DEF OriginEffects, Seals
    <3> QED
      BY <1>0, <3>1, <3>2, <3>3
  <2>3. ServerKey(o.wkey) <= ServerKey(o'.wkey) /\ ServerKey(o.wkey) \in Nat
        /\ ServerKey(o'.wkey) \in Nat
    BY <1>0, <2>2 DEF ServerKey
  <2>4. \A k \in leaked : k \in Nat /\ k < ServerKey(o.wkey)
    BY <2>2 DEF LeakedClosed
  <2>5. \A k \in leaked' : k \in Nat /\ k < ServerKey(o'.wkey)
    BY <2>1, <2>3, <2>4
  <2>6. ServerKey(o.wkey)' = ServerKey(o'.wkey)
    BY DEF ServerKey
  <2> QED
    BY <2>5, <2>6 DEF LeakedClosed
<1>2. CASE ~MoveOrigin
  <2>1. o' = o
    BY <1>2, ClosedStays
  <2>2. leaked' = leaked \/ (p.pc = "release" /\ leaked' = leaked \cup {skey})
    BY <1>2 DEF Move, MoveIdle, MoveFails, MoveEstablish, MoveOn, MoveRequest, MoveUpdate,
                MoveClient, MoveCapture, MovePasses, MoveRejects, MoveRelease, MoveOpen,
                MoveServer
  <2>3. \A k \in leaked' : k \in Nat /\ (o.closed \/ k < ServerKey(o.wkey))
    BY <2>2, ReleaseClosed DEF LeakedClosed
  <2> QED
    BY <2>1, <2>3 DEF LeakedClosed, ServerKey
<1> QED
  BY <1>1, <1>2

LEMMA KeysClosedKept ==
    ASSUME ~Timeouts, Flow = "epoch" => ~Short
    PROVE  KeysClosed /\ [RNext]_rvars => KeysClosed'
BY StepsMove, InvKept, ShortKept, DrainedKept, LeakedKept DEF KeysClosed

LEMMA KeysClosedInit == RInit => KeysClosed
<1> SUFFICES ASSUME RInit PROVE KeysClosed
  OBVIOUS
<1>1. recs = <<>> /\ o2p = <<>> /\ o.todo = <<>> /\ p.pc = "setup" /\ leaked = {}
  BY DEF RInit, Init
<1> QED
  BY <1>1, InvInit DEF KeysClosed, NoShort, Drained, LeakedClosed

LEMMA KeysClosedImplies == KeysClosed => ReleasedKeysClosed
<1> SUFFICES ASSUME KeysClosed, NEW e \in 0 .. o.wkey, ServerKey(e) \in leaked, ~o.closed
             PROVE  o.wkey > e
  BY DEF ReleasedKeysClosed
<1>1. o.wkey \in Nat /\ e \in Nat
  BY DEF KeysClosed, Inv, Types, Origins
<1>2. ServerKey(e) < ServerKey(o.wkey)
  BY DEF KeysClosed, LeakedClosed
<1> QED
  BY <1>1, <1>2, ServerKeys

\* As long as no poll expires and no response holds a record that looks like a
\* KeyUpdate, the verifier's share of a server key goes out only after the
\* origin has stopped sealing under that key (drain_until, surf_release_epoch_key).
THEOREM ReleasedClosed ==
    ASSUME ~Timeouts, Flow = "epoch" => ~Short
    PROVE  RSpec => []ReleasedKeysClosed
<1>1. KeysClosed /\ [RNext]_rvars => KeysClosed'
  BY KeysClosedKept
<1> QED
  BY <1>1, KeysClosedInit, KeysClosedImplies, PTL DEF RSpec

-----------------------------------------------------------------------------
(* Nothing fails by itself *)

\* The verifier is where the prover thinks it is.
InTouch ==
    /\ p.pc # "fail"
    /\ p.pc = "setup" => state \in {"ACCEPT", "SETUP"}
    /\ p.pc = "done" => state = "DONE"
    /\ Running => state \in {"DERIVE_PSK", "PSK_DONE", "SHUTDOWN"}
    /\ state = "PSK_DONE" <=> p.pc = "psk_done"

\* The gates of the verifier are open when the prover comes to them.
GatesOpen ==
    /\ p.pc \in {"request_tag", "ku_tag"} => TagGate(1)
    /\ p.pc \in Capturing \cup {"commit"} => ~key_committed /\ ~key_released
    /\ p.pc \in {"verify", "release"} =>
          key_committed /\ ~key_released /\ key_commitment = p.skey
    /\ p.pc \in {"open", "replay", "psk_done", "rotate_server"} => key_released

\* The verifier has sealed the numbers below the prover's next one.
NumbersUsed ==
    /\ encrypted_seqs \in Seq(Nat)
    /\ p.pc \notin {"request_tag", "ku_tag", "rotate_client"} =>
          \A i \in 1 .. Len(encrypted_seqs) : encrypted_seqs[i] < p.wseq
    /\ p.pc \in {"request_tag", "ku_tag"} =>
          \A i \in 1 .. Len(encrypted_seqs) : encrypted_seqs[i] <= p.wseq

\* The origin closes after the last response, and nothing follows.
ClosesLast ==
    /\ \A i \in 1 .. N : At(i).kind = "close" => i = N /\ o.closed
    /\ o.closed => N > 0 /\ p.round = NRequests /\ \A i \in 1 .. N : i = N => At(i).kind = "close"
    /\ \A i \in 1 .. Len(o.todo) :
          o.todo[i] = "close" => i = Len(o.todo) /\ o.served = NRequests
    /\ o.served <= p.round
    /\ \A i \in 1 .. Len(p2o) : p2o[i].resp <= p.round

\* The origin's write key moves with its read key and its own updates, and its
\* read key is behind the prover's.
UpdatesAnswered ==
    /\ o.updates <= MaxUpdates /\ o.wkey = o.rkey + o.updates
    /\ Running =>
          /\ ClientKey(o.rkey) <= NextKey
          /\ \A i \in 1 .. Len(p2o) :
                p2o[i].key <= NextKey /\ (p2o[i].kind = "ku" => p2o[i].key + 2 <= NextKey)

\* What a drain has to have captured.
WholeEpoch ==
    /\ Flow = "epoch" /\ p.pc \in {"commit", "verify", "release", "open"} =>
          /\ p.start < Len(recs)
          /\ Last => o.closed /\ o2p = <<>>
          /\ ~Last => recs[Len(recs)].kind = "ku"
    /\ Flow = "batch" /\ p.pc \in {"commit", "verify", "release", "open", "replay",
                                   "psk_done", "rotate_server"} =>
          o.closed /\ o2p = <<>>
    /\ Flow = "batch" /\ p.pc = "commit" => p.start < Len(recs)
    /\ Flow = "batch" /\ p.pc \in {"release", "open", "rotate_server"} /\ p.end < Len(recs) =>
          recs[p.end + 1].epoch # p.epoch
    /\ Flow = "batch" /\ p.pc = "rotate_server" => p.end < Len(recs)

Smooth ==
    InTouch /\ GatesOpen /\ NumbersUsed /\ ClosesLast /\ UpdatesAnswered /\ WholeEpoch
    /\ NoShort

\* As long as nothing has happened that excuses a failure.
Excused == Inv /\ (why = {} => Smooth)

-----------------------------------------------------------------------------
(* The steps, as long as nothing excuses a failure *)

Steady == UNCHANGED <<state, gateVars, encVars>>
Went(to) == p'.pc = to /\ p'.skey = p.skey /\ p'.wseq = p.wseq

\* What a drain ends with.
DrainedWell ==
    /\ p.start < Len(recs)
    /\ \/ Flow = "epoch" /\ ~Last /\ recs[Len(recs)].kind = "ku"
       \/ o.closed /\ o2p = <<>>

SmoothStep ==
    \/ UNCHANGED p /\ Steady
    \/ /\ p.pc = "setup" /\ UNCHANGED p
       /\ state' = "SETUP" /\ reset_gate /\ reset_enc
    \/ /\ p.pc = "setup" /\ p'.pc = "request" /\ p'.wseq = p.wseq
       /\ state' = "DERIVE_PSK" /\ UNCHANGED <<gateVars, encVars>>
    \/ /\ \/ p.pc = "request" /\ Went("request_tag")
          \/ p.pc = "ku" /\ Went("ku_tag")
       /\ UNCHANGED <<state, gateVars>>
       /\ encrypted_seqs' = Append(encrypted_seqs, p.wseq) /\ TagGate(1)'
    \/ /\ p.pc = "request_tag" /\ p'.pc \in {"ku", "drain"} /\ p'.wseq = p.wseq + 1
       /\ Steady
    \/ p.pc = "ku_tag" /\ p'.pc = "rotate_client" /\ p'.wseq = 0 /\ Steady
    \/ /\ p.pc = "rotate_client" /\ Went("drain")
       /\ UNCHANGED <<state, gateVars>> /\ reset_enc
    \/ p.pc = "drain" /\ Went("drain") /\ Steady
    \/ p.pc = "drain" /\ Went("commit") /\ Steady /\ DrainedWell
    \/ /\ p.pc = "commit" /\ Went("verify") /\ UNCHANGED <<state, key_released, encVars>>
       /\ key_committed' = TRUE /\ key_commitment' = p.skey
    \/ p.pc = "verify" /\ (Went("verify") \/ Went("release")) /\ Steady
    \/ /\ p.pc = "release" /\ Went("open") /\ UNCHANGED <<state, encVars>>
       /\ key_released' = TRUE
    \/ p.pc = "open" /\ (Went("replay") \/ Went("rotate_server")) /\ Steady
    \/ /\ p.pc = "replay" /\ Went("psk_done")
       /\ state' = "PSK_DONE" /\ UNCHANGED <<gateVars, encVars>>
    \/ p.pc = "replay" /\ Went(AfterReplay) /\ Steady
    \/ /\ p.pc = "psk_done" /\ Went(AfterReplay)
       /\ state' = "SHUTDOWN" /\ UNCHANGED <<gateVars, encVars>>
    \/ /\ p.pc = "rotate_server" /\ p'.pc \in {"request", "commit"} /\ p'.wseq = p.wseq
       /\ UNCHANGED <<state, encVars>> /\ reset_gate
    \/ /\ p.pc = "stop" /\ Went("done")
       /\ state' = "DONE" /\ UNCHANGED <<gateVars, encVars>>

LEMMA ExchangeSmooth ==
    ASSUME NEW gate, NEW q, Exchange(gate, q), gate, why' = {}
    PROVE  state' # "FAILED" /\ p' = q
BY DEF Exchange

\* What the verifier does when its handler succeeds.
LEMMA HandlerEffects ==
    ASSUME state' # "FAILED"
    PROVE  /\ \A s : encrypt_blocks(s, 1) =>
                 /\ UNCHANGED <<state, gateVars>>
                 /\ encrypted_seqs' = Append(encrypted_seqs, s) /\ TagGate(1)'
           /\ make_gcm_tag(1) => Steady
           /\ \A d : read_key_commitment(d) =>
                 /\ UNCHANGED <<state, key_released, encVars>>
                 /\ key_committed' = TRUE /\ key_commitment' = d
           /\ release_key => UNCHANGED <<state, encVars>> /\ key_released' = TRUE
           /\ \A s, c, k : verify_gcm_tag(s, c, k) => Steady
           /\ rotate_key_op("client") => UNCHANGED <<state, gateVars>> /\ reset_enc
           /\ rotate_key_op("server") => UNCHANGED <<state, encVars>> /\ reset_gate
<1>1. ASSUME NEW s, encrypt_blocks(s, 1)
      PROVE  /\ UNCHANGED <<state, gateVars>>
             /\ encrypted_seqs' = Append(encrypted_seqs, s) /\ TagGate(1)'
  <2>1. /\ UNCHANGED <<state, gateVars>> /\ encrypted_seqs' = Append(encrypted_seqs, s)
        /\ encrypted_ct' = [key |-> ckey, seq |-> s, blocks |-> "all"]
        /\ encrypt_ct_len' = 1
    BY <1>1 DEF encrypt_blocks, Refuse, Fail
  <2>2. encrypted_ct'.blocks = "all" /\ NoCt.blocks = "none"
    BY <2>1 DEF NoCt
  <2> QED
    BY <2>1, <2>2 DEF TagGate, NoCt
<1>2. make_gcm_tag(1) => Steady
  BY DEF make_gcm_tag, Refuse, Fail, Steady
<1>3. \A d : read_key_commitment(d) =>
         /\ UNCHANGED <<state, key_released, encVars>>
         /\ key_committed' = TRUE /\ key_commitment' = d
  BY DEF read_key_commitment, Refuse, Fail
<1>4. release_key => UNCHANGED <<state, encVars>> /\ key_released' = TRUE
  BY DEF release_key, Refuse, Fail
<1>5. \A s, c, k : verify_gcm_tag(s, c, k) => Steady
  BY DEF verify_gcm_tag, Refuse, Fail, Steady, vars
<1>6. rotate_key_op("client") => UNCHANGED <<state, gateVars>> /\ reset_enc
  BY DEF rotate_key_op, Refuse, Fail, rotate_resets_client
<1>7. rotate_key_op("server") => UNCHANGED <<state, encVars>> /\ reset_gate
  BY DEF rotate_key_op, Refuse, Fail, rotate_resets_server
<1> QED
  BY <1>1, <1>2, <1>3, <1>4, <1>5, <1>6, <1>7

\* The verifier's gates, at the prover's place.
LEMMA GatesMet ==
    ASSUME Inv, GatesOpen, NumbersUsed
    PROVE  /\ p.pc \in {"request", "ku"} => EncryptGate(p.wseq)
           /\ p.pc = "commit" => CommitGate
           /\ p.pc = "verify" => VerifyGate /\ KeyOpens(p.skey)
           /\ p.pc = "release" => ReleaseGate
           /\ RotateGate("client")
           /\ p.pc = "rotate_server" => RotateGate("server")
<1>1. p.pc \in {"request", "ku"} => EncryptGate(p.wseq)
  <2> SUFFICES ASSUME p.pc \in {"request", "ku"} PROVE EncryptGate(p.wseq)
    OBVIOUS
  <2>1. p.wseq \in Nat
    BY ProverFields DEF Inv, Types, RTypeOK
  <2>2. \A i \in 1 .. Len(encrypted_seqs) : encrypted_seqs[i] \in Nat /\ encrypted_seqs[i] < p.wseq
    BY DEF NumbersUsed
  <2>3. DOMAIN encrypted_seqs = 1 .. Len(encrypted_seqs)
    BY DEF NumbersUsed
  <2> QED
    BY <2>1, <2>2, <2>3 DEF EncryptGate, InSeq
<1> QED
  BY <1>1, RotateAssumption
     DEF GatesOpen, CommitGate, VerifyGate, KeyOpens, ReleaseGate, RotateGate, true_surf

\* The last record of the connection, once the origin has closed.
LEMMA LastRecord ==
    ASSUME Inv, ClosesLast, o.closed, o2p = <<>>
    PROVE  /\ p.start < Len(recs) /\ recs[Len(recs)].kind = "close"
           /\ \A i \in 1 .. Len(recs) - 1 : recs[i].kind # "close"
<1>0. Types /\ Len(recs) \in Nat /\ p.start \in Nat /\ p.start <= Len(recs)
  BY ProverFields, Elements DEF Inv, Types, RTypeOK, EpochStart
<1>1. N = Len(recs)
  BY <1>0 DEF N
<1>2. \A i \in 1 .. Len(recs) : At(i) = recs[i]
  BY <1>0 DEF At
<1>3. Len(recs) > 0 /\ recs[Len(recs)].kind = "close"
  BY <1>0, <1>1, <1>2 DEF ClosesLast
<1>4. \A i \in 1 .. Len(recs) - 1 : recs[i].kind # "close"
  BY <1>0, <1>1, <1>2 DEF ClosesLast
<1>5. p.start # Len(recs)
  BY <1>0, <1>3 DEF Inv, EpochStart
<1> QED
  BY <1>0, <1>3, <1>4, <1>5

LEMMA Squeezed ==
    ASSUME NEW a \in Nat, NEW b \in Nat, NEW c \in Nat, NEW d \in Nat,
           a <= b, b < c, c <= d + 1
    PROVE  a <= d
OBVIOUS

\* In the per-round flow a drain leaves records of one epoch only.
LEMMA OneEpoch ==
    ASSUME Inv, UpdatesAnswered, WholeEpoch, Flow = "epoch", MaxUpdates = 0,
           p.pc \in {"verify", "release", "open"}
    PROVE  \A j \in p.start + 1 .. Len(recs) : recs[j].epoch = p.epoch
<1> SUFFICES ASSUME NEW j \in p.start + 1 .. Len(recs)
             PROVE  recs[j].epoch = p.epoch
  OBVIOUS
<1>a. /\ Types /\ Len(recs) \in Nat /\ p.start \in Nat /\ p.epoch \in Nat
      /\ o.wkey \in Nat /\ o.rkey \in Nat /\ o.updates \in Nat
  BY ProverFields, Elements DEF Inv, Types, RTypeOK, Origins
<1>0. /\ Types /\ Len(recs) \in Nat /\ p.start \in Nat /\ p.epoch \in Nat /\ p.start < Len(recs)
      /\ o.wkey \in Nat /\ o.rkey \in Nat /\ o.updates \in Nat /\ j \in Nat
  BY <1>a
<1>1. /\ \A i \in 1 .. Len(recs) : At(i) = recs[i] /\ i \in 1 .. N /\ recs[i].epoch \in Nat
      /\ j \in 1 .. Len(recs) /\ p.start + 1 \in 1 .. Len(recs) /\ Len(recs) \in 1 .. Len(recs)
  <2>1. \A i \in 1 .. Len(recs) : At(i) = recs[i]
    BY DEF At
  <2>2. Len(o2p) \in Nat /\ \A i \in 1 .. Len(recs) : recs[i].epoch \in Nat
    BY <1>0, Elements
  <2>3. \A i \in 1 .. Len(recs) : i \in 1 .. N
    BY <1>0, <2>2 DEF N
  <2>4. j \in 1 .. Len(recs) /\ p.start + 1 \in 1 .. Len(recs) /\ Len(recs) \in 1 .. Len(recs)
    BY <1>0
  <2> QED
    BY <2>1, <2>2, <2>3, <2>4
<1>2. recs[p.start + 1].epoch = p.epoch
  BY <1>0, EpochNumbers DEF Inv
<1>3. \A i, k \in 1 .. Len(recs) : i < k => recs[i].epoch <= recs[k].epoch
  BY <1>1 DEF Inv, StreamInOrder, Before
<1>4. p.epoch <= recs[j].epoch
  <2>1. CASE j = p.start + 1
    BY <1>0, <1>2, <2>1
  <2>2. CASE j # p.start + 1
    <3>1. p.start + 1 < j
      BY <1>0, <2>2
    <3> QED
      BY <1>1, <1>2, <1>3, <3>1
  <2> QED
    BY <2>1, <2>2
<1>5. o.wkey = o.rkey /\ ClientKey(o.rkey) <= p.ckey
  <2>1. o.updates <= 0 /\ o.wkey = o.rkey + o.updates /\ ClientKey(o.rkey) <= NextKey
    BY DEF UpdatesAnswered, Running
  <2> QED
    BY <1>0, <2>1 DEF NextKey
<1>6. p.ckey = ClientKey(IF ~Last THEN p.epoch + 1 ELSE p.epoch)
  BY DEF Inv, KeysInStep, Running, ClientTurned
<1>7. CASE Last
  <2>1. o.wkey <= p.epoch
    BY <1>0, <1>5, <1>6, <1>7 DEF ClientKey
  <2>2. recs[j].epoch <= o.wkey
    BY <1>1 DEF Inv, StreamInOrder
  <2> QED
    BY <1>0, <1>1, <1>4, <2>1, <2>2
<1>8. CASE ~Last
  <2>1. o.wkey <= p.epoch + 1
    BY <1>0, <1>5, <1>6, <1>8 DEF ClientKey
  <2>2. recs[Len(recs)].kind = "ku"
    BY <1>8 DEF WholeEpoch
  <2>3. recs[Len(recs)].epoch < o.wkey
    BY <1>1, <2>2 DEF Inv, StreamInOrder
  <2>4. recs[j].epoch <= recs[Len(recs)].epoch
    <3>1. CASE j = Len(recs)
      BY <1>1, <3>1
    <3>2. CASE j # Len(recs)
      <4>1. j < Len(recs)
        BY <1>0, <3>2
      <4> QED
        BY <1>1, <1>3, <4>1
    <3> QED
      BY <3>1, <3>2
  <2>5. recs[j].epoch \in Nat /\ recs[Len(recs)].epoch \in Nat
    BY <1>1
  <2>6. recs[j].epoch <= p.epoch
    <3>1. o.wkey \in Nat /\ p.epoch \in Nat
      BY <1>0
    <3> QED
      BY <2>1, <2>3, <2>4, <2>5, <3>1, Squeezed, Zenon
  <2> QED
    BY <1>0, <1>4, <2>5, <2>6
<1> QED
  BY <1>7, <1>8

\* A tag is rejected only at the first record of the next epoch.
LEMMA RejectedLater ==
    ASSUME Inv, UpdatesAnswered, WholeEpoch, Flow = "epoch" => MaxUpdates = 0,
           p.pc = "verify", ~Passes(recs[p.idx])
    PROVE  /\ Flow = "batch" /\ p.idx > p.start + 1 /\ p.end = p.idx - 1
           /\ recs[p.idx].epoch # p.epoch
<1>0. /\ Types /\ Len(recs) \in Nat /\ p.start \in Nat /\ p.idx \in Nat
      /\ p.idx \in p.start + 1 .. Len(recs) /\ p.start < Len(recs)
  <2>1. Types
    BY DEF Inv
  <2>2. Len(recs) \in Nat /\ p.start \in Nat /\ p.idx \in Nat
    BY <2>1, ProverFields, Elements
  <2>3. p.idx \in p.start + 1 .. Len(recs)
    BY DEF Inv, Checked
  <2> QED
    BY <2>1, <2>2, <2>3
<1>1. p.skey = ServerKey(p.epoch)
  BY DEF Inv, KeysInStep, Running
<1>2. recs[p.idx].epoch # p.epoch
  BY <1>0, <1>1, EpochNumbers DEF Inv, Passes
<1>3. Flow = "batch"
  BY <1>0, <1>2, OneEpoch, RotateAssumption
<1>4. p.idx # p.start + 1
  BY <1>0, <1>2, EpochNumbers DEF Inv
<1>5. p.idx > p.start + 1
  BY <1>0, <1>4
<1> QED
  BY <1>2, <1>3, <1>5 DEF Inv, Checked

\* The end of an epoch is where the release functions look for it.
LEMMA BoundaryMet ==
    ASSUME Inv, ClosesLast, UpdatesAnswered, WholeEpoch, p.pc = "open"
    PROVE  /\ Flow = "epoch" => BoundaryOk(Epoch)
           /\ Flow = "batch" /\ p.end = Len(recs) => NoEarlyClose(recs) /\ EndsIn(recs, "close")
           /\ Flow = "batch" /\ p.end # Len(recs) => EndsIn(SubSeq(recs, 1, p.end), "ku")
<1>0. /\ Types /\ Len(recs) \in Nat /\ p.start \in Nat /\ p.end \in Nat
      /\ p.end \in p.start + 1 .. Len(recs) /\ p.start < Len(recs) /\ recs \in Seq(Records)
      /\ Len(o2p) \in Nat
  <2>1. Types /\ recs \in Seq(Records)
    BY DEF Inv, Types, RTypeOK
  <2>2. Len(recs) \in Nat /\ p.start \in Nat /\ p.end \in Nat /\ Len(o2p) \in Nat
    BY <2>1, ProverFields, Elements
  <2>3. p.end \in p.start + 1 .. Len(recs)
    BY DEF Inv, Checked
  <2> QED
    BY <2>1, <2>2, <2>3
<1>1. ASSUME NEW i \in 1 .. Len(recs) - 1 PROVE recs[i].kind # "close"
  <2>1. i \in 1 .. N /\ i # N /\ At(i) = recs[i]
    BY <1>0 DEF N, At
  <2> QED
    BY <2>1 DEF ClosesLast
<1>2. ASSUME Flow = "epoch" PROVE BoundaryOk(Epoch)
  <2>a. /\ Len(Epoch) = Len(recs) - p.start
        /\ \A i \in 1 .. Len(recs) - p.start : Epoch[i] = recs[p.start + i]
    BY <1>0 DEF Epoch
  <2>b. Len(Epoch) # 0
    BY <1>0, <2>a
  <2>1. /\ Len(Epoch) = Len(recs) - p.start /\ Epoch # <<>>
        /\ \A i \in 1 .. Len(recs) - p.start : Epoch[i] = recs[p.start + i]
    BY <2>a, <2>b
  <2>2. NoEarlyClose(Epoch)
    <3>1. \A i \in 1 .. Len(recs) - p.start - 1 : /\ i \in 1 .. Len(recs) - p.start
                                                  /\ p.start + i \in 1 .. Len(recs) - 1
      BY <1>0
    <3> QED
      BY <1>1, <2>1, <3>1 DEF NoEarlyClose
  <2>3. Epoch[Len(Epoch)] = recs[Len(recs)]
    BY <1>0, <2>1
  <2>4. recs[Len(recs)].kind = IF Last THEN "close" ELSE "ku"
    BY <1>2, LastRecord DEF WholeEpoch
  <2> QED
    BY <2>1, <2>2, <2>3, <2>4 DEF BoundaryOk, EndsIn
<1>3. ASSUME Flow = "batch" PROVE NoEarlyClose(recs) /\ EndsIn(recs, "close")
  <2>1. recs[Len(recs)].kind = "close" /\ recs # <<>>
    BY <1>0, <1>3, LastRecord DEF WholeEpoch
  <2> QED
    BY <1>1, <2>1 DEF NoEarlyClose, EndsIn
<1>4. ASSUME Flow = "batch", p.end # Len(recs) PROVE EndsIn(SubSeq(recs, 1, p.end), "ku")
  <2>1. recs[p.end + 1].epoch # p.epoch /\ recs[p.end].epoch = p.epoch /\ p.end < Len(recs)
    BY <1>0, <1>4 DEF WholeEpoch, Inv, Checked
  <2>2. /\ p.end \in 1 .. N - 1 /\ At(p.end) = recs[p.end] /\ At(p.end + 1) = recs[p.end + 1]
    BY <1>0, <2>1 DEF N, At
  <2>3. recs[p.end].kind = "ku"
    BY <2>1, <2>2 DEF Inv, StreamInOrder, Leads
  <2>4. /\ Len(SubSeq(recs, 1, p.end)) = p.end /\ SubSeq(recs, 1, p.end)[p.end] = recs[p.end]
        /\ SubSeq(recs, 1, p.end) # <<>>
    BY <1>0
  <2> QED
    BY <2>3, <2>4 DEF EndsIn
<1> QED
  BY <1>2, <1>3, <1>4

LEMMA ProverSmooth ==
    ASSUME Flow = "epoch" => ~Short /\ MaxUpdates = 0, Inv, Smooth, why' = {}, Prover
    PROVE  SmoothStep
<1>0. p \in Provers /\ Len(recs) \in Nat /\ p.start \in Nat /\ p.start <= Len(recs)
  BY ProverFields, Elements DEF Inv, Types, RTypeOK, EpochStart
<1>a. InTouch /\ GatesOpen /\ NumbersUsed /\ ClosesLast /\ UpdatesAnswered /\ WholeEpoch /\ NoShort
  BY DEF Smooth
<1> USE DEF Went
<1>1. CASE Connect
  <2>1. CASE Accept /\ UNCHANGED <<p, why>>
    BY <1>1, <2>1 DEF Connect, Accept, SmoothStep, reset_per_connection_state
  <2>2. CASE Establish /\ why' = why
             /\ p' = [p EXCEPT !.pc = "request", !.skey = skey', !.ckey = ckey']
    <3>1. p'.pc = "request" /\ p'.wseq = p.wseq
      BY <1>0, <2>2 DEF Provers
    <3> QED
      BY <1>1, <2>2, <3>1 DEF Connect, Establish, SmoothStep
  <2>3. why' # why \cup {"lost"}
    OBVIOUS
  <2> QED
    BY <1>1, <2>1, <2>2, <2>3 DEF Connect
<1>2. CASE Encrypt
  <2> DEFINE q == [p EXCEPT !.pc = IF p.pc = "request" THEN "request_tag" ELSE "ku_tag"]
  <2>1. /\ p.pc \in {"request", "ku"} /\ encrypt_blocks(p.wseq, 1)
        /\ Exchange(EncryptGate(p.wseq), q)
    BY <1>2 DEF Encrypt
  <2>2. /\ q.skey = p.skey /\ q.wseq = p.wseq
        /\ q.pc = IF p.pc = "request" THEN "request_tag" ELSE "ku_tag"
    BY <1>0 DEF Provers
  <2> HIDE DEF q
  <2>3. state' # "FAILED" /\ p' = q
    BY <1>a, <2>1, GatesMet, ExchangeSmooth
  <2>4. /\ UNCHANGED <<state, gateVars>>
        /\ encrypted_seqs' = Append(encrypted_seqs, p.wseq) /\ TagGate(1)'
    BY <2>1, <2>3, HandlerEffects
  <2> QED
    BY <2>1, <2>2, <2>3, <2>4 DEF SmoothStep
<1>3. CASE SendRequest
  <2> DEFINE q == [p EXCEPT !.wseq = @ + 1,
                            !.pc = IF Flow = "epoch" /\ ~Last THEN "ku" ELSE "drain"]
  <2>1. p.pc = "request_tag" /\ make_gcm_tag(1) /\ Exchange(TagGate(1), q)
    BY <1>3 DEF SendRequest
  <2>2. q.pc \in {"ku", "drain"} /\ q.wseq = p.wseq + 1
    BY <1>0 DEF Provers
  <2> HIDE DEF q
  <2>3. state' # "FAILED" /\ p' = q
    <3>1. TagGate(1)
      BY <1>a, <2>1 DEF GatesOpen
    <3> QED
      BY <2>1, <3>1, ExchangeSmooth
  <2> QED
    BY <2>1, <2>2, <2>3, HandlerEffects DEF SmoothStep
<1>4. CASE SendKeyUpdate
  <2> DEFINE q == [p EXCEPT !.wseq = NextWriteSeq(@), !.pc = "rotate_client"]
  <2>1. p.pc = "ku_tag" /\ make_gcm_tag(1) /\ Exchange(TagGate(1), q)
    BY <1>4 DEF SendKeyUpdate
  <2>2. q.pc = "rotate_client" /\ q.wseq = 0
    BY <1>0 DEF Provers, NextWriteSeq
  <2> HIDE DEF q
  <2>3. state' # "FAILED" /\ p' = q
    <3>1. TagGate(1)
      BY <1>a, <2>1 DEF GatesOpen
    <3> QED
      BY <2>1, <3>1, ExchangeSmooth
  <2> QED
    BY <2>1, <2>2, <2>3, HandlerEffects DEF SmoothStep
<1>5. CASE RotateClient
  <2> DEFINE q == [p EXCEPT !.ckey = ckey', !.pc = "drain"]
  <2>1. p.pc = "rotate_client" /\ rotate_key_op("client") /\ Exchange(RotateGate("client"), q)
    BY <1>5 DEF RotateClient
  <2>2. q.pc = "drain" /\ q.wseq = p.wseq /\ q.skey = p.skey
    BY <1>0 DEF Provers
  <2> HIDE DEF q
  <2>3. state' # "FAILED" /\ p' = q
    BY <1>a, <2>1, GatesMet, ExchangeSmooth
  <2> QED
    BY <2>1, <2>2, <2>3, HandlerEffects DEF SmoothStep
<1>6. ASSUME NEW k \in 1 .. Len(o2p), Capture(k) PROVE SmoothStep
  <2>1. p.pc = "drain" /\ p' = [p EXCEPT !.rseq = @ + k] /\ Steady
    BY <1>6 DEF Capture, Steady, verifierVars
  <2>2. p'.pc = "drain" /\ p'.wseq = p.wseq /\ p'.skey = p.skey
    BY <1>0, <2>1 DEF Provers
  <2> QED
    BY <2>1, <2>2 DEF SmoothStep
<1>7. CASE DrainDone
  <2>1. p.pc = "drain" /\ (StopSeen \/ (o.closed /\ o2p = <<>>)) /\ Steady
    BY <1>7 DEF DrainDone, Steady, verifierVars
  <2>2. DrainedWell
    <3>1. CASE StopSeen
      <4>1. /\ Flow = "epoch" /\ ~Last /\ Len(recs) > p.start /\ SixBytes(recs[Len(recs)])
        BY <3>1 DEF StopSeen
      <4>2. Len(recs) \in 1 .. Len(recs)
        BY <1>0, <4>1
      <4>3. recs[Len(recs)].kind = "ku"
        BY <1>a, <4>1, <4>2 DEF NoShort, SixBytes
      <4> QED
        BY <1>0, <4>1, <4>3 DEF DrainedWell
    <3>2. CASE o.closed /\ o2p = <<>>
      BY <1>a, <3>2, LastRecord DEF DrainedWell
    <3> QED
      BY <2>1, <3>1, <3>2
  <2>3. p' = [p EXCEPT !.pc = "commit"]
    BY <1>0, <1>7, <2>2 DEF DrainDone, DrainedWell
  <2>4. p'.pc = "commit" /\ p'.wseq = p.wseq /\ p'.skey = p.skey
    BY <1>0, <2>3 DEF Provers
  <2> QED
    BY <2>1, <2>2, <2>4 DEF SmoothStep
<1>8. CASE Commit
  <2> DEFINE q == [p EXCEPT !.pc = IF p.start < Len(recs) THEN "verify" ELSE "fail",
                            !.idx = FirstIndex(p.start)]
  <2>1. p.pc = "commit" /\ read_key_commitment(p.skey) /\ Exchange(CommitGate, q)
    BY <1>8 DEF Commit
  <2>2. p.start < Len(recs)
    BY <1>a, <2>1, RotateAssumption DEF WholeEpoch
  <2>3. q.pc = "verify" /\ q.wseq = p.wseq /\ q.skey = p.skey
    BY <1>0, <2>2 DEF Provers
  <2> HIDE DEF q
  <2>4. state' # "FAILED" /\ p' = q
    BY <1>a, <2>1, GatesMet, ExchangeSmooth
  <2>5. UNCHANGED <<state, key_released, encVars>>
        /\ key_committed' = TRUE /\ key_commitment' = p.skey
    BY <2>1, <2>4, HandlerEffects
  <2> QED
    BY <2>1, <2>3, <2>4, <2>5 DEF SmoothStep
<1>9. CASE VerifyRecord
  <2> DEFINE r == recs[p.idx]
             ok == TagPasses(r.seq, Ct(r), p.skey)
  <2>0. p.skey = skey /\ p.pc = "verify"
    BY <1>9 DEF VerifyRecord, Inv, KeysInStep, Running
  <2>1. ok <=> Passes(r)
    BY <2>0 DEF TagPasses, Passes, Ct
  <2>2. verify_gcm_tag(r.seq, Ct(r), p.skey)
        /\ Exchange(VerifyGate /\ KeyOpens(p.skey), AfterVerdict(ok))
    BY <1>9 DEF VerifyRecord
  <2>3. ok \/ (Flow = "batch" /\ p.idx > p.start + 1)
    BY <1>a, <2>0, <2>1, RejectedLater
  <2> HIDE DEF ok, r
  <2>4. state' # "FAILED" /\ p' = AfterVerdict(ok)
    BY <1>a, <2>0, <2>2, GatesMet, ExchangeSmooth
  <2>5. p'.pc \in {"verify", "release"} /\ p'.wseq = p.wseq /\ p'.skey = p.skey
    BY <1>0, <2>3, <2>4 DEF AfterVerdict, Provers
  <2> QED
    BY <2>0, <2>2, <2>4, <2>5, HandlerEffects DEF SmoothStep
<1>10. CASE Release
  <2> DEFINE q == [p EXCEPT !.pc = "open"]
  <2>1. p.pc = "release" /\ release_key /\ Exchange(ReleaseGate, q)
    BY <1>10 DEF Release
  <2>2. q.pc = "open" /\ q.wseq = p.wseq /\ q.skey = p.skey
    BY <1>0 DEF Provers
  <2> HIDE DEF q
  <2>3. state' # "FAILED" /\ p' = q
    BY <1>a, <2>1, GatesMet, ExchangeSmooth
  <2>4. UNCHANGED <<state, encVars>> /\ key_released' = TRUE
    BY <2>1, <2>3, HandlerEffects
  <2> QED
    BY <2>1, <2>2, <2>3, <2>4 DEF SmoothStep
<1>11. CASE OpenEpoch
  <2> DEFINE rs == [i \in 1 .. Len(recs) - p.start |-> Opened(recs[p.start + i])]
  <2>0. /\ p.pc = "open" /\ Flow = "epoch" /\ p.end = Len(recs) /\ Steady
        /\ IF BoundaryOk(rs) THEN p' = [p EXCEPT !.pc = "replay"] ELSE TRUE
    BY <1>11 DEF OpenEpoch, Inv, Checked, Steady, verifierVars
  <2>1. \A i \in 1 .. Len(recs) - p.start : Opened(recs[p.start + i]) = recs[p.start + i]
    BY <1>0, <2>0, OpenedSame
  <2>2. rs = Epoch
    BY <2>1 DEF Epoch
  <2> HIDE DEF rs
  <2>3. p' = [p EXCEPT !.pc = "replay"]
    BY <1>a, <2>0, <2>2, BoundaryMet
  <2>4. p'.pc = "replay" /\ p'.wseq = p.wseq /\ p'.skey = p.skey
    BY <1>0, <2>3 DEF Provers
  <2> QED
    BY <2>0, <2>4 DEF SmoothStep
<1>12. CASE OpenBatch
  <2> DEFINE rs == [j \in DOMAIN recs |->
                      IF j \in p.start + 1 .. p.end THEN Opened(recs[j]) ELSE recs[j]]
  <2>0. p.pc = "open" /\ Flow = "batch" /\ p.end \in 1 .. Len(recs) /\ Steady
    BY <1>0, <1>12 DEF OpenBatch, Inv, Checked, Steady, verifierVars
  <2>1. rs = recs
    <3>1. recs = [j \in DOMAIN recs |-> recs[j]]
      BY DEF Inv, Types, RTypeOK
    <3>2. \A j \in DOMAIN recs : rs[j] = recs[j]
      BY <2>0, OpenedSame
    <3> QED
      BY <3>1, <3>2
  <2> DEFINE final == p.end = Len(recs)
             ok == IF final THEN NoEarlyClose(rs) /\ EndsIn(rs, "close")
                   ELSE EndsIn(SubSeq(rs, 1, p.end), "ku")
  <2>2. p' = [p EXCEPT !.pc = IF ~ok THEN "fail"
                              ELSE IF final THEN "replay" ELSE "rotate_server"]
    BY <1>12 DEF OpenBatch
  <2> HIDE DEF rs
  <2>3. ok
    BY <1>a, <2>0, <2>1, BoundaryMet
  <2> HIDE DEF ok, final
  <2>4. p'.pc \in {"replay", "rotate_server"} /\ p'.wseq = p.wseq /\ p'.skey = p.skey
    BY <1>0, <2>2, <2>3 DEF Provers
  <2> QED
    BY <2>0, <2>4 DEF SmoothStep
<1>13. CASE Replay
  <2>0. p.pc = "replay"
    BY <1>13 DEF Replay
  <2>1. CASE derive_psk /\ Exchange(TRUE, [p EXCEPT !.pc = "psk_done", !.psk = FALSE])
    <3>1. p' = [p EXCEPT !.pc = "psk_done", !.psk = FALSE]
      BY <2>1, ExchangeSmooth
    <3>2. p'.pc = "psk_done" /\ p'.wseq = p.wseq /\ p'.skey = p.skey
      BY <1>0, <3>1 DEF Provers
    <3>3. state' = "PSK_DONE" /\ UNCHANGED <<gateVars, encVars>>
      BY <2>1 DEF derive_psk
    <3> QED
      BY <2>0, <3>2, <3>3 DEF SmoothStep
  <2>2. CASE p' = [p EXCEPT !.pc = AfterReplay] /\ UNCHANGED <<verifierVars, why>>
    <3>1. p'.pc = AfterReplay /\ p'.wseq = p.wseq /\ p'.skey = p.skey
      BY <1>0, <2>2 DEF Provers
    <3> QED
      BY <2>0, <2>2, <3>1 DEF SmoothStep, Steady, verifierVars
  <2> QED
    BY <1>13, <2>1, <2>2 DEF Replay
<1>14. CASE RotateServer
  <2> DEFINE q == [p EXCEPT !.skey = skey', !.epoch = @ + 1]
             a == [RestartReadSeq(q) EXCEPT !.start = Len(recs), !.round = @ + 1, !.pc = "request"]
             b == [q EXCEPT !.start = p.end, !.pc = "commit"]
  <2>1. /\ p.pc = "rotate_server" /\ rotate_key_op("server")
        /\ Exchange(RotateGate("server"), a) \/ Exchange(RotateGate("server"), b)
    BY <1>14 DEF RotateServer
  <2>2. a.pc = "request" /\ a.wseq = p.wseq /\ b.pc = "commit" /\ b.wseq = p.wseq
    BY <1>0 DEF Provers, RestartReadSeq
  <2> HIDE DEF a, b, q
  <2>3. state' # "FAILED" /\ (p' = a \/ p' = b)
    BY <1>a, <2>1, GatesMet, ExchangeSmooth
  <2>4. UNCHANGED <<state, encVars>> /\ reset_gate
    BY <2>1, <2>3, HandlerEffects
  <2> QED
    BY <2>1, <2>2, <2>3, <2>4 DEF SmoothStep
<1>15. CASE Stop
  <2>1. p.pc = "stop" /\ shutdown /\ p' = [p EXCEPT !.pc = "done"]
    BY <1>15 DEF Stop
  <2>2. p'.pc = "done" /\ p'.wseq = p.wseq /\ p'.skey = p.skey
    BY <1>0, <2>1 DEF Provers
  <2> QED
    BY <2>1, <2>2 DEF SmoothStep, shutdown
<1>16. CASE VerifierGone
  BY <1>a, <1>16 DEF VerifierGone, InTouch, Running
<1> QED
  BY <1>1, <1>2, <1>3, <1>4, <1>5, <1>6, <1>7, <1>8, <1>9, <1>10, <1>11, <1>12, <1>13,
     <1>14, <1>15, <1>16 DEF Prover

LEMMA StepsSmooth ==
    ASSUME Flow = "epoch" => ~Short /\ MaxUpdates = 0, Inv, Smooth, why' = {}, [RNext]_rvars
    PROVE  SmoothStep
<1>0. p \in Provers
  BY DEF Inv, Types, RTypeOK
<1>1. CASE Prover
  BY <1>1, ProverSmooth
<1>2. CASE PskDone
  <2>1. p.pc = "psk_done" /\ write_completed_psk /\ Exchange(TRUE, [p EXCEPT !.pc = AfterReplay])
    BY <1>2 DEF PskDone, write_completed_psk, Smooth, InTouch
  <2>2. state' # "FAILED" /\ p' = [p EXCEPT !.pc = AfterReplay]
    BY <2>1, ExchangeSmooth
  <2>3. p'.pc = AfterReplay /\ p'.wseq = p.wseq /\ p'.skey = p.skey
    BY <1>0, <2>2 DEF Provers
  <2>4. state' = "SHUTDOWN" /\ UNCHANGED <<gateVars, encVars>>
    BY <2>1, <2>2 DEF write_completed_psk
  <2> QED
    BY <2>1, <2>3, <2>4 DEF SmoothStep, Went
<1>3. CASE ProverGone
  BY <1>3 DEF ProverGone, Smooth, InTouch
<1>4. CASE \E kinds \in Responses : OriginReads(kinds)
  BY <1>4 DEF OriginReads, SmoothStep, Steady, verifierVars, proverVars
<1>5. CASE OriginWrites \/ OriginTicket \/ OriginUpdatesItself \/ OriginGone
  BY <1>5 DEF OriginWrites, OriginTicket, OriginUpdatesItself, OriginGone, SmoothStep, Steady,
              verifierVars, proverVars
<1>6. CASE Ended \/ UNCHANGED rvars
  BY <1>6 DEF Ended, rvars, SmoothStep, Steady, verifierVars, proverVars
<1> QED
  BY <1>1, <1>2, <1>3, <1>4, <1>5, <1>6 DEF RNext, Verifier, Origin

LEMMA InTouchKept == ASSUME InTouch, SmoothStep PROVE InTouch'
BY DEF InTouch, SmoothStep, Running, Steady, Went, AfterReplay

LEMMA GatesKept == ASSUME GatesOpen, SmoothStep PROVE GatesOpen'
<1> USE DEF GatesOpen, Steady, Went, AfterReplay, Capturing, gateVars
<1>1. p'.pc \in {"request_tag", "ku_tag"} => TagGate(1)'
  BY DEF SmoothStep, TagGate, encVars
<1>2. p'.pc \in Capturing \cup {"commit"} => ~key_committed' /\ ~key_released'
  BY DEF SmoothStep, reset_gate
<1>3. p'.pc \in {"verify", "release"} =>
          key_committed' /\ ~key_released' /\ key_commitment' = p'.skey
  BY DEF SmoothStep
<1>4. p'.pc \in {"open", "replay", "psk_done", "rotate_server"} => key_released'
  BY DEF SmoothStep
<1> QED
  BY <1>1, <1>2, <1>3, <1>4

LEMMA UsedKept == ASSUME Inv, NumbersUsed, SmoothStep PROVE NumbersUsed'
<1>0. p.wseq \in Nat /\ encrypted_seqs \in Seq(Nat)
  BY ProverFields DEF Inv, Types, RTypeOK, NumbersUsed
<1> USE DEF Went, AfterReplay
<1>1. CASE encrypted_seqs' = <<>>
  BY <1>1 DEF NumbersUsed
<1>2. CASE /\ encrypted_seqs' = Append(encrypted_seqs, p.wseq) /\ p'.wseq = p.wseq
           /\ p.pc \in {"request", "ku"} /\ p'.pc \in {"request_tag", "ku_tag"}
  <2>1. /\ encrypted_seqs' \in Seq(Nat) /\ Len(encrypted_seqs') = Len(encrypted_seqs) + 1
        /\ encrypted_seqs'[Len(encrypted_seqs) + 1] = p.wseq
        /\ \A i \in 1 .. Len(encrypted_seqs) : encrypted_seqs'[i] = encrypted_seqs[i]
    BY <1>0, <1>2, AppendFacts
  <2>2. \A i \in 1 .. Len(encrypted_seqs) : encrypted_seqs[i] \in Nat /\ encrypted_seqs[i] < p.wseq
    BY <1>0, <1>2 DEF NumbersUsed
  <2>3. \A i \in 1 .. Len(encrypted_seqs) + 1 : encrypted_seqs'[i] <= p.wseq
    BY <1>0, <2>1, <2>2
  <2> QED
    BY <1>2, <2>1, <2>3 DEF NumbersUsed
<1>3. ASSUME encrypted_seqs' = encrypted_seqs, p'.pc \notin {"request_tag", "ku_tag"},
             \/ p'.pc = "rotate_client"
             \/ p'.wseq = p.wseq /\ p.pc \notin {"request_tag", "ku_tag", "rotate_client"}
             \/ p'.wseq = p.wseq + 1 /\ p.pc = "request_tag"
      PROVE  NumbersUsed'
  <2>1. \A i \in 1 .. Len(encrypted_seqs) : encrypted_seqs[i] \in Nat
    BY <1>0
  <2> QED
    BY <1>0, <1>3, <2>1 DEF NumbersUsed
<1>4. CASE UNCHANGED p /\ encrypted_seqs' = encrypted_seqs
  BY <1>4 DEF NumbersUsed
<1> QED
  BY <1>1, <1>2, <1>3, <1>4 DEF SmoothStep, Steady, encVars, reset_enc

LEMMA WholeKept ==
    ASSUME Flow = "epoch" => MaxUpdates = 0, Inv, ClosesLast, UpdatesAnswered, WholeEpoch,
           SmoothStep, InTouch', Move
    PROVE  WholeEpoch'
<1>0. /\ Types /\ Len(recs) \in Nat /\ p.start \in Nat /\ p.end \in Nat /\ p.idx \in Nat
      /\ p \in Provers
  BY ProverFields, Elements DEF Inv, Types, RTypeOK
<1>a. /\ o.closed => o'.closed
      /\ MoveOrigin => ~o.closed
  BY ClosedStays, OriginMoves DEF OriginEffects
<1> USE <1>0, RotateAssumption
<1>1. CASE MoveIdle
  BY <1>1 DEF MoveIdle, Quiet, WholeEpoch, Last
<1>2. CASE MoveOrigin
  BY <1>a, <1>2 DEF MoveOrigin, WholeEpoch, Last
<1>3. CASE MoveFails
  BY <1>3, ProverEffects DEF InTouch
<1>4. CASE MoveEstablish \/ MoveRequest \/ MoveUpdate \/ MoveClient \/ MoveCapture
  <2>1. p'.pc \in {"request", "ku", "drain", "rotate_client"}
    BY <1>4, ProverEffects, CaptureEffects
  <2> QED
    BY <2>1 DEF WholeEpoch
<1>5. CASE MoveOn
  <2>1. /\ UNCHANGED <<recs, o, o2p>> /\ p'.start = p.start /\ p'.end = p.end
        /\ p'.round = p.round /\ p'.epoch = p.epoch
    BY <1>5, ProverEffects DEF MoveOn, Quiet, SameRound
  <2>2. CASE p.pc = "drain"
    <3>1. p'.pc = "commit" /\ p'.pc # p.pc
      BY <1>5, <2>2, ProverEffects
    <3>2. DrainedWell
      BY <2>2, <3>1 DEF SmoothStep, Went
    <3>3. o.closed => Last
      BY DEF ClosesLast, Last
    <3> QED
      BY <2>1, <3>1, <3>2, <3>3 DEF WholeEpoch, DrainedWell, Last
  <2>3. CASE p.pc # "drain"
    <3>1. \/ p.pc = "commit" /\ p'.pc = "verify"
          \/ p.pc \in {"replay", "psk_done"} /\ p'.pc = "psk_done"
          \/ p'.pc \in {"request_tag", "ku_tag", "done", "stop"}
          \/ p'.pc = "rotate_server" /\ Flow = "epoch"
      BY <1>5, <2>3, ProverEffects DEF AfterReplay
    <3> QED
      BY <2>1, <3>1 DEF WholeEpoch, Last
  <2> QED
    BY <2>2, <2>3
<1>6. CASE MovePasses
  <2>1. /\ UNCHANGED <<recs, o, o2p>> /\ p'.start = p.start /\ p'.end = p.idx /\ p.pc = "verify"
        /\ p'.round = p.round /\ p'.epoch = p.epoch
        /\ p'.pc = IF p.idx = Len(recs) THEN "release" ELSE "verify"
    BY <1>6, ProverEffects DEF MovePasses, Quiet, SameRound
  <2> QED
    BY <2>1 DEF WholeEpoch, Last
<1>7. CASE MoveRejects
  <2>1. /\ UNCHANGED <<recs, o, o2p>> /\ p'.start = p.start /\ p'.end = p.end /\ p.pc = "verify"
        /\ p'.round = p.round /\ p'.epoch = p.epoch /\ p'.pc = "release"
    BY <1>7, ProverEffects DEF MoveRejects, Quiet, SameRound
  <2>2. p.end + 1 = p.idx /\ recs[p.idx].epoch # p.epoch /\ Flow = "batch"
    BY <1>7, <2>1, RejectedLater DEF MoveRejects
  <2> QED
    BY <2>1, <2>2 DEF WholeEpoch, Last
<1>8. CASE MoveRelease
  <2>1. /\ UNCHANGED <<recs, o, o2p>> /\ p'.start = p.start /\ p'.end = p.end /\ p.pc = "release"
        /\ p'.round = p.round /\ p'.epoch = p.epoch /\ p'.pc = "open"
    BY <1>8, ProverEffects DEF MoveRelease, Quiet, SameRound
  <2> QED
    BY <2>1 DEF WholeEpoch, Last
<1>9. CASE MoveOpen
  <2>1. /\ UNCHANGED <<recs, o, o2p>> /\ p'.start = p.start /\ p'.end = p.end /\ p.pc = "open"
        /\ p'.round = p.round /\ p'.epoch = p.epoch /\ p'.pc \in {"replay", "rotate_server"}
        /\ p'.pc = "rotate_server" => Flow = "batch"
    BY <1>9, ProverEffects DEF MoveOpen, Quiet, SameRound
  <2>2. p'.pc = "rotate_server" => p.end < Len(recs)
    <3>1. p.end <= Len(recs)
      BY <2>1 DEF Inv, Checked
    <3>2. p'.pc = "rotate_server" => p.end # Len(recs)
      BY <1>9 DEF MoveOpen, To, Provers
    <3> QED
      BY <3>1, <3>2
  <2> QED
    BY <2>1, <2>2 DEF WholeEpoch, Last
<1>10. CASE MoveServer
  <2>1. CASE Flow = "epoch"
    <3>1. p'.pc = "request"
      BY <1>10, <2>1, ProverEffects
    <3> QED
      BY <2>1, <3>1 DEF WholeEpoch
  <2>2. CASE Flow = "batch"
    <3>1. /\ p'.pc = "commit" /\ p'.start = p.end /\ recs' = Renumber(recs, p.end)
          /\ UNCHANGED <<o, o2p>> /\ p.pc = "rotate_server"
      BY <1>10, <2>2, ProverEffects DEF MoveServer
    <3>2. Len(recs') = Len(recs)
      BY <3>1, RenumberTyped DEF Types, RTypeOK
    <3> QED
      BY <2>2, <3>1, <3>2 DEF WholeEpoch
  <2> QED
    BY <2>1, <2>2
<1> QED
  BY <1>1, <1>2, <1>3, <1>4, <1>5, <1>6, <1>7, <1>8, <1>9, <1>10 DEF Move

\* The prover's round never falls behind what it has sent.
LEMMA RoundGrows ==
    ASSUME Inv, Move
    PROVE  /\ p.round \in Nat /\ p'.round \in Nat /\ p.round <= p'.round
           /\ p'.round # p.round => p.round < NRequests
<1>0. p.round \in 1 .. NRequests /\ NRequests \in Nat
  BY RotateAssumption DEF Inv, Types, RTypeOK, Provers
<1>1. CASE MoveServer
  <2>1. CASE Flow = "epoch"
    <3>1. p'.round = p.round + 1 /\ ~Last
      BY <1>1, <2>1, ProverEffects DEF MoveServer, Inv, KeysInStep
    <3> QED
      BY <1>0, <3>1 DEF Last
  <2>2. CASE Flow = "batch"
    <3>1. p'.round = p.round
      BY <1>1, <2>2, ProverEffects
    <3> QED
      BY <1>0, <3>1
  <2> QED
    BY <2>1, <2>2, RotateAssumption
<1>2. CASE ~MoveServer
  <2>1. p'.round = p.round
    BY <1>2, ProverEffects, CaptureEffects DEF Move, SameRound, MoveIdle, MoveOrigin
  <2> QED
    BY <1>0, <2>1
<1> QED
  BY <1>1, <1>2

\* What the prover and the verifier do to the records on their way to the origin.
LEMMA SentGrows ==
    ASSUME Inv, Move, ~MoveOrigin
    PROVE  \/ p2o' = p2o
           \/ /\ Running /\ \E kind \in {"req", "ku"} :
                    /\ p2o' = Append(p2o, Sealed1(kind)) /\ Sealed1(kind) \in Requests
                    /\ Sealed1(kind).key = p.ckey /\ Sealed1(kind).resp = p.round
                    /\ Sealed1(kind).kind = kind /\ NextKey = p.ckey
                    /\ NextKey' = IF kind = "ku" THEN p.ckey + 2 ELSE p.ckey
<1>0. p \in Provers /\ p.ckey \in Nat /\ p.wseq \in Nat /\ p.round \in 1 .. NRequests
  BY ProverFields DEF Inv, Types, RTypeOK, Provers, Shares
<1>1. CASE MoveRequest
  <2>1. p.ckey = ckey /\ Running /\ NextKey = p.ckey
    BY <1>1 DEF MoveRequest, Inv, KeysInStep, Running, NextKey
  <2>2. p'.ckey = p.ckey /\ p'.pc # "rotate_client"
    BY <1>1, ProverEffects DEF SameKeys
  <2>3. Sealed1("req") = [kind |-> "req", key |-> p.ckey, seq |-> p.wseq, resp |-> p.round]
    BY <2>1 DEF Sealed1
  <2>4. Sealed1("req") \in Requests /\ Sealed1("req").key = p.ckey
        /\ Sealed1("req").resp = p.round /\ Sealed1("req").kind = "req"
    BY <1>0, <2>3 DEF Requests
  <2> QED
    BY <1>1, <2>1, <2>2, <2>4 DEF MoveRequest, NextKey
<1>2. CASE MoveUpdate
  <2>1. p.ckey = ckey /\ Running /\ NextKey = p.ckey
    BY <1>2 DEF MoveUpdate, Inv, KeysInStep, Running, NextKey
  <2>2. p'.ckey = p.ckey /\ p'.pc = "rotate_client"
    BY <1>2, ProverEffects DEF SameKeys
  <2>3. Sealed1("ku") = [kind |-> "ku", key |-> p.ckey, seq |-> p.wseq, resp |-> p.round]
    BY <2>1 DEF Sealed1
  <2>4. Sealed1("ku") \in Requests /\ Sealed1("ku").key = p.ckey
        /\ Sealed1("ku").resp = p.round /\ Sealed1("ku").kind = "ku"
    BY <1>0, <2>3 DEF Requests
  <2> QED
    BY <1>2, <2>1, <2>2, <2>4 DEF MoveUpdate, NextKey
<1>3. CASE ~MoveRequest /\ ~MoveUpdate
  BY <1>3 DEF Move, MoveIdle, MoveFails, MoveEstablish, MoveOn, MoveClient, MoveCapture,
              MovePasses, MoveRejects, MoveRelease, MoveOpen, MoveServer, Quiet
<1> QED
  BY <1>1, <1>2, <1>3

\* The key of the prover's next record otherwise stays.
LEMMA NextKeyStays ==
    ASSUME Inv, Move, ~MoveUpdate, ~MoveEstablish, Running'
    PROVE  Running /\ NextKey' = NextKey
<1>0. p \in Provers
  BY DEF Inv, Types, RTypeOK
<1>1. CASE MoveClient
  <2>1. p.pc = "rotate_client" /\ p'.pc = "drain" /\ p'.ckey = fresh + 1
    BY <1>1, ProverEffects DEF MoveClient
  <2>2. /\ p.epoch \in Nat /\ Flow = "epoch" /\ fresh = skey /\ skey = ServerKey(p.epoch)
        /\ p.ckey = ClientKey(p.epoch)
    BY <1>0, <2>1 DEF Inv, KeysInStep, Running, ClientTurned, Provers
  <2>3. p'.ckey = p.ckey + 2
    BY <2>1, <2>2 DEF ServerKey, ClientKey
  <2> QED
    BY <2>1, <2>3 DEF Running, NextKey
<1>2. CASE MoveIdle \/ MoveOrigin
  BY <1>2 DEF MoveIdle, MoveOrigin, Running, NextKey
<1>3. CASE MoveCapture
  BY <1>3, CaptureEffects DEF SameKeys, Running, NextKey
<1>4. CASE MoveOn \/ MoveRequest \/ MovePasses \/ MoveRejects \/ MoveRelease \/ MoveOpen
  <2>1. p'.ckey = p.ckey /\ p'.pc # "rotate_client" /\ p.pc # "rotate_client" /\ Running
    BY <1>4, ProverEffects
       DEF SameKeys, AfterReplay, Running, MoveRequest, MovePasses, MoveRejects, MoveRelease,
           MoveOpen
  <2> QED
    BY <2>1 DEF NextKey
<1>5. CASE MoveServer
  BY <1>5, ProverEffects, RotateAssumption DEF MoveServer, Running, NextKey
<1>6. CASE MoveFails
  BY <1>6, ProverEffects DEF Running
<1> QED
  BY <1>1, <1>2, <1>3, <1>4, <1>5, <1>6 DEF Move

-----------------------------------------------------------------------------
(* The origin, as long as its connection holds *)

Sends(kinds) == \E r \in Records : r.kind \in kinds /\ o2p' = Append(o2p, r)
SameTurn == o'.rkey = o.rkey /\ o'.wkey = o.wkey /\ o'.updates = o.updates
SameTask == o'.served = o.served /\ o'.todo = o.todo /\ ~o'.closed

\* In a list of records to write, the close stands last and follows the last
\* response.
ClosesAfter(todo, served) ==
    \A i \in 1 .. Len(todo) : todo[i] = "close" => i = Len(todo) /\ served = NRequests

OriginDoes ==
    /\ ~o.closed /\ UNCHANGED <<recs, p>>
    /\ \/ /\ p2o # <<>> /\ p2o' = Tail(p2o) /\ p2o[1].kind = "ku"
          /\ o'.rkey = o.rkey + 1 /\ o'.wkey = o.wkey + 1 /\ o'.updates = o.updates
          /\ SameTask /\ Sends({"ku"})
       \/ /\ p2o # <<>> /\ p2o' = Tail(p2o) /\ SameTurn /\ o2p' = o2p
          /\ o'.served = p2o[1].resp /\ ~o'.closed /\ ClosesAfter(o'.todo, o'.served)
       \/ /\ o.todo # <<>> /\ p2o' = p2o /\ SameTurn
          /\ o'.served = o.served /\ o'.todo = Tail(o.todo)
          /\ o'.closed <=> o.todo[1] = "close"
          /\ Sends({o.todo[1]})
       \/ /\ p2o' = p2o /\ SameTask /\ o'.rkey = o.rkey
          /\ \/ o'.wkey = o.wkey /\ o'.updates = o.updates
             \/ o'.wkey = o.wkey + 1 /\ o'.updates = o.updates + 1 /\ o.updates < MaxUpdates
          /\ Sends({"nst", "ku"})

LEMMA ResponsesOpen ==
    ASSUME NEW kinds \in Responses
    PROVE  /\ \A s : ClosesAfter(kinds, s)
           /\ ClosesAfter(Append(kinds, "close"), NRequests)
<1>1. PICK n \in 1 .. MaxResponse :
          kinds \in [1 .. n -> IF Short THEN {"app", "short"} ELSE {"app"}]
  BY DEF Responses
<1>2. n \in Nat
  BY RotateAssumption
<1>3. kinds \in [1 .. n -> {"app", "short"}]
  BY <1>1
<1>4. kinds \in Seq({"app", "short"})
  BY <1>2, <1>3
<1>5. \A i \in 1 .. Len(kinds) : kinds[i] # "close"
  BY <1>4
<1>6. /\ Len(Append(kinds, "close")) = Len(kinds) + 1 /\ Len(kinds) \in Nat
      /\ \A i \in 1 .. Len(kinds) : Append(kinds, "close")[i] = kinds[i]
  BY <1>4
<1>7. \A i \in 1 .. Len(kinds) + 1 : i # Len(kinds) + 1 => i \in 1 .. Len(kinds)
  BY <1>6
<1> QED
  BY <1>5, <1>6, <1>7 DEF ClosesAfter

LEMMA OriginActs == Inv /\ MoveOrigin /\ ~OriginGone => OriginDoes
<1> SUFFICES ASSUME Inv, MoveOrigin, ~OriginGone PROVE OriginDoes
  OBVIOUS
<1>0. /\ o \in Origins /\ p2o \in Seq(Requests) /\ o2p \in Seq(Records)
      /\ SentInOrder /\ Types /\ UNCHANGED <<recs, p>>
  BY DEF Inv, Types, RTypeOK, MoveOrigin
<1>a. \A kind \in Kinds, resp \in Nat :
         Out(kind, resp) \in Records /\ Out(kind, resp).kind = kind
  BY <1>0 DEF Out, Records, Origins
<1>b. \A kind \in Kinds, resp \in Nat : o2p' = Append(o2p, Out(kind, resp)) => Sends({kind})
  BY <1>a DEF Sends
<1>1. ASSUME NEW kinds \in Responses, OriginReads(kinds) PROVE OriginDoes
  <2> DEFINE m == Head(p2o)
  <2>1. /\ p2o # <<>> /\ ~o.closed /\ p2o' = Tail(p2o) /\ m = p2o[1] /\ m \in Requests
    BY <1>0, <1>1 DEF OriginReads, Reading
  <2>2. Fits(m)
    BY <1>0, <2>1 DEF SentInOrder, Fits
  <2> HIDE DEF m
  <2>3. CASE m.kind = "ku"
    <3>1. /\ o' = [Updated(o) EXCEPT !.rkey = @ + 1, !.rseq = 0]
          /\ o2p' = Append(o2p, Out("ku", 0))
      BY <1>1, <2>2, <2>3 DEF OriginReads, m
    <3>2. o'.rkey = o.rkey + 1 /\ o'.wkey = o.wkey + 1 /\ o'.updates = o.updates
          /\ o'.served = o.served /\ o'.todo = o.todo
      BY <1>0, <3>1 DEF Updated, Origins
    <3>3. ~o'.closed
      BY <1>0, <2>1, <3>1, Zenon DEF Updated, Origins
    <3>4. Sends({"ku"})
      BY <1>b, <3>1 DEF Kinds
    <3> QED
      BY <1>0, <2>1, <2>3, <3>2, <3>3, <3>4 DEF OriginDoes, SameTask
  <2>4. CASE m.kind # "ku"
    <3>1. /\ o' = [o EXCEPT !.rseq = @ + 1, !.served = m.resp,
                            !.todo = IF m.resp = NRequests
                                     THEN Append(kinds, "close") ELSE kinds]
          /\ o2p' = o2p
      BY <1>1, <2>2, <2>4 DEF OriginReads, m
    <3>2. SameTurn /\ o'.served = m.resp
          /\ o'.todo = IF m.resp = NRequests THEN Append(kinds, "close") ELSE kinds
      BY <1>0, <3>1 DEF Origins, SameTurn
    <3>3. ~o'.closed
      BY <1>0, <2>1, <3>1, Zenon DEF Origins
    <3>4. ClosesAfter(o'.todo, o'.served)
      BY <3>2, ResponsesOpen
    <3> QED
      BY <1>0, <2>1, <3>1, <3>2, <3>3, <3>4 DEF OriginDoes
  <2> QED
    BY <2>3, <2>4
<1>2. CASE OriginWrites
  <2> DEFINE kind == Head(o.todo)
             resp == IF kind = "close" THEN 0 ELSE o.served
  <2>1. /\ o.todo # <<>> /\ ~o.closed /\ o2p' = Append(o2p, Out(kind, resp)) /\ p2o' = p2o
        /\ o' = [o EXCEPT !.wseq = @ + 1, !.todo = Tail(@), !.closed = kind = "close"]
    BY <1>2 DEF OriginWrites
  <2>2. kind \in Kinds /\ kind = o.todo[1]
    BY <1>0, <2>1 DEF ToWrite, Kinds, Origins
  <2>3. resp \in Nat
    BY <1>0, RotateAssumption DEF Origins
  <2> HIDE DEF kind, resp
  <2>4. SameTurn /\ o'.served = o.served /\ o'.todo = Tail(o.todo)
    BY <1>0, <2>1 DEF Origins, SameTurn
  <2>5. o'.closed <=> kind = "close"
    BY <1>0, <2>1, Zenon DEF Origins
  <2>6. Sends({kind})
    BY <1>b, <2>1, <2>2, <2>3
  <2> QED
    BY <1>0, <2>1, <2>2, <2>4, <2>5, <2>6 DEF OriginDoes
<1>3. CASE OriginTicket
  <2>1. /\ ~o.closed /\ o2p' = Append(o2p, Out("nst", 0)) /\ p2o' = p2o
        /\ o' = [o EXCEPT !.wseq = @ + 1, !.tickets = @ + 1]
    BY <1>3 DEF OriginTicket
  <2>2. SameTurn /\ o'.served = o.served /\ o'.todo = o.todo
    BY <1>0, <2>1 DEF Origins, SameTurn
  <2>3. ~o'.closed
    BY <1>0, <2>1, Zenon DEF Origins
  <2>4. Sends({"nst", "ku"})
    BY <1>a, <2>1 DEF Kinds, Sends
  <2> QED
    BY <1>0, <2>1, <2>2, <2>3, <2>4 DEF OriginDoes, SameTurn, SameTask
<1>4. CASE OriginUpdatesItself
  <2>1. /\ ~o.closed /\ o2p' = Append(o2p, Out("ku", 0)) /\ p2o' = p2o
        /\ o' = [Updated(o) EXCEPT !.updates = @ + 1] /\ o.updates < MaxUpdates
    BY <1>4 DEF OriginUpdatesItself
  <2>2. /\ o'.rkey = o.rkey /\ o'.wkey = o.wkey + 1 /\ o'.updates = o.updates + 1
        /\ o'.served = o.served /\ o'.todo = o.todo
    BY <1>0, <2>1 DEF Origins, Updated
  <2>3. ~o'.closed
    BY <1>0, <2>1, Zenon DEF Origins, Updated
  <2>4. Sends({"nst", "ku"})
    BY <1>a, <2>1 DEF Kinds, Sends
  <2> QED
    BY <1>0, <2>1, <2>2, <2>3, <2>4 DEF OriginDoes, SameTask
<1> QED
  BY <1>1, <1>2, <1>3, <1>4 DEF MoveOrigin

LEMMA ClosesKept ==
    ASSUME Inv, ClosesLast, Move, ~OriginGone, Types'
    PROVE  ClosesLast'
<1>0. /\ Types /\ N \in Nat /\ p2o \in Seq(Requests) /\ o.todo \in ToWrite /\ o.served \in Nat
      /\ o'.served \in Nat /\ p.round \in Nat /\ p'.round \in Nat /\ p.round <= p'.round
      /\ NRequests \in Nat /\ o2p \in Seq(Records) /\ p'.round <= NRequests
      /\ p'.round # p.round => p.round < NRequests
  <2>1. Types /\ p2o \in Seq(Requests) /\ o2p \in Seq(Records) /\ N \in Nat
    BY Elements DEF Inv, Types, RTypeOK
  <2>2. /\ o.todo \in ToWrite /\ o.served \in 0 .. NRequests /\ o'.served \in 0 .. NRequests
        /\ p'.round \in 1 .. NRequests /\ NRequests \in Nat
    BY RotateAssumption DEF Inv, Types, RTypeOK, Origins, Provers
  <2> QED
    BY <2>1, <2>2, RoundGrows
<1>a. \A i \in 1 .. Len(p2o) : p2o[i] \in Requests /\ p2o[i].resp \in Nat /\ p2o[i].resp <= p.round
  <2>1. \A i \in 1 .. Len(p2o) : p2o[i] \in Requests
    BY <1>0
  <2>2. \A r \in Requests : r.resp \in Nat
    BY <1>0 DEF Requests
  <2> QED
    BY <2>1, <2>2 DEF ClosesLast
<1>1. CASE ~MoveOrigin
  <2>1. o' = o /\ N' = N /\ \A i \in 1 .. N : At(i)'.kind = At(i).kind
    BY <1>1, StreamStays DEF Alike
  <2>2. o.closed => p'.round = NRequests
    BY <1>0 DEF ClosesLast
  <2>3. \A i \in 1 .. Len(p2o') : p2o'[i].resp <= p'.round
    <3>1. CASE p2o' = p2o
      BY <1>0, <1>a, <3>1
    <3>2. CASE p2o' # p2o
      <4>1. PICK r \in Requests : p2o' = Append(p2o, r) /\ r.resp = p.round
        BY <1>1, <3>2, SentGrows
      <4>2. \A i \in 1 .. Len(p2o') : p2o'[i] = r \/ (i \in 1 .. Len(p2o) /\ p2o'[i] = p2o[i])
        BY <1>0, <4>1
      <4> QED
        BY <1>0, <1>a, <4>1, <4>2
    <3> QED
      BY <3>1, <3>2
  <2>4. o'.served <= p'.round
    BY <1>0, <2>1 DEF ClosesLast
  <2> QED
    BY <2>1, <2>2, <2>3, <2>4 DEF ClosesLast
<1>2. CASE MoveOrigin
  <2>0. OriginDoes /\ ~o.closed /\ p' = p /\ recs' = recs
    BY <1>2, OriginActs DEF OriginDoes
  <2>1. \A i \in 1 .. N : At(i).kind # "close"
    BY <2>0 DEF ClosesLast
  <2>2. ASSUME p2o' = p2o \/ (p2o # <<>> /\ p2o' = Tail(p2o))
        PROVE  \A i \in 1 .. Len(p2o') : p2o'[i].resp <= p'.round
    <3>1. CASE p2o' = p2o
      BY <1>a, <2>0, <3>1
    <3>2. CASE p2o # <<>> /\ p2o' = Tail(p2o)
      <4>1. /\ Len(p2o) \in Nat /\ Len(p2o') = Len(p2o) - 1
            /\ \A i \in 1 .. Len(p2o) - 1 : p2o'[i] = p2o[i + 1]
        BY <1>0, <3>2, TailFacts
      <4>2. \A i \in 1 .. Len(p2o) - 1 : i + 1 \in 1 .. Len(p2o)
        BY <4>1
      <4> QED
        BY <1>a, <2>0, <4>1, <4>2
    <3> QED
      BY <2>2, <3>1, <3>2
  <2>3. ASSUME NEW S, Sends(S), "close" \notin S, ~o'.closed
        PROVE  \A i \in 1 .. N' : At(i)'.kind # "close"
    <3>1. PICK r \in Records : r.kind \in S /\ o2p' = Append(o2p, r)
      BY <2>3 DEF Sends
    <3>2. /\ N' = N + 1 /\ \A i \in 1 .. N : At(i)' = At(i)
          /\ \A i \in 1 .. N + 1 : i = N + 1 => At(i)' = r
      BY <1>0, <2>0, <3>1, StreamGrows
    <3>3. ASSUME NEW i \in 1 .. N + 1 PROVE At(i)'.kind # "close"
      <4>1. CASE i = N + 1
        BY <2>3, <3>1, <3>2, <4>1
      <4>2. CASE i # N + 1
        <5>1. i \in 1 .. N
          BY <1>0, <4>2
        <5> QED
          BY <2>1, <3>2, <5>1
      <4> QED
        BY <4>1, <4>2
    <3> QED
      BY <3>2, <3>3
  <2>4. ASSUME SameTask, Sends({"ku"}) \/ Sends({"nst", "ku"}),
               p2o' = p2o \/ (p2o # <<>> /\ p2o' = Tail(p2o))
        PROVE  ClosesLast'
    <3>1. \A i \in 1 .. N' : At(i)'.kind # "close"
      BY <2>3, <2>4 DEF SameTask
    <3> QED
      BY <2>0, <2>2, <2>4, <3>1 DEF ClosesLast, SameTask
  <2>5. CASE /\ p2o # <<>> /\ p2o' = Tail(p2o) /\ o2p' = o2p
             /\ o'.served = p2o[1].resp /\ ~o'.closed /\ ClosesAfter(o'.todo, o'.served)
    <3>1. N' = N /\ \A i \in 1 .. N : At(i)' = At(i)
      BY <2>0, <2>5 DEF N, At
    <3>2. o'.served <= p'.round
      <4>1. 1 \in 1 .. Len(p2o)
        BY <1>0, <2>5
      <4> QED
        BY <1>a, <2>0, <2>5, <4>1
    <3> QED
      BY <2>1, <2>2, <2>5, <3>1, <3>2 DEF ClosesLast, ClosesAfter
  <2>6. CASE /\ o.todo # <<>> /\ p2o' = p2o
             /\ o'.served = o.served /\ o'.todo = Tail(o.todo)
             /\ o'.closed <=> o.todo[1] = "close"
             /\ Sends({o.todo[1]})
    <3>1. /\ Len(o.todo) \in Nat /\ Len(o.todo) > 0 /\ Len(o'.todo) = Len(o.todo) - 1
          /\ \A i \in 1 .. Len(o.todo) - 1 : o'.todo[i] = o.todo[i + 1]
      BY <1>0, <2>6, TailFacts DEF ToWrite
    <3>2. \A i \in 1 .. Len(o'.todo) :
             o'.todo[i] = "close" => i = Len(o'.todo) /\ o'.served = NRequests
      <4> SUFFICES ASSUME NEW i \in 1 .. Len(o'.todo), o'.todo[i] = "close"
                   PROVE  i = Len(o'.todo) /\ o'.served = NRequests
        OBVIOUS
      <4>1. i + 1 \in 1 .. Len(o.todo) /\ o.todo[i + 1] = "close"
        BY <3>1
      <4>2. i + 1 = Len(o.todo) /\ o.served = NRequests
        BY <4>1 DEF ClosesLast
      <4> QED
        BY <2>6, <3>1, <4>2
    <3>3. CASE o.todo[1] = "close"
      <4>1. o.served = NRequests /\ 1 \in 1 .. Len(o.todo)
        BY <3>1, <3>3 DEF ClosesLast
      <4>2. p.round = NRequests
        BY <1>0, <2>0, <4>1 DEF ClosesLast
      <4>3. PICK r \in Records : r.kind = "close" /\ o2p' = Append(o2p, r)
        BY <2>6, <3>3 DEF Sends
      <4>4. /\ N' = N + 1 /\ \A i \in 1 .. N : At(i)' = At(i)
            /\ \A i \in 1 .. N + 1 : i = N + 1 => At(i)' = r
        BY <1>0, <2>0, <4>3, StreamGrows
      <4>5. \A i \in 1 .. N' : At(i)'.kind = "close" => i = N'
        <5> SUFFICES ASSUME NEW i \in 1 .. N + 1, i # N + 1 PROVE At(i)'.kind # "close"
          BY <4>4
        <5>1. i \in 1 .. N
          BY <1>0
        <5> QED
          BY <2>1, <4>4, <5>1
      <4>6. N' > 0 /\ \A i \in 1 .. N' : i = N' => At(i)'.kind = "close"
        BY <1>0, <4>3, <4>4
      <4>7. o'.closed
        BY <2>6, <3>3
      <4> QED
        BY <2>0, <2>2, <2>6, <3>2, <4>2, <4>5, <4>6, <4>7 DEF ClosesLast
    <3>4. CASE o.todo[1] # "close"
      <4>1. \A i \in 1 .. N' : At(i)'.kind # "close"
        BY <2>3, <2>6, <3>4
      <4> QED
        BY <2>0, <2>2, <2>6, <3>2, <3>4, <4>1 DEF ClosesLast
    <3> QED
      BY <3>3, <3>4
  <2> QED
    BY <2>0, <2>4, <2>5, <2>6 DEF OriginDoes
<1> QED
  BY <1>1, <1>2

LEMMA AnsweredKept ==
    ASSUME Inv, UpdatesAnswered, Move, ~OriginGone, Types'
    PROVE  UpdatesAnswered'
<1>0. /\ Types /\ p2o \in Seq(Requests) /\ p \in Provers /\ p.ckey \in Nat /\ MaxUpdates \in Nat
      /\ o.rkey \in Nat /\ o.wkey \in Nat /\ o.updates \in Nat /\ NextKey \in Nat /\ NextKey' \in Nat
  <2>1. p.ckey \in Shares /\ p'.ckey \in Shares
    BY ProverFields DEF Inv, Types, RTypeOK, Provers
  <2>2. p.ckey \in Nat /\ p'.ckey \in Nat
    BY <2>1, MaxKeyAssumption DEF Shares
  <2>3. Types /\ p2o \in Seq(Requests) /\ p \in Provers /\ o \in Origins
    BY DEF Inv, Types, RTypeOK
  <2>4. o.rkey \in Nat /\ o.wkey \in Nat /\ o.updates \in Nat
    BY <2>3 DEF Origins
  <2>5. NextKey \in Nat /\ NextKey' \in Nat
    BY <2>2 DEF NextKey
  <2> QED
    BY <2>2, <2>3, <2>4, <2>5, RotateAssumption
<1>a. \A i \in 1 .. Len(p2o) : p2o[i] \in Requests /\ p2o[i].key \in Nat
  <2>1. \A i \in 1 .. Len(p2o) : p2o[i] \in Requests
    BY <1>0
  <2>2. \A r \in Requests : r.key \in Nat
    BY DEF Requests
  <2> QED
    BY <2>1, <2>2
<1>1. CASE ~MoveOrigin
  <2>1. o' = o
    BY <1>1, StreamStays
  <2>2. CASE ~Running'
    BY <2>1, <2>2 DEF UpdatesAnswered
  <2>3. CASE Running' /\ MoveEstablish
    <3>1. p2o = <<>> /\ o.rkey = 0 /\ fresh = 0 /\ p'.pc = "request" /\ p'.ckey = fresh + 1
          /\ p2o' = p2o
      BY <2>3, ProverEffects DEF MoveEstablish, Inv, SentInOrder, KeysInStep, Quiet
    <3>2. NextKey' = 1 /\ ClientKey(0) = 1
      BY <3>1 DEF NextKey, ClientKey
    <3> QED
      BY <2>1, <3>1, <3>2 DEF UpdatesAnswered, ClientKey
  <2>4. CASE Running' /\ ~MoveEstablish /\ p2o' = p2o
    <3>1. Running /\ (NextKey' = NextKey \/ MoveUpdate)
      BY <2>4, NextKeyStays DEF Running, MoveUpdate
    <3>2. MoveUpdate => p2o' # p2o
      <4> SUFFICES ASSUME MoveUpdate PROVE p2o' # p2o
        OBVIOUS
      <4>1. Len(Append(p2o, Sealed1("ku"))) = Len(p2o) + 1 /\ Len(p2o) \in Nat
        BY <1>0
      <4> QED
        BY <4>1 DEF MoveUpdate
    <3> QED
      BY <2>1, <2>4, <3>1, <3>2 DEF UpdatesAnswered, ClientKey
  <2>5. CASE Running' /\ p2o' # p2o
    <3>1. PICK kind \in {"req", "ku"} :
             /\ p2o' = Append(p2o, Sealed1(kind)) /\ Sealed1(kind) \in Requests
             /\ Sealed1(kind).key = p.ckey /\ Sealed1(kind).kind = kind
             /\ NextKey = p.ckey /\ Running
             /\ NextKey' = IF kind = "ku" THEN p.ckey + 2 ELSE p.ckey
      BY <1>1, <2>5, SentGrows
    <3> DEFINE r == Sealed1(kind)
    <3>2. r \in Requests /\ p2o' = Append(p2o, r) /\ r.key = p.ckey /\ r.kind = kind
      BY <3>1
    <3> HIDE DEF r
    <3>3. \A i \in 1 .. Len(p2o') : p2o'[i] = r \/ (i \in 1 .. Len(p2o) /\ p2o'[i] = p2o[i])
      BY <1>0, <3>2
    <3>4. NextKey <= NextKey'
      BY <1>0, <3>1
    <3>5. r.key <= NextKey' /\ (r.kind = "ku" => r.key + 2 <= NextKey')
      BY <1>0, <3>1, <3>2
    <3>a. \A i \in 1 .. Len(p2o) :
             p2o[i].key <= NextKey /\ (p2o[i].kind = "ku" => p2o[i].key + 2 <= NextKey)
      BY <3>1 DEF UpdatesAnswered
    <3>b. NextKey \in Nat /\ NextKey' \in Nat
      BY <1>0
    <3>6. \A i \in 1 .. Len(p2o) :
             p2o[i].key <= NextKey' /\ (p2o[i].kind = "ku" => p2o[i].key + 2 <= NextKey')
      <4> HIDE DEF NextKey
      <4> QED
        BY <1>a, <3>4, <3>a, <3>b
    <3>7. ClientKey(o.rkey) <= NextKey'
      <4>1. ClientKey(o.rkey) <= NextKey /\ ClientKey(o.rkey) \in Nat
        BY <1>0, <3>1, ServerKeys DEF UpdatesAnswered
      <4> QED
        BY <1>0, <3>4, <4>1
    <3>8. \A i \in 1 .. Len(p2o') :
             p2o'[i].key <= NextKey' /\ (p2o'[i].kind = "ku" => p2o'[i].key + 2 <= NextKey')
      BY <3>3, <3>5, <3>6
    <3> QED
      BY <2>1, <3>7, <3>8 DEF UpdatesAnswered, ClientKey
  <2> QED
    BY <2>2, <2>3, <2>4, <2>5
<1>2. CASE MoveOrigin
  <2>0. OriginDoes /\ p' = p
    BY <1>2, OriginActs DEF OriginDoes
  <2>1. (Running' <=> Running) /\ NextKey' = NextKey
    BY <2>0 DEF Running, NextKey
  <2>2. o'.updates <= MaxUpdates /\ o'.wkey = o'.rkey + o'.updates
    <3>1. o.updates <= MaxUpdates /\ o.wkey = o.rkey + o.updates
      BY DEF UpdatesAnswered
    <3>2. \/ o'.rkey = o.rkey /\ o'.wkey = o.wkey /\ o'.updates = o.updates
          \/ /\ o'.rkey = o.rkey /\ o'.wkey = o.wkey + 1 /\ o'.updates = o.updates + 1
             /\ o.updates < MaxUpdates
          \/ o'.rkey = o.rkey + 1 /\ o'.wkey = o.wkey + 1 /\ o'.updates = o.updates
      BY <2>0 DEF OriginDoes, SameTurn
    <3>3. o.rkey \in Nat /\ o.wkey \in Nat /\ o.updates \in Nat /\ MaxUpdates \in Nat
      BY <1>0, RotateAssumption
    <3> QED
      BY <3>1, <3>2, <3>3
  <2>3. ASSUME Running
        PROVE  /\ ClientKey(o'.rkey) <= NextKey
               /\ \A i \in 1 .. Len(p2o') :
                     p2o'[i].key <= NextKey /\ (p2o'[i].kind = "ku" => p2o'[i].key + 2 <= NextKey)
    <3>1. CASE p2o' = p2o /\ o'.rkey = o.rkey
      BY <2>3, <3>1 DEF UpdatesAnswered
    <3>2. CASE p2o # <<>> /\ p2o' = Tail(p2o)
      <4>1. /\ Len(p2o) \in Nat /\ Len(p2o) > 0 /\ Len(p2o') = Len(p2o) - 1
            /\ \A i \in 1 .. Len(p2o) - 1 : p2o'[i] = p2o[i + 1] /\ i + 1 \in 1 .. Len(p2o)
        <5>1. /\ Len(p2o) \in Nat /\ Len(p2o) > 0 /\ Len(p2o') = Len(p2o) - 1
              /\ \A i \in 1 .. Len(p2o) - 1 : p2o'[i] = p2o[i + 1]
          BY <1>0, <3>2, TailFacts
        <5> QED
          BY <5>1
      <4>2. \A i \in 1 .. Len(p2o') :
               p2o'[i].key <= NextKey /\ (p2o'[i].kind = "ku" => p2o'[i].key + 2 <= NextKey)
        BY <2>3, <4>1 DEF UpdatesAnswered
      <4>3. \/ o'.rkey = o.rkey
            \/ o'.rkey = o.rkey + 1 /\ p2o[1].kind = "ku"
        <5>1. p2o' # p2o
          BY <4>1
        <5> QED
          BY <2>0, <5>1 DEF OriginDoes, SameTurn
      <4>4. p2o[1].key = ClientKey(o.rkey) /\ 1 \in 1 .. Len(p2o)
        BY <3>2, <4>1 DEF Inv, SentInOrder
      <4>5. ClientKey(o.rkey) <= NextKey /\ (p2o[1].kind = "ku" => ClientKey(o.rkey) + 2 <= NextKey)
        BY <2>3, <4>4 DEF UpdatesAnswered
      <4>6. ClientKey(o'.rkey) <= NextKey
        BY <1>0, <4>3, <4>5 DEF ClientKey
      <4> QED
        BY <4>2, <4>6
    <3> QED
      BY <2>0, <3>1, <3>2 DEF OriginDoes, SameTurn
  <2> QED
    BY <2>1, <2>2, <2>3 DEF UpdatesAnswered, ClientKey
<1> QED
  BY <1>1, <1>2

-----------------------------------------------------------------------------
(* No failure without a reason *)

LEMMA ExcusedInit == RInit => Excused
<1> SUFFICES ASSUME RInit PROVE Smooth
  BY InvInit DEF Excused
<1>0. /\ p.pc = "setup" /\ p.round = 1 /\ p.start = 0
      /\ o.todo = <<>> /\ o.served = 0 /\ o.rkey = 0 /\ o.wkey = 0 /\ o.updates = 0
      /\ recs = <<>> /\ o2p = <<>> /\ p2o = <<>>
      /\ state = "ACCEPT" /\ encrypted_seqs = <<>>
  BY DEF RInit, Init
<1>1. ~key_committed /\ ~key_released /\ ~o.closed
  BY DEF RInit, Init
<1>2. N = 0
  BY <1>0 DEF N
<1>3. InTouch /\ GatesOpen
  BY <1>0, <1>1 DEF InTouch, GatesOpen, Running
<1>4. NumbersUsed
  BY <1>0 DEF NumbersUsed
<1>5. ClosesLast
  BY <1>0, <1>1, <1>2 DEF ClosesLast
<1>6. UpdatesAnswered
  BY <1>0, RotateAssumption DEF UpdatesAnswered, Running
<1>7. WholeEpoch /\ NoShort
  BY <1>0 DEF WholeEpoch, NoShort
<1> QED
  BY <1>3, <1>4, <1>5, <1>6, <1>7 DEF Smooth

LEMMA ExcusedKept ==
    ASSUME Flow = "epoch" => ~Short /\ MaxUpdates = 0
    PROVE  Excused /\ [RNext]_rvars => Excused'
<1> SUFFICES ASSUME Excused, [RNext]_rvars, why' = {} PROVE Smooth'
  BY InvKept DEF Excused
<1>1. Inv /\ Move /\ Inv' /\ Types'
  BY StepsMove, InvKept DEF Excused, Inv
<1>2. why = {} /\ ~OriginGone
  BY <1>1 DEF Move, OriginGone
<1>3. Smooth /\ SmoothStep
  BY <1>1, <1>2, StepsSmooth DEF Excused
<1>4. /\ InTouch /\ GatesOpen /\ NumbersUsed /\ ClosesLast /\ UpdatesAnswered /\ WholeEpoch
      /\ NoShort
  BY <1>3 DEF Smooth
<1>5. InTouch' /\ GatesOpen' /\ NumbersUsed'
  BY <1>1, <1>3, <1>4, InTouchKept, GatesKept, UsedKept
<1>6. ClosesLast' /\ UpdatesAnswered'
  BY <1>1, <1>2, <1>4, ClosesKept, AnsweredKept
<1>7. WholeEpoch' /\ NoShort'
  BY <1>1, <1>3, <1>4, <1>5, WholeKept, ShortKept
<1> QED
  BY <1>5, <1>6, <1>7 DEF Smooth

LEMMA ExcusedImplies == Excused => NoSpuriousFailure
BY DEF Excused, Smooth, InTouch, NoSpuriousFailure

\* An attempt that loses no connection, runs into no timeout and gets its ticket
\* does not fail, whatever the number of requests, records, tickets and epochs:
\* the verifier is in a state that serves each header when the prover sends it,
\* its gates are open, every tag it is asked for matches and every epoch ends
\* where the release functions look for its end.  In the per-round flow this
\* needs an origin that updates its keys only when it is asked to and sends no
\* record of five bytes (drain_until takes such records for the end of the epoch).
THEOREM NothingSpurious ==
    ASSUME Flow = "epoch" => ~Short /\ MaxUpdates = 0
    PROVE  RSpec => []NoSpuriousFailure
<1>1. Excused /\ [RNext]_rvars => Excused'
  BY ExcusedKept
<1> QED
  BY <1>1, ExcusedInit, ExcusedImplies, PTL DEF RSpec

-----------------------------------------------------------------------------
(* The application data of a sequence of records *)

\* Induction over the natural numbers, in the form of sets.
LEMMA NatMin ==
    ASSUME NEW T, T \subseteq Nat, T # {}
    PROVE  \E x \in T : \A y \in T : x <= y
<1> DEFINE R == OpToRel(<, Nat)
<1>1. IsWellFoundedOn(R, Nat)
  BY NatLessThanWellFounded
<1>2. \A q \in Nat \X Nat : q \in R <=> q[1] < q[2]
  BY DEF OpToRel
<1> HIDE DEF R
<1>3. PICK x \in T : \A y \in T : ~(<<y, x>> \in R)
  BY <1>1, WFMin
<1>4. \A y \in T : ~(y < x)
  BY <1>2, <1>3
<1> QED
  BY <1>4

LEMMA SetInduction ==
    ASSUME NEW S, 0 \in S, \A n \in Nat : n \in S => n + 1 \in S
    PROVE  Nat \subseteq S
<1> SUFFICES ASSUME Nat \ S # {} PROVE FALSE
  OBVIOUS
<1> DEFINE T == Nat \ S
<1> HIDE DEF T
<1>0. T \subseteq Nat /\ T # {}
  BY DEF T
<1>1. PICK x \in T : \A y \in T : x <= y
  BY <1>0, NatMin
<1>2. x \in Nat /\ x # 0
  BY DEF T
<1>3. x - 1 \notin T
  BY <1>0, <1>1, <1>2
<1>4. x - 1 \in S
  BY <1>2, <1>3 DEF T
<1> QED
  BY <1>2, <1>4 DEF T

\* Record r was sealed before record s.
Earlier(r, s) == r.epoch < s.epoch \/ (r.epoch = s.epoch /\ r.oseq < s.oseq)

InOrder(rs) == \A i, j \in 1 .. Len(rs) : i < j => Earlier(rs[i], rs[j])

\* The recursive function of AppData, up to n.
Fronts(f, n, rs) ==
    f = [m \in 0 .. n |-> IF m = 0 THEN <<>>
                          ELSE IF IsAppData(rs[m]) THEN Append(f[m - 1], rs[m]) ELSE f[m - 1]]

\* Sequence a is what AppData finds in the first n records of rs.
Collects(a, n, rs) ==
    /\ a \in Seq(Records)
    /\ \A k \in 1 .. Len(a) : \E i \in 1 .. n : IsAppData(rs[i]) /\ a[k] = rs[i]
    /\ \A i \in 1 .. n : IsAppData(rs[i]) => \E k \in 1 .. Len(a) : a[k] = rs[i]
    /\ InOrder(rs) => InOrder(a)

LEMMA FrontsStep ==
    ASSUME NEW rs, NEW n \in Nat, NEW g, Fronts(g, n, rs)
    PROVE  \E f : Fronts(f, n + 1, rs)
<1> DEFINE x == IF IsAppData(rs[n + 1]) THEN Append(g[n], rs[n + 1]) ELSE g[n]
           f == [m \in 0 .. n + 1 |-> IF m = n + 1 THEN x ELSE g[m]]
<1>1. \A m \in 0 .. n : f[m] = g[m]
  OBVIOUS
<1>2. \A m \in 0 .. n :
         g[m] = IF m = 0 THEN <<>>
                ELSE IF IsAppData(rs[m]) THEN Append(g[m - 1], rs[m]) ELSE g[m - 1]
  BY DEF Fronts
<1>3. f[n + 1] = x
  OBVIOUS
<1> HIDE DEF f
<1>4. ASSUME NEW m \in 0 .. n + 1
      PROVE  f[m] = IF m = 0 THEN <<>>
                    ELSE IF IsAppData(rs[m]) THEN Append(f[m - 1], rs[m]) ELSE f[m - 1]
  <2>1. CASE m = n + 1
    BY <1>1, <1>3, <2>1
  <2>2. CASE m = 0
    BY <1>1, <1>2, <2>2
  <2>3. CASE m # n + 1 /\ m # 0
    <3>1. m \in 0 .. n /\ m - 1 \in 0 .. n
      BY <2>3
    <3>2. f[m] = g[m] /\ f[m - 1] = g[m - 1]
      BY <1>1, <3>1
    <3> HIDE DEF x
    <3> QED
      BY <1>2, <2>3, <3>1, <3>2
  <2> QED
    BY <2>1, <2>2, <2>3
<1>5. f = [m \in 0 .. n + 1 |-> f[m]]
  BY DEF f
<1>6. Fronts(f, n + 1, rs)
  BY <1>4, <1>5 DEF Fronts
<1> QED
  BY <1>6

LEMMA FrontsExist ==
    ASSUME NEW rs, NEW n \in Nat
    PROVE  \E f : Fronts(f, n, rs)
<1> DEFINE S == {m \in Nat : \E f : Fronts(f, m, rs)}
<1>1. 0 \in S
  <2>1. Fronts([m \in 0 .. 0 |-> <<>>], 0, rs)
    BY DEF Fronts
  <2> QED
    BY <2>1
<1>2. \A m \in Nat : m \in S => m + 1 \in S
  BY FrontsStep
<1> HIDE DEF S
<1>3. Nat \subseteq S
  BY <1>1, <1>2, SetInduction
<1> QED
  BY <1>3 DEF S

LEMMA CollectsStep ==
    ASSUME NEW rs \in Seq(Records), NEW n \in Nat, n < Len(rs),
           NEW a, Collects(a, n, rs)
    PROVE  Collects(IF IsAppData(rs[n + 1]) THEN Append(a, rs[n + 1]) ELSE a, n + 1, rs)
<1>0. /\ a \in Seq(Records) /\ Len(a) \in Nat /\ Len(rs) \in Nat
      /\ n + 1 \in 1 .. Len(rs) /\ rs[n + 1] \in Records
  BY DEF Collects
<1>1. \A i \in 1 .. n : i \in 1 .. n + 1 /\ i \in 1 .. Len(rs) /\ i < n + 1
  BY <1>0
<1>2. CASE ~IsAppData(rs[n + 1])
  <2>1. \A i \in 1 .. n + 1 : IsAppData(rs[i]) => i \in 1 .. n
    BY <1>2
  <2>2. Collects(a, n + 1, rs)
    BY <1>1, <2>1 DEF Collects
  <2> QED
    BY <1>2, <2>2
<1>3. CASE IsAppData(rs[n + 1])
  <2> DEFINE b == Append(a, rs[n + 1])
  <2>1. /\ b \in Seq(Records) /\ Len(b) = Len(a) + 1 /\ b[Len(a) + 1] = rs[n + 1]
        /\ \A k \in 1 .. Len(a) : b[k] = a[k]
    BY <1>0
  <2> HIDE DEF b
  <2>2. \A k \in 1 .. Len(b) : k = Len(a) + 1 \/ k \in 1 .. Len(a)
    BY <1>0, <2>1
  <2>3. ASSUME NEW k \in 1 .. Len(b)
        PROVE  \E i \in 1 .. n + 1 : IsAppData(rs[i]) /\ b[k] = rs[i]
    <3>1. CASE k = Len(a) + 1
      <4>1. n + 1 \in 1 .. n + 1
        OBVIOUS
      <4> QED
        BY <1>3, <2>1, <3>1, <4>1
    <3>2. CASE k \in 1 .. Len(a)
      <4>1. PICK i \in 1 .. n : IsAppData(rs[i]) /\ a[k] = rs[i]
        BY <3>2 DEF Collects
      <4>2. b[k] = a[k] /\ i \in 1 .. n + 1
        BY <1>1, <2>1, <3>2
      <4> QED
        BY <4>1, <4>2
    <3> QED
      BY <2>2, <3>1, <3>2
  <2>4. ASSUME NEW i \in 1 .. n + 1, IsAppData(rs[i])
        PROVE  \E k \in 1 .. Len(b) : b[k] = rs[i]
    <3>1. CASE i = n + 1
      <4>1. Len(a) + 1 \in 1 .. Len(b)
        BY <1>0, <2>1
      <4> QED
        BY <2>1, <3>1, <4>1
    <3>2. CASE i # n + 1
      <4>1. i \in 1 .. n
        BY <3>2
      <4>2. PICK k \in 1 .. Len(a) : a[k] = rs[i]
        BY <2>4, <4>1 DEF Collects
      <4>3. k \in 1 .. Len(b) /\ b[k] = a[k]
        BY <1>0, <2>1
      <4> QED
        BY <4>2, <4>3
    <3> QED
      BY <3>1, <3>2
  <2>5. ASSUME InOrder(rs) PROVE InOrder(b)
    <3> SUFFICES ASSUME NEW k \in 1 .. Len(b), NEW l \in 1 .. Len(b), k < l
                 PROVE  Earlier(b[k], b[l])
      BY DEF InOrder
    <3>1. k \in 1 .. Len(a) /\ b[k] = a[k]
      BY <1>0, <2>1
    <3>2. CASE l = Len(a) + 1
      <4>1. PICK i \in 1 .. n : a[k] = rs[i]
        BY <3>1 DEF Collects
      <4>2. Earlier(rs[i], rs[n + 1])
        BY <1>0, <1>1, <2>5 DEF InOrder
      <4> QED
        BY <2>1, <3>1, <3>2, <4>1, <4>2
    <3>3. CASE l \in 1 .. Len(a)
      <4>1. InOrder(a) /\ b[l] = a[l]
        BY <2>1, <2>5, <3>3 DEF Collects
      <4> QED
        BY <3>1, <3>3, <4>1 DEF InOrder
    <3> QED
      BY <2>2, <3>2, <3>3
  <2>6. Collects(b, n + 1, rs)
    BY <2>1, <2>3, <2>4, <2>5 DEF Collects
  <2> QED
    BY <1>3, <2>6 DEF b
<1> QED
  BY <1>2, <1>3

\* AppData returns the application records of its argument, and nothing else,
\* in their order.
LEMMA AppDataCollects ==
    ASSUME NEW rs \in Seq(Records)
    PROVE  Collects(AppData(rs), Len(rs), rs)
<1>0. Len(rs) \in Nat
  OBVIOUS
<1> DEFINE f == CHOOSE g : Fronts(g, Len(rs), rs)
<1>1. Fronts(f, Len(rs), rs)
  BY <1>0, FrontsExist
<1>2. AppData(rs) = f[Len(rs)]
  BY DEF AppData, Fronts
<1> HIDE DEF f
<1>3. \A m \in 0 .. Len(rs) :
         f[m] = IF m = 0 THEN <<>>
                ELSE IF IsAppData(rs[m]) THEN Append(f[m - 1], rs[m]) ELSE f[m - 1]
  BY <1>1 DEF Fronts
<1> DEFINE S == {m \in Nat : m <= Len(rs) => Collects(f[m], m, rs)}
<1>4. 0 \in S
  <2>1. f[0] = <<>>
    BY <1>0, <1>3
  <2>2. Collects(<<>>, 0, rs)
    BY DEF Collects, InOrder
  <2> QED
    BY <2>1, <2>2
<1>5. ASSUME NEW m \in Nat, m \in S PROVE m + 1 \in S
  <2> SUFFICES ASSUME m + 1 <= Len(rs) PROVE Collects(f[m + 1], m + 1, rs)
    OBVIOUS
  <2>1. m < Len(rs) /\ Collects(f[m], m, rs) /\ m + 1 \in 0 .. Len(rs) /\ m + 1 # 0
        /\ (m + 1) - 1 = m
    BY <1>0, <1>5
  <2>2. f[m + 1] = IF IsAppData(rs[m + 1]) THEN Append(f[m], rs[m + 1]) ELSE f[m]
    BY <1>3, <2>1
  <2> QED
    BY <2>1, <2>2, CollectsStep
<1> HIDE DEF S
<1>6. Nat \subseteq S
  BY <1>4, <1>5, SetInduction
<1> QED
  BY <1>0, <1>2, <1>6 DEF S

\* Two sequences in order with the same records are the same.
LEMMA SameOrder ==
    ASSUME NEW s \in Seq(Records), NEW t \in Seq(Records), InOrder(s), InOrder(t),
           \A k \in 1 .. Len(s) : \E l \in 1 .. Len(t) : s[k] = t[l],
           \A l \in 1 .. Len(t) : \E k \in 1 .. Len(s) : s[k] = t[l]
    PROVE  s = t
<1>0. Len(s) \in Nat /\ Len(t) \in Nat
  OBVIOUS
<1>a. /\ \A k \in 1 .. Len(s) : s[k] \in Records
      /\ \A l \in 1 .. Len(t) : t[l] \in Records
      /\ \A r \in Records : r.epoch \in Nat /\ r.oseq \in Nat
  <2>1. \A r \in Records : r.epoch \in Nat /\ r.oseq \in Nat
    BY DEF Records
  <2> QED
    BY <2>1
<1>b. \A r, q \in Records : ~Earlier(r, r) /\ ~(Earlier(r, q) /\ Earlier(q, r))
  BY <1>a DEF Earlier
<1> DEFINE Same(m) == /\ m <= Len(s) <=> m <= Len(t)
                      /\ m <= Len(s) => s[m] = t[m]
           S == {n \in Nat : \A m \in 1 .. n : Same(m)}
<1>1. 0 \in S
  OBVIOUS
<1>2. ASSUME NEW n \in Nat, \A m \in 1 .. n : Same(m) PROVE Same(n + 1)
  <2>1. ASSUME NEW k \in 1 .. Len(s), NEW l \in 1 .. Len(t), s[k] = t[l], k > n
        PROVE  l > n
    <3> SUFFICES ASSUME l <= n PROVE FALSE
      BY <1>0
    <3>1. l \in 1 .. n /\ l \in 1 .. Len(s) /\ s[l] = t[l] /\ l < k
      BY <1>0, <1>2, <2>1
    <3>2. Earlier(s[l], s[k])
      BY <3>1 DEF InOrder
    <3> QED
      BY <1>a, <1>b, <2>1, <3>1, <3>2
  <2>2. ASSUME NEW k \in 1 .. Len(s), NEW l \in 1 .. Len(t), s[k] = t[l], l > n
        PROVE  k > n
    <3> SUFFICES ASSUME k <= n PROVE FALSE
      BY <1>0
    <3>1. k \in 1 .. n /\ k \in 1 .. Len(t) /\ s[k] = t[k] /\ k < l
      BY <1>0, <1>2, <2>2
    <3>2. Earlier(t[k], t[l])
      BY <3>1 DEF InOrder
    <3> QED
      BY <1>a, <1>b, <2>2, <3>1, <3>2
  <2>3. ASSUME n + 1 <= Len(s) PROVE n + 1 <= Len(t)
    <3>1. n + 1 \in 1 .. Len(s) /\ n + 1 > n
      BY <1>0, <2>3
    <3>2. PICK l \in 1 .. Len(t) : s[n + 1] = t[l]
      BY <3>1
    <3>3. l > n
      BY <2>1, <3>1, <3>2
    <3> QED
      BY <1>0, <3>3
  <2>4. ASSUME n + 1 <= Len(t) PROVE n + 1 <= Len(s)
    <3>1. n + 1 \in 1 .. Len(t) /\ n + 1 > n
      BY <1>0, <2>4
    <3>2. PICK k \in 1 .. Len(s) : s[k] = t[n + 1]
      BY <3>1
    <3>3. k > n
      BY <2>2, <3>1, <3>2
    <3> QED
      BY <1>0, <3>3
  <2>5. ASSUME n + 1 <= Len(s), n + 1 <= Len(t) PROVE s[n + 1] = t[n + 1]
    <3>0. n + 1 \in 1 .. Len(s) /\ n + 1 \in 1 .. Len(t) /\ n + 1 > n
      BY <1>0, <2>5
    <3>1. PICK l \in 1 .. Len(t) : s[n + 1] = t[l]
      BY <3>0
    <3>2. PICK k \in 1 .. Len(s) : s[k] = t[n + 1]
      BY <3>0
    <3>3. l > n /\ k > n
      BY <2>1, <2>2, <3>0, <3>1, <3>2
    <3>4. CASE l = n + 1
      BY <3>1, <3>4
    <3>5. CASE k = n + 1
      BY <3>2, <3>5
    <3>6. CASE l # n + 1 /\ k # n + 1
      <4>1. n + 1 < l /\ n + 1 < k
        BY <1>0, <3>3, <3>6
      <4>2. Earlier(t[n + 1], t[l]) /\ Earlier(s[n + 1], s[k])
        BY <3>0, <4>1 DEF InOrder
      <4> QED
        BY <1>a, <1>b, <3>0, <3>1, <3>2, <4>2
    <3> QED
      BY <3>4, <3>5, <3>6
  <2> QED
    BY <2>3, <2>4, <2>5
<1>3. \A n \in Nat : n \in S => n + 1 \in S
  <2> HIDE DEF Same
  <2>0. \A n \in Nat : n \in S <=> \A m \in 1 .. n : Same(m)
    OBVIOUS
  <2> HIDE DEF S
  <2> TAKE n \in Nat
  <2> HAVE n \in S
  <2>1. Same(n + 1)
    BY <1>2, <2>0
  <2>2. \A m \in 1 .. n + 1 : m = n + 1 \/ m \in 1 .. n
    OBVIOUS
  <2>3. \A m \in 1 .. n + 1 : Same(m)
    BY <2>0, <2>1, <2>2
  <2> QED
    BY <2>0, <2>3
<1> HIDE DEF S, Same
<1>4. Nat \subseteq S
  BY <1>1, <1>3, SetInduction
<1>5. \A m \in Nat \ {0} : Same(m)
  <2> SUFFICES ASSUME NEW m \in Nat \ {0} PROVE Same(m)
    OBVIOUS
  <2>1. m \in S /\ m \in 1 .. m
    BY <1>4
  <2> QED
    BY <2>1 DEF S
<1>6. Len(s) = Len(t)
  <2>1. \A m \in Nat \ {0} : m <= Len(s) <=> m <= Len(t)
    BY <1>5 DEF Same
  <2>2. Len(s) <= Len(t)
    BY <1>0, <2>1
  <2>3. Len(t) <= Len(s)
    BY <1>0, <2>1
  <2> QED
    BY <1>0, <2>2, <2>3
<1>7. \A m \in 1 .. Len(s) : s[m] = t[m]
  BY <1>0, <1>5 DEF Same
<1> QED
  BY <1>6, <1>7

-----------------------------------------------------------------------------
(* Nothing is handed out that the verifier has not vouched for *)

\* Up to here the verifier has vouched for every record.
AttestedTo(n) == \A j \in 1 .. n : Vouched(recs[j]) \in attested

AllVouched ==
    /\ AttestedTo(p.start)
    /\ p.pc = "verify" => AttestedTo(p.idx - 1)
    /\ p.pc \in {"release", "open", "replay", "psk_done", "rotate_server"} => AttestedTo(p.end)
    /\ delivered \in Seq(Seq(Records))
    /\ \A i \in 1 .. Len(delivered) : \A j \in 1 .. Len(delivered[i]) :
          Vouched(delivered[i][j]) \in attested

LEMMA VouchedAlike ==
    ASSUME NEW r, NEW s, r.epoch = s.epoch, r.oseq = s.oseq
    PROVE  Vouched(r) = Vouched(s)
BY DEF Vouched, Ct

\* The captured records that are there stay what they are.
LEMMA RecordsStay ==
    ASSUME Inv, Move
    PROVE  /\ Len(recs) \in Nat /\ Len(recs') \in Nat /\ Len(recs) <= Len(recs')
           /\ \A j \in 1 .. Len(recs) : Alike(recs'[j], recs[j])
<1>0. /\ Types /\ recs \in Seq(Records) /\ Len(recs) \in Nat /\ p.end \in Nat
  BY ProverFields, Elements DEF Inv, Types, RTypeOK
<1>1. CASE recs' = recs
  BY <1>0, <1>1 DEF Alike
<1>2. CASE MoveCapture
  <2>1. PICK k \in 1 .. Len(o2p) :
            recs' = recs \o Taken(k) /\ o2p' = SubSeq(o2p, k + 1, Len(o2p))
    BY <1>2, CaptureEffects
  <2>2. k \in Nat
    BY <1>0, Elements
  <2>3. Len(recs') = Len(recs) + k /\ \A i \in 1 .. Len(recs) : recs'[i] = recs[i]
    BY <1>0, <2>1, CaptureMoves
  <2>4. \A i \in 1 .. Len(recs) : Alike(recs'[i], recs[i])
    BY <2>3 DEF Alike
  <2> QED
    BY <1>0, <2>2, <2>3, <2>4
<1>3. CASE recs' = Renumber(recs, p.end)
  <2>1. Len(recs') = Len(recs) /\ \A i \in 1 .. Len(recs) : Alike(recs'[i], recs[i])
    BY <1>0, <1>3, RenumberTyped DEF Alike
  <2> QED
    BY <1>0, <2>1
<1> QED
  BY <1>1, <1>2, <1>3
     DEF Move, MoveIdle, MoveFails, MoveEstablish, MoveOn, MoveRequest, MoveUpdate,
         MoveClient, MovePasses, MoveRejects, MoveRelease, MoveOpen, MoveServer, MoveOrigin,
         Quiet

LEMMA AttestedStays ==
    ASSUME Inv, Move, NEW n \in Nat, n <= Len(recs), AttestedTo(n)
    PROVE  \A m : m = n => AttestedTo(m)'
<1>1. attested \subseteq attested'
  BY DEF Move, MoveIdle, MoveFails, MoveEstablish, MoveOn, MoveRequest, MoveUpdate,
         MoveClient, MoveCapture, MovePasses, MoveRejects, MoveRelease, MoveOpen, MoveServer,
         MoveOrigin
<1>2. \A j \in 1 .. n : j \in 1 .. Len(recs)
  BY RecordsStay
<1>3. \A j \in 1 .. n : recs'[j].epoch = recs[j].epoch /\ recs'[j].oseq = recs[j].oseq
  BY <1>2, RecordsStay DEF Alike
<1>4. ASSUME NEW j \in 1 .. n PROVE Vouched(recs[j])' \in attested'
  <2>1. Vouched(recs[j])' = Vouched(recs[j])
    BY <1>3 DEF Vouched, Ct
  <2>2. Vouched(recs[j]) \in attested
    BY DEF AttestedTo
  <2> QED
    BY <1>1, <2>1, <2>2
<1> QED
  BY <1>4 DEF AttestedTo

LEMMA EpochRecords ==
    ASSUME Inv
    PROVE  /\ Epoch \in Seq(Records) /\ Len(Epoch) = Len(recs) - p.start
           /\ \A i \in 1 .. Len(Epoch) : /\ Epoch[i] = recs[p.start + i]
                                         /\ p.start + i \in p.start + 1 .. Len(recs)
<1>0. /\ recs \in Seq(Records) /\ Len(recs) \in Nat /\ p.start \in Nat /\ p.start <= Len(recs)
  BY ProverFields, Elements DEF Inv, Types, RTypeOK, EpochStart
<1>1. Epoch \in [1 .. Len(recs) - p.start -> Records]
  BY <1>0 DEF Epoch
<1>2. Len(recs) - p.start \in Nat
  BY <1>0
<1>3. Epoch \in Seq(Records) /\ Len(Epoch) = Len(recs) - p.start
  BY <1>1, <1>2
<1> QED
  BY <1>0, <1>3 DEF Epoch

\* What a step hands out: the application data of records that passed.
LEMMA HandsOut ==
    ASSUME Inv, Move, delivered' # delivered
    PROVE  /\ p.pc = "open" /\ p.end = Len(recs) /\ Quiet /\ attested' = attested
           /\ p'.pc = "replay" /\ SameRound
           /\ recs[Len(recs)].kind = IF Flow = "batch" \/ Last THEN "close" ELSE "ku"
           /\ \E rs \in Seq(Records) :
                 /\ rs = (IF Flow = "epoch" THEN Epoch ELSE recs)
                 /\ delivered' = Append(delivered, AppData(rs))
<1>1. MoveOpen
  BY DEF Move, MoveIdle, MoveFails, MoveEstablish, MoveOn, MoveRequest, MoveUpdate,
         MoveClient, MoveCapture, MovePasses, MoveRejects, MoveRelease, MoveServer, MoveOrigin
<1>2. recs \in Seq(Records) /\ p \in Provers
  BY DEF Inv, Types, RTypeOK
<1>3. p.pc = "open" /\ Quiet /\ attested' = attested /\ SameRound
  BY <1>1, ProverEffects DEF MoveOpen
<1>4. CASE Flow = "epoch"
  <2>1. /\ To("replay") /\ recs[Len(recs)].kind = (IF Last THEN "close" ELSE "ku")
        /\ delivered' = Append(delivered, AppData(Epoch))
    BY <1>1, <1>4 DEF MoveOpen
  <2>2. p.end = Len(recs)
    BY <1>3, <1>4 DEF Inv, Checked
  <2>3. p'.pc = "replay"
    BY <1>2, <2>1 DEF To, Provers
  <2> QED
    BY <1>3, <1>4, <2>1, <2>2, <2>3, EpochRecords
<1>5. CASE Flow = "batch"
  <2>1. /\ To("replay") /\ recs[Len(recs)].kind = "close" /\ p.end = Len(recs)
        /\ delivered' = Append(delivered, AppData(recs))
    BY <1>1, <1>5 DEF MoveOpen
  <2>3. p'.pc = "replay"
    BY <1>2, <2>1 DEF To, Provers
  <2> QED
    BY <1>2, <1>3, <1>5, <2>1, <2>3
<1> QED
  BY <1>4, <1>5, RotateAssumption

LEMMA VouchedKept == Inv /\ AllVouched /\ Move => AllVouched'
<1> SUFFICES ASSUME Inv, AllVouched, Move PROVE AllVouched'
  OBVIOUS
<1> DEFINE Released == {"release", "open", "replay", "psk_done", "rotate_server"}
<1>0. /\ Len(recs) \in Nat /\ p.start \in Nat /\ p.end \in Nat /\ p.idx \in Nat
      /\ p.start <= Len(recs) /\ p \in Provers
      /\ p.pc \in Released => p.end <= Len(recs) /\ p.end \in Nat
      /\ p.pc = "verify" => p.idx - 1 \in Nat /\ p.idx \in 1 .. Len(recs)
  <2>1. Len(recs) \in Nat /\ p.start \in Nat /\ p.end \in Nat /\ p.start <= Len(recs)
        /\ p \in Provers
    BY ProverFields, Elements DEF Inv, Types, RTypeOK, EpochStart
  <2>2. p.idx \in Nat
    BY <2>1 DEF Provers
  <2>3. p.pc \in Released => p.end <= Len(recs)
    BY <2>1 DEF Inv, Checked
  <2>4. p.pc = "verify" => p.idx - 1 \in Nat /\ p.idx \in 1 .. Len(recs)
    BY <2>1, <2>2 DEF Inv, Checked
  <2> QED
    BY <2>1, <2>2, <2>3, <2>4
<1>1. /\ AttestedTo(p.start) /\ \A m : m = p.start => AttestedTo(m)'
      /\ p.pc \in Released => \A m : m = p.end => AttestedTo(m)'
      /\ p.pc = "verify" => \A m : m = p.idx - 1 => AttestedTo(m)'
  BY <1>0, AttestedStays DEF AllVouched
<1>2. AttestedTo(p.start)'
  <2>1. CASE p'.start = p.start
    BY <1>1, <2>1
  <2>2. CASE MoveServer
    <3>1. p.pc = "rotate_server"
      BY <2>2 DEF MoveServer
    <3>2. p'.start = p.end
      <4>1. CASE Flow = "epoch"
        BY <2>2, <3>1, <4>1, ProverEffects DEF Inv, Checked
      <4>2. CASE Flow = "batch"
        BY <2>2, <4>2, ProverEffects
      <4> QED
        BY <4>1, <4>2, RotateAssumption
    <3> QED
      BY <1>1, <3>1, <3>2
  <2> QED
    BY <2>1, <2>2, ProverEffects, CaptureEffects DEF Move, SameRound, MoveIdle, MoveOrigin
<1>3. ASSUME MovePasses PROVE \A m : m = p.idx => AttestedTo(m)'
  <2>1. p.pc = "verify" /\ recs' = recs /\ Vouched(recs[p.idx]) \in attested'
    BY <1>3 DEF MovePasses, Quiet
  <2>3. \A j \in 1 .. p.idx - 1 : Vouched(recs[j]) \in attested'
    BY <1>1, <2>1 DEF AttestedTo
  <2>4. \A j \in 1 .. p.idx : j = p.idx \/ j \in 1 .. p.idx - 1
    BY <1>0
  <2> QED
    BY <2>1, <2>3, <2>4 DEF AttestedTo
<1>4. ASSUME p'.pc = "verify" PROVE AttestedTo(p.idx - 1)'
  <2>1. CASE MoveIdle \/ MoveOrigin
    BY <1>1, <1>4, <2>1 DEF MoveIdle, MoveOrigin
  <2>2. CASE MoveOn
    <3>1. p'.idx - 1 = p.start
      BY <1>0, <1>4, <2>2, ProverEffects
    <3> QED
      BY <1>1, <3>1
  <2>3. CASE MovePasses
    <3>1. p'.idx - 1 = p.idx
      BY <1>0, <2>3, ProverEffects
    <3> QED
      BY <1>3, <2>3, <3>1
  <2> QED
    BY <1>4, <2>1, <2>2, <2>3, ProverEffects, CaptureEffects, RotateAssumption DEF Move
<1>5. ASSUME p'.pc \in Released PROVE AttestedTo(p.end)'
  <2>1. CASE MoveIdle \/ MoveOrigin
    BY <1>1, <1>5, <2>1 DEF MoveIdle, MoveOrigin
  <2>2. CASE MoveOn \/ MoveRelease \/ MoveOpen
    <3>1. p'.end = p.end /\ p.pc \in Released
      BY <1>5, <2>2, ProverEffects DEF MoveRelease, MoveOpen
    <3> QED
      BY <1>1, <3>1
  <2>3. CASE MovePasses
    <3>1. p'.end = p.idx
      BY <2>3, ProverEffects
    <3> QED
      BY <1>3, <2>3, <3>1
  <2>4. CASE MoveRejects
    <3>1. p'.end = p.end /\ p.pc = "verify" /\ p.idx > p.start + 1
      BY <2>4, ProverEffects DEF MoveRejects
    <3>2. p.end = p.idx - 1
      BY <3>1 DEF Inv, Checked
    <3> QED
      BY <1>1, <3>1, <3>2
  <2> QED
    BY <1>5, <2>1, <2>2, <2>3, <2>4, ProverEffects, CaptureEffects, RotateAssumption DEF Move
<1>6. attested \subseteq attested'
  BY DEF Move, MoveIdle, MoveFails, MoveEstablish, MoveOn, MoveRequest, MoveUpdate,
         MoveClient, MoveCapture, MovePasses, MoveRejects, MoveRelease, MoveOpen, MoveServer,
         MoveOrigin
<1>7. /\ delivered' \in Seq(Seq(Records))
      /\ \A i \in 1 .. Len(delivered') : \A j \in 1 .. Len(delivered'[i]) :
            Vouched(delivered'[i][j]) \in attested'
  <2>0. /\ delivered \in Seq(Seq(Records))
        /\ \A i \in 1 .. Len(delivered) : \A j \in 1 .. Len(delivered[i]) :
              Vouched(delivered[i][j]) \in attested
    BY DEF AllVouched
  <2>1. CASE delivered' = delivered
    BY <1>6, <2>0, <2>1
  <2>2. CASE delivered' # delivered
    <3>1. /\ p.pc = "open" /\ p.end = Len(recs) /\ attested' = attested
      BY <2>2, HandsOut
    <3>2. PICK rs \in Seq(Records) :
             /\ rs = (IF Flow = "epoch" THEN Epoch ELSE recs)
             /\ delivered' = Append(delivered, AppData(rs))
      BY <2>2, HandsOut
    <3>3. \A i \in 1 .. Len(rs) : \E j \in 1 .. Len(recs) : rs[i] = recs[j]
      <4>1. CASE Flow = "epoch"
        <5>1. rs = Epoch
          BY <3>2, <4>1
        <5>2. \A i \in 1 .. Len(rs) : /\ rs[i] = recs[p.start + i]
                                      /\ p.start + i \in 1 .. Len(recs)
          BY <1>0, <5>1, EpochRecords
        <5> QED
          BY <5>2
      <4>2. CASE Flow # "epoch"
        BY <3>2, <4>2
      <4> QED
        BY <4>1, <4>2
    <3> DEFINE a == AppData(rs)
    <3>4. Collects(a, Len(rs), rs)
      BY AppDataCollects
    <3> HIDE DEF a
    <3>5. a \in Seq(Records) /\ \A k \in 1 .. Len(a) : \E i \in 1 .. Len(rs) : a[k] = rs[i]
      BY <3>4 DEF Collects
    <3>6. \A j \in 1 .. Len(recs) : Vouched(recs[j]) \in attested
      BY <3>1 DEF AllVouched, AttestedTo
    <3>7. \A k \in 1 .. Len(a) : Vouched(a[k]) \in attested
      BY <3>3, <3>5, <3>6
    <3>8. delivered' = Append(delivered, a)
      BY <3>2 DEF a
    <3>9. /\ delivered' \in Seq(Seq(Records))
          /\ \A i \in 1 .. Len(delivered') :
                delivered'[i] = a \/ (i \in 1 .. Len(delivered) /\ delivered'[i] = delivered[i])
      BY <2>0, <3>5, <3>8
    <3> QED
      BY <2>0, <3>1, <3>7, <3>9
  <2> QED
    BY <2>1, <2>2
<1> QED
  BY <1>2, <1>4, <1>5, <1>7 DEF AllVouched

LEMMA VouchedStep == Inv /\ AllVouched /\ [RNext]_rvars => AllVouched'
BY VouchedKept, StepsMove

LEMMA VouchedInit == RInit => AllVouched
<1> SUFFICES ASSUME RInit PROVE AllVouched
  OBVIOUS
<1>1. p.start = 0 /\ p.pc = "setup" /\ delivered = <<>>
  BY DEF RInit
<1> QED
  BY <1>1 DEF AllVouched, AttestedTo

LEMMA VouchedImplies == AllVouched => DeliveredAttested
<1> SUFFICES ASSUME AllVouched PROVE DeliveredAttested
  OBVIOUS
<1>1. \A i \in DOMAIN delivered : \A j \in DOMAIN delivered[i] :
         Vouched(delivered[i][j]) \in attested
  <2>1. delivered \in Seq(Seq(Records))
    BY DEF AllVouched
  <2>2. /\ DOMAIN delivered = 1 .. Len(delivered)
        /\ \A i \in 1 .. Len(delivered) : DOMAIN delivered[i] = 1 .. Len(delivered[i])
    BY <2>1
  <2> QED
    BY <2>2 DEF AllVouched
<1> QED
  BY <1>1 DEF DeliveredAttested, Vouched, Ct

\* Every record that the release functions hand out, in both flows and whatever
\* fails, has passed the verifier's tag check under the key and the sequence
\* number the origin sealed it with.
THEOREM AllAttested == RSpec => []DeliveredAttested
BY VouchedInit, VouchedStep, VouchedImplies, InvAlways, PTL DEF RSpec

-----------------------------------------------------------------------------
(* What the origin seals and writes down *)

OriginSeals ==
    /\ ~o.closed /\ UNCHANGED <<recs, p, delivered>>
    /\ \/ /\ sent' = sent /\ o2p' = o2p /\ o'.wkey = o.wkey /\ o'.wseq = o.wseq /\ ~o'.closed
       \/ \E r \in Records :
             /\ Seals(r) /\ r.seq = 0 /\ (o'.closed <=> r.kind = "close")
             /\ IF IsAppData(r)
                THEN o.todo # <<>> /\ sent' = [sent EXCEPT ![o.served] = Append(@, r)]
                ELSE sent' = sent
       \/ /\ sent' = sent /\ o'.closed /\ o'.wkey = o.wkey /\ o'.wseq = o.wseq
          /\ \E k \in 0 .. Len(o2p) : o2p' = SubSeq(o2p, 1, k)

\* The request it answers, and its keys.
OriginServes ==
    \/ /\ p2o' = p2o /\ o'.served = o.served /\ (o.todo = <<>> => o'.todo = <<>>)
       /\ o'.rkey = o.rkey
       /\ \/ o'.wkey = o.wkey /\ o'.updates = o.updates
          \/ o'.wkey = o.wkey + 1 /\ o'.updates = o.updates + 1 /\ o.updates < MaxUpdates
    \/ /\ p2o # <<>> /\ p2o' = Tail(p2o) /\ p2o[1].kind = "ku" /\ o'.todo = <<>>
       /\ o'.rkey = o.rkey + 1 /\ o'.wkey = o.wkey + 1 /\ o'.updates = o.updates
       /\ o'.served = o.served
    \/ /\ p2o # <<>> /\ p2o' = Tail(p2o) /\ SameTurn /\ o'.served = p2o[1].resp

LEMMA OriginWork == Inv /\ MoveOrigin => OriginSeals /\ OriginServes
<1> SUFFICES ASSUME Inv, MoveOrigin PROVE OriginSeals /\ OriginServes
  OBVIOUS
<1>0. /\ o \in Origins /\ p2o \in Seq(Requests) /\ o2p \in Seq(Records)
      /\ SentInOrder /\ Types /\ UNCHANGED <<recs, p, delivered>>
  BY DEF Inv, Types, RTypeOK, MoveOrigin
<1>a. \A kind \in Kinds, resp \in Nat :
         /\ Out(kind, resp) \in Records /\ Out(kind, resp).kind = kind
         /\ Out(kind, resp).epoch = o.wkey /\ Out(kind, resp).oseq = o.wseq
         /\ Out(kind, resp).seq = 0
  BY <1>0 DEF Out, Records, Origins
<1>b. \A kind \in Kinds, resp \in Nat :
         /\ o2p' = Append(o2p, Out(kind, resp))
         /\ IF kind = "ku" THEN o'.wkey = o.wkey + 1 /\ o'.wseq = 0
            ELSE o'.wkey = o.wkey /\ o'.wseq = o.wseq + 1
         => Seals(Out(kind, resp))
  BY <1>a DEF Seals
<1>1. ASSUME NEW kinds \in Responses, OriginReads(kinds) PROVE OriginSeals /\ OriginServes
  <2> DEFINE m == Head(p2o)
  <2>1. /\ p2o # <<>> /\ ~o.closed /\ p2o' = Tail(p2o) /\ m = p2o[1] /\ m \in Requests
        /\ o.todo = <<>> /\ sent' = sent
    BY <1>0, <1>1 DEF OriginReads, Reading
  <2>2. Fits(m)
    BY <1>0, <2>1 DEF SentInOrder, Fits
  <2> HIDE DEF m
  <2>3. CASE m.kind = "ku"
    <3>1. /\ o' = [Updated(o) EXCEPT !.rkey = @ + 1, !.rseq = 0]
          /\ o2p' = Append(o2p, Out("ku", 0))
      BY <1>1, <2>2, <2>3 DEF OriginReads, m
    <3>2. /\ o'.rkey = o.rkey + 1 /\ o'.wkey = o.wkey + 1 /\ o'.updates = o.updates
          /\ o'.served = o.served /\ o'.todo = o.todo /\ o'.wseq = 0
      BY <1>0, <3>1 DEF Updated, Origins
    <3>3. ~o'.closed
      BY <1>0, <2>1, <3>1, Zenon DEF Updated, Origins
    <3>4. Seals(Out("ku", 0))
      BY <1>b, <3>1, <3>2 DEF Kinds
    <3>5. Out("ku", 0) \in Records /\ Out("ku", 0).kind = "ku" /\ Out("ku", 0).seq = 0
      BY <1>a DEF Kinds
    <3>6. OriginSeals
      BY <1>0, <2>1, <3>3, <3>4, <3>5 DEF OriginSeals, IsAppData
    <3>7. OriginServes
      BY <2>1, <2>3, <3>2 DEF OriginServes
    <3> QED
      BY <3>6, <3>7
  <2>4. CASE m.kind # "ku"
    <3>1. /\ o' = [o EXCEPT !.rseq = @ + 1, !.served = m.resp,
                            !.todo = IF m.resp = NRequests
                                     THEN Append(kinds, "close") ELSE kinds]
          /\ o2p' = o2p
      BY <1>1, <2>2, <2>4 DEF OriginReads, m
    <3>2. SameTurn /\ o'.served = m.resp /\ o'.wseq = o.wseq /\ o'.wkey = o.wkey
      BY <1>0, <3>1 DEF Origins, SameTurn
    <3>3. ~o'.closed
      BY <1>0, <2>1, <3>1, Zenon DEF Origins
    <3>4. OriginSeals
      BY <1>0, <2>1, <3>1, <3>2, <3>3 DEF OriginSeals
    <3>5. OriginServes
      BY <2>1, <3>2 DEF OriginServes
    <3> QED
      BY <3>4, <3>5
  <2> QED
    BY <2>3, <2>4
<1>2. CASE OriginWrites
  <2> DEFINE kind == Head(o.todo)
             resp == IF kind = "close" THEN 0 ELSE o.served
             r == Out(kind, resp)
  <2>1. /\ o.todo # <<>> /\ ~o.closed /\ o2p' = Append(o2p, r) /\ p2o' = p2o
        /\ o' = [o EXCEPT !.wseq = @ + 1, !.todo = Tail(@), !.closed = kind = "close"]
        /\ sent' = IF kind = "close" THEN sent
                   ELSE [sent EXCEPT ![o.served] = Append(@, r)]
    BY <1>2 DEF OriginWrites
  <2>2. kind \in {"app", "short", "close"}
    BY <1>0, <2>1 DEF ToWrite, Origins
  <2>3. resp \in Nat
    BY <1>0, RotateAssumption DEF Origins
  <2> HIDE DEF kind, resp
  <2>4. SameTurn /\ o'.served = o.served /\ o'.wseq = o.wseq + 1 /\ o'.wkey = o.wkey
    BY <1>0, <2>1 DEF Origins, SameTurn
  <2>5. o'.closed <=> kind = "close"
    BY <1>0, <2>1, Zenon DEF Origins
  <2>6. r \in Records /\ r.kind = kind /\ r.seq = 0 /\ kind \in Kinds /\ kind # "ku"
    BY <1>a, <2>2, <2>3 DEF Kinds
  <2>7. Seals(r)
    BY <1>b, <2>1, <2>3, <2>4, <2>6
  <2> HIDE DEF r
  <2>8. IsAppData(r) <=> kind # "close"
    BY <2>2, <2>6 DEF IsAppData
  <2>9. OriginSeals
    BY <1>0, <2>1, <2>5, <2>6, <2>7, <2>8 DEF OriginSeals
  <2>10. OriginServes
    BY <2>1, <2>4 DEF OriginServes, SameTurn
  <2> QED
    BY <2>9, <2>10
<1>3. CASE OriginTicket
  <2>1. /\ ~o.closed /\ o2p' = Append(o2p, Out("nst", 0)) /\ p2o' = p2o /\ sent' = sent
        /\ o' = [o EXCEPT !.wseq = @ + 1, !.tickets = @ + 1]
    BY <1>3 DEF OriginTicket
  <2>2. SameTurn /\ o'.served = o.served /\ o'.todo = o.todo /\ o'.wkey = o.wkey
        /\ o'.wseq = o.wseq + 1
    BY <1>0, <2>1 DEF Origins, SameTurn
  <2>3. ~o'.closed
    BY <1>0, <2>1, Zenon DEF Origins
  <2>4. Out("nst", 0) \in Records /\ Out("nst", 0).kind = "nst" /\ Out("nst", 0).seq = 0
    BY <1>a DEF Kinds
  <2>5. Seals(Out("nst", 0))
    BY <1>b, <2>1, <2>2 DEF Kinds
  <2>6. OriginSeals
    BY <1>0, <2>1, <2>3, <2>4, <2>5 DEF OriginSeals, IsAppData
  <2> QED
    BY <2>1, <2>2, <2>6 DEF OriginServes, SameTurn
<1>4. CASE OriginUpdatesItself
  <2>1. /\ ~o.closed /\ o2p' = Append(o2p, Out("ku", 0)) /\ p2o' = p2o /\ sent' = sent
        /\ o' = [Updated(o) EXCEPT !.updates = @ + 1] /\ o.updates < MaxUpdates
    BY <1>4 DEF OriginUpdatesItself
  <2>2. /\ o'.rkey = o.rkey /\ o'.wkey = o.wkey + 1 /\ o'.updates = o.updates + 1
        /\ o'.served = o.served /\ o'.todo = o.todo /\ o'.wseq = 0
    BY <1>0, <2>1 DEF Origins, Updated
  <2>3. ~o'.closed
    BY <1>0, <2>1, Zenon DEF Origins, Updated
  <2>4. Out("ku", 0) \in Records /\ Out("ku", 0).kind = "ku" /\ Out("ku", 0).seq = 0
    BY <1>a DEF Kinds
  <2>5. Seals(Out("ku", 0))
    BY <1>b, <2>1, <2>2 DEF Kinds
  <2>6. OriginSeals
    BY <1>0, <2>1, <2>3, <2>4, <2>5 DEF OriginSeals, IsAppData
  <2> QED
    BY <2>1, <2>2, <2>6 DEF OriginServes
<1>5. CASE OriginGone
  <2>1. /\ ~o.closed /\ o' = [o EXCEPT !.closed = TRUE] /\ p2o' = p2o /\ sent' = sent
        /\ \E k \in 0 .. Len(o2p) : o2p' = SubSeq(o2p, 1, k)
    BY <1>5 DEF OriginGone
  <2>2. /\ o'.rkey = o.rkey /\ o'.wkey = o.wkey /\ o'.updates = o.updates
        /\ o'.served = o.served /\ o'.todo = o.todo /\ o'.wseq = o.wseq
    BY <1>0, <2>1 DEF Origins
  <2>3. o'.closed
    BY <1>0, <2>1, Zenon DEF Origins
  <2> QED
    BY <1>0, <2>1, <2>2, <2>3 DEF OriginSeals, OriginServes
<1> QED
  BY <1>1, <1>2, <1>3, <1>4, <1>5 DEF MoveOrigin

-----------------------------------------------------------------------------
(* What is handed out is the response: the invariant *)

\* A record without the number of its capture.
Plain(r) ==
    [kind |-> r.kind, epoch |-> r.epoch, oseq |-> r.oseq, seq |-> 0, resp |-> r.resp]

\* The number the origin uses next.
Now == [epoch |-> o.wkey, oseq |-> o.wseq]

\* The responses as the origin wrote them: in order, each record under the write
\* key and number of its time, in the per-round flow under the key of its round.
SentRightly ==
    /\ sent \in [1 .. NRequests -> Seq(Records)]
    /\ \A i \in 1 .. NRequests : InOrder(sent[i])
    /\ \A i \in 1 .. NRequests : \A k \in 1 .. Len(sent[i]) :
          /\ IsAppData(sent[i][k]) /\ sent[i][k].seq = 0
          /\ Earlier(sent[i][k], Now)
          /\ Flow = "epoch" => sent[i][k].epoch = i - 1

\* Where they went: into the stream, unless the connection broke before, and then
\* nothing that came later is in the stream either.
StreamRightly ==
    /\ \A j \in 1 .. N : IsAppData(At(j)) =>
          \E i \in 1 .. NRequests : \E k \in 1 .. Len(sent[i]) :
             sent[i][k] = Plain(At(j)) /\ (Flow = "batch" => i = 1)
    /\ \A i \in 1 .. NRequests : \A k \in 1 .. Len(sent[i]) :
          \/ \E j \in 1 .. N : sent[i][k] = Plain(At(j))
          \/ o.closed /\ \A j \in 1 .. N : Earlier(At(j), sent[i][k])

\* Nothing of a response follows the KeyUpdate of its epoch or the close.
EndsRightly ==
    /\ \A j \in 1 .. N : At(j).kind = "ku" =>
          \A i \in 1 .. NRequests : \A k \in 1 .. Len(sent[i]) :
             sent[i][k].epoch = At(j).epoch => sent[i][k].oseq < At(j).oseq
    /\ \A j \in 1 .. N : At(j).kind = "close" =>
          /\ j = N /\ o.closed
          /\ \A i \in 1 .. NRequests : \A k \in 1 .. Len(sent[i]) : Earlier(sent[i][k], At(j))

\* The request that is answered in an epoch.
ServedRightly ==
    /\ o.updates <= MaxUpdates /\ o.wkey = o.rkey + o.updates
    /\ o.todo # <<>> => o.served \in 1 .. NRequests
    /\ Flow = "epoch" =>
          /\ \A i \in 1 .. Len(p2o) : p2o[i].key = ClientKey(p2o[i].resp - 1)
          /\ o.todo # <<>> => o.served = o.wkey + 1
    /\ Flow = "batch" =>
          p.round = 1 /\ o.served <= 1 /\ \A i \in 1 .. Len(p2o) : p2o[i].resp = 1

\* What has been handed out when, and that nothing can be added to it.
GivenRightly ==
    /\ p.pc # "fail" =>
          Len(delivered) = IF p.pc \in {"replay", "psk_done", "stop", "done"}
                              \/ (p.pc = "rotate_server" /\ Flow = "epoch")
                           THEN p.round ELSE p.round - 1
    /\ delivered \in Seq(Seq(Records))
    /\ \A i \in 1 .. Len(delivered) :
          /\ i \in 1 .. NRequests /\ Data(delivered[i]) = sent[i]
          /\ o.closed \/ (Flow = "epoch" /\ i <= o.wkey)

WrittenRightly == SentRightly /\ StreamRightly /\ EndsRightly

LEMMA WrittenStays ==
    ASSUME Inv, Move, ~MoveOrigin, WrittenRightly
    PROVE  WrittenRightly' /\ sent' = sent
<1>1. o' = o /\ N' = N
  BY StreamStays
<1>2. sent' = sent
  BY DEF Move, MoveIdle, MoveFails, MoveEstablish, MoveOn, MoveRequest, MoveUpdate,
         MoveClient, MoveCapture, MovePasses, MoveRejects, MoveRelease, MoveOpen, MoveServer,
         Quiet
<1>3. \A j \in 1 .. N :
         /\ At(j)'.kind = At(j).kind /\ At(j)'.epoch = At(j).epoch
         /\ At(j)'.oseq = At(j).oseq /\ Plain(At(j))' = Plain(At(j))
         /\ IsAppData(At(j))' <=> IsAppData(At(j))
  BY StreamStays DEF Alike, Plain, IsAppData
<1>4. \A j \in 1 .. N : \A s :
         (Earlier(At(j), s)' <=> Earlier(At(j), s)) /\ (Earlier(s, At(j))' <=> Earlier(s, At(j)))
  BY <1>3 DEF Earlier
<1>5. SentRightly'
  BY <1>1, <1>2 DEF WrittenRightly, SentRightly, Now
<1>6. StreamRightly'
  BY <1>1, <1>2, <1>3, <1>4 DEF WrittenRightly, StreamRightly
<1>7. EndsRightly'
  BY <1>1, <1>2, <1>3, <1>4 DEF WrittenRightly, EndsRightly
<1> QED
  BY <1>2, <1>5, <1>6, <1>7 DEF WrittenRightly

\* What sent holds after the origin has sealed record r.
WritesDown(r) ==
    /\ sent' \in [1 .. NRequests -> Seq(Records)]
    /\ \A i \in 1 .. NRequests : \A k \in 1 .. Len(sent[i]) :
          k \in 1 .. Len(sent'[i]) /\ sent'[i][k] = sent[i][k]
    /\ \A i \in 1 .. NRequests : \A k \in 1 .. Len(sent'[i]) :
          \/ k \in 1 .. Len(sent[i]) /\ sent'[i][k] = sent[i][k]
          \/ /\ IsAppData(r) /\ i = o.served /\ sent'[i][k] = r /\ o.todo # <<>>
             /\ \A l \in 1 .. Len(sent'[i]) : l < k => l \in 1 .. Len(sent[i])
    /\ IsAppData(r) =>
          o.served \in 1 .. NRequests
          /\ \E k \in 1 .. Len(sent'[o.served]) : sent'[o.served][k] = r

LEMMA SentWritten ==
    ASSUME SentRightly, ServedRightly, NEW r \in Records,
           IF IsAppData(r)
           THEN o.todo # <<>> /\ sent' = [sent EXCEPT ![o.served] = Append(@, r)]
           ELSE sent' = sent
    PROVE  WritesDown(r)
<1>0. sent \in [1 .. NRequests -> Seq(Records)]
  BY DEF SentRightly
<1>1. CASE ~IsAppData(r)
  BY <1>0, <1>1 DEF WritesDown
<1>2. CASE IsAppData(r)
  <2> DEFINE c == o.served
             s == sent[c]
             t == Append(s, r)
  <2>1. c \in 1 .. NRequests /\ s \in Seq(Records) /\ o.todo # <<>>
    BY <1>0, <1>2 DEF ServedRightly
  <2>2. /\ t \in Seq(Records) /\ Len(t) = Len(s) + 1 /\ Len(s) \in Nat /\ t[Len(s) + 1] = r
        /\ \A k \in 1 .. Len(s) : t[k] = s[k]
    BY <2>1
  <2>3. sent' = [sent EXCEPT ![c] = t]
    BY <1>2
  <2> HIDE DEF t, c
  <2>4. /\ sent'[c] = t /\ \A i \in 1 .. NRequests : i # c => sent'[i] = sent[i]
        /\ sent' \in [1 .. NRequests -> Seq(Records)]
    BY <1>0, <2>1, <2>2, <2>3
  <2>5. \A k \in 1 .. Len(s) : k \in 1 .. Len(t) /\ t[k] = s[k]
    BY <2>2
  <2>6. \A k \in 1 .. Len(t) :
           \/ k \in 1 .. Len(s) /\ t[k] = s[k]
           \/ t[k] = r /\ \A l \in 1 .. Len(t) : l < k => l \in 1 .. Len(s)
    BY <2>2
  <2>7. \E k \in 1 .. Len(t) : t[k] = r
    BY <2>2
  <2> HIDE DEF s
  <2>a. s = sent[c]
    BY DEF s
  <2>8. ASSUME NEW i \in 1 .. NRequests, NEW k \in 1 .. Len(sent[i])
        PROVE  k \in 1 .. Len(sent'[i]) /\ sent'[i][k] = sent[i][k]
    BY <2>4, <2>5, <2>a
  <2>9. ASSUME NEW i \in 1 .. NRequests, NEW k \in 1 .. Len(sent'[i])
        PROVE  \/ k \in 1 .. Len(sent[i]) /\ sent'[i][k] = sent[i][k]
               \/ /\ i = c /\ sent'[i][k] = r
                  /\ \A l \in 1 .. Len(sent'[i]) : l < k => l \in 1 .. Len(sent[i])
    <3>1. CASE i # c
      BY <2>4, <3>1
    <3>2. CASE i = c
      BY <2>4, <2>6, <2>a, <3>2
    <3> QED
      BY <3>1, <3>2
  <2> QED
    BY <1>2, <2>1, <2>4, <2>7, <2>8, <2>9 DEF WritesDown, c
<1> QED
  BY <1>1, <1>2

LEMMA WrittenSealed ==
    ASSUME Inv, WrittenRightly, ServedRightly, ~o.closed, UNCHANGED recs,
           NEW r \in Records, Seals(r), r.seq = 0, o'.closed <=> r.kind = "close",
           IF IsAppData(r)
           THEN o.todo # <<>> /\ sent' = [sent EXCEPT ![o.served] = Append(@, r)]
           ELSE sent' = sent
    PROVE  WrittenRightly'
<1>0. /\ WritesDown(r) /\ SentRightly /\ StreamRightly /\ EndsRightly
  BY SentWritten DEF WrittenRightly
<1>a. /\ Types /\ StreamInOrder /\ o.wkey \in Nat /\ o.wseq \in Nat /\ N \in Nat
      /\ r.epoch = o.wkey /\ r.oseq = o.wseq
  BY Elements DEF Inv, Types, Origins, Seals
<1>b. \A s \in Records : s.epoch \in Nat /\ s.oseq \in Nat
  BY DEF Records
<1>c. \A i \in 1 .. NRequests : \A k \in 1 .. Len(sent[i]) :
         sent[i][k] \in Records /\ sent[i][k].epoch \in Nat /\ sent[i][k].oseq \in Nat
  <2>1. \A i \in 1 .. NRequests : sent[i] \in Seq(Records)
    BY <1>0 DEF SentRightly
  <2>2. \A i \in 1 .. NRequests : \A k \in 1 .. Len(sent[i]) : sent[i][k] \in Records
    BY <2>1
  <2> QED
    BY <1>b, <2>2
<1>d. /\ N' = N + 1
      /\ \A j \in 1 .. N : At(j)' = At(j) /\ j \in 1 .. N + 1
      /\ \A j \in 1 .. N + 1 : (j = N + 1 /\ At(j)' = r) \/ j \in 1 .. N
      /\ N + 1 \in 1 .. N + 1
  <2>1. o2p' = Append(o2p, r)
    BY DEF Seals
  <2>2. N' = N + 1 /\ (\A j \in 1 .. N : At(j)' = At(j))
        /\ \A j \in 1 .. N + 1 : j = N + 1 => At(j)' = r
    BY <1>a, <2>1, StreamGrows
  <2> QED
    BY <1>a, <2>2
<1>e. /\ r.kind = "ku" => o'.wkey = o.wkey + 1 /\ o'.wseq = 0
      /\ r.kind # "ku" => o'.wkey = o.wkey /\ o'.wseq = o.wseq + 1
  BY DEF Seals
<1>f. \A s : Earlier(s, Now) => Earlier(s, r)
  BY <1>a DEF Earlier, Now
<1>g. /\ Earlier(r, Now')
      /\ \A s \in Records : Earlier(s, Now) => Earlier(s, Now')
  <2>1. Now'.epoch = o'.wkey /\ Now'.oseq = o'.wseq /\ Now.epoch = o.wkey /\ Now.oseq = o.wseq
    BY DEF Now
  <2> QED
    BY <1>a, <1>b, <1>e, <2>1 DEF Earlier
<1>1. SentRightly'
  <2>1. sent' \in [1 .. NRequests -> Seq(Records)]
    BY <1>0 DEF WritesDown
  <2>2. ASSUME NEW i \in 1 .. NRequests PROVE InOrder(sent'[i])
    <3> SUFFICES ASSUME NEW k \in 1 .. Len(sent'[i]), NEW l \in 1 .. Len(sent'[i]), k < l
                 PROVE  Earlier(sent'[i][k], sent'[i][l])
      BY DEF InOrder
    <3>1. CASE l \in 1 .. Len(sent[i]) /\ sent'[i][l] = sent[i][l]
      <4>1. k \in 1 .. Len(sent[i])
        <5>1. sent[i] \in Seq(Records) /\ sent'[i] \in Seq(Records)
          BY <1>0, <2>1 DEF SentRightly
        <5>2. Len(sent[i]) \in Nat /\ Len(sent'[i]) \in Nat
          BY <5>1
        <5> QED
          BY <3>1, <5>2
      <4>2. sent'[i][k] = sent[i][k] /\ InOrder(sent[i])
        BY <1>0, <4>1 DEF WritesDown, SentRightly
      <4> QED
        BY <3>1, <4>1, <4>2 DEF InOrder
    <3>2. CASE sent'[i][l] = r /\ \A m \in 1 .. Len(sent'[i]) : m < l => m \in 1 .. Len(sent[i])
      <4>1. k \in 1 .. Len(sent[i]) /\ sent'[i][k] = sent[i][k]
        BY <1>0, <3>2 DEF WritesDown
      <4>2. Earlier(sent[i][k], Now)
        BY <1>0, <4>1 DEF SentRightly
      <4> QED
        BY <1>f, <3>2, <4>1, <4>2
    <3> QED
      BY <1>0, <3>1, <3>2 DEF WritesDown
  <2>3. ASSUME NEW i \in 1 .. NRequests, NEW k \in 1 .. Len(sent'[i])
        PROVE  /\ IsAppData(sent'[i][k]) /\ sent'[i][k].seq = 0
               /\ Earlier(sent'[i][k], Now')
               /\ Flow = "epoch" => sent'[i][k].epoch = i - 1
    <3>1. CASE k \in 1 .. Len(sent[i]) /\ sent'[i][k] = sent[i][k]
      BY <1>0, <1>c, <1>g, <3>1 DEF SentRightly
    <3>2. CASE IsAppData(r) /\ i = o.served /\ sent'[i][k] = r /\ o.todo # <<>>
      <4>1. Flow = "epoch" => r.epoch = i - 1
        BY <1>a, <3>2 DEF ServedRightly
      <4> QED
        BY <1>g, <3>2, <4>1
    <3> QED
      BY <1>0, <3>1, <3>2 DEF WritesDown
  <2> QED
    BY <2>1, <2>2, <2>3 DEF SentRightly
<1>2. StreamRightly'
  <2>1. ASSUME NEW j \in 1 .. N', IsAppData(At(j)')
        PROVE  \E i \in 1 .. NRequests : \E k \in 1 .. Len(sent'[i]) :
                  sent'[i][k] = Plain(At(j)') /\ (Flow = "batch" => i = 1)
    <3>1. CASE j \in 1 .. N
      <4>1. At(j)' = At(j)
        BY <1>d, <3>1
      <4>2. PICK i \in 1 .. NRequests : \E k \in 1 .. Len(sent[i]) :
                sent[i][k] = Plain(At(j)) /\ (Flow = "batch" => i = 1)
        BY <1>0, <2>1, <3>1, <4>1 DEF StreamRightly
      <4>a. PICK k \in 1 .. Len(sent[i]) : sent[i][k] = Plain(At(j))
        BY <4>2
      <4>3. k \in 1 .. Len(sent'[i]) /\ sent'[i][k] = Plain(At(j)')
        BY <1>0, <4>1, <4>a DEF WritesDown
      <4> QED
        BY <4>2, <4>3
    <3>2. CASE At(j)' = r
      <4>1. r = Plain(r)
        BY DEF Plain, Records
      <4>2. o.served \in 1 .. NRequests /\ IsAppData(r) /\ NRequests \in Nat
        BY <1>0, <2>1, <3>2, RotateAssumption DEF WritesDown
      <4>3. PICK k \in 1 .. Len(sent'[o.served]) : sent'[o.served][k] = r
        BY <1>0, <4>2 DEF WritesDown
      <4>4. Flow = "batch" => o.served = 1
        BY <4>2 DEF ServedRightly
      <4> QED
        BY <3>2, <4>1, <4>2, <4>3, <4>4
    <3> QED
      BY <1>d, <3>1, <3>2
  <2>2. ASSUME NEW i \in 1 .. NRequests, NEW k \in 1 .. Len(sent'[i])
        PROVE  \E j \in 1 .. N' : sent'[i][k] = Plain(At(j)')
    <3>1. CASE k \in 1 .. Len(sent[i]) /\ sent'[i][k] = sent[i][k]
      <4>1. PICK j \in 1 .. N : sent[i][k] = Plain(At(j))
        BY <1>0, <3>1 DEF StreamRightly
      <4>2. At(j)' = At(j) /\ j \in 1 .. N'
        BY <1>d
      <4> QED
        BY <3>1, <4>1, <4>2
    <3>2. CASE sent'[i][k] = r
      <4>1. r = Plain(r)
        BY DEF Plain, Records
      <4>2. \E j \in 1 .. N + 1 : At(j)' = r
        BY <1>a, <1>d
      <4> QED
        BY <1>d, <3>2, <4>1, <4>2
    <3> QED
      BY <1>0, <3>1, <3>2 DEF WritesDown
  <2> QED
    BY <2>1, <2>2 DEF StreamRightly
<1>3. EndsRightly'
  <2>1. ASSUME NEW j \in 1 .. N', At(j)'.kind = "ku", NEW i \in 1 .. NRequests,
               NEW k \in 1 .. Len(sent'[i]), sent'[i][k].epoch = At(j)'.epoch
        PROVE  sent'[i][k].oseq < At(j)'.oseq
    <3>0. r.kind = "ku" => ~IsAppData(r)
      BY DEF IsAppData
    <3>1. CASE j \in 1 .. N
      <4>1. At(j)' = At(j) /\ At(j).epoch < o.wkey /\ At(j).epoch \in Nat
        BY <1>a, <1>d, <2>1, <3>1, Elements DEF StreamInOrder
      <4>2. sent'[i][k] # r
        BY <1>a, <2>1, <4>1
      <4>3. k \in 1 .. Len(sent[i]) /\ sent'[i][k] = sent[i][k]
        BY <1>0, <4>2 DEF WritesDown
      <4> QED
        BY <1>0, <2>1, <3>1, <4>1, <4>3 DEF EndsRightly
    <3>2. CASE At(j)' = r
      <4>1. k \in 1 .. Len(sent[i]) /\ sent'[i][k] = sent[i][k]
        BY <1>0, <2>1, <3>0, <3>2 DEF WritesDown
      <4>2. Earlier(sent[i][k], Now)
        BY <1>0, <4>1 DEF SentRightly
      <4>3. Earlier(sent[i][k], r)
        BY <1>f, <4>2
      <4> QED
        BY <1>a, <1>c, <2>1, <3>2, <4>1, <4>3 DEF Earlier
    <3> QED
      BY <1>d, <3>1, <3>2
  <2>2. ASSUME NEW j \in 1 .. N', At(j)'.kind = "close"
        PROVE  /\ j = N' /\ o'.closed
               /\ \A i \in 1 .. NRequests : \A k \in 1 .. Len(sent'[i]) :
                     Earlier(sent'[i][k], At(j)')
    <3>1. j \notin 1 .. N
      <4> SUFFICES ASSUME j \in 1 .. N PROVE FALSE
        OBVIOUS
      <4>1. At(j).kind = "close"
        BY <1>d, <2>2
      <4> QED
        BY <1>0, <4>1 DEF EndsRightly
    <3>2. j = N + 1 /\ At(j)' = r
      BY <1>d, <3>1
    <3>3. ~IsAppData(r)
      BY <2>2, <3>2 DEF IsAppData
    <3>4. ASSUME NEW i \in 1 .. NRequests, NEW k \in 1 .. Len(sent'[i])
          PROVE  Earlier(sent'[i][k], r)
      <4>1. k \in 1 .. Len(sent[i]) /\ sent'[i][k] = sent[i][k]
        BY <1>0, <3>3 DEF WritesDown
      <4> QED
        BY <1>0, <1>f, <4>1 DEF SentRightly
    <3> QED
      BY <1>d, <2>2, <3>2, <3>4
  <2> QED
    BY <2>1, <2>2 DEF EndsRightly
<1> QED
  BY <1>1, <1>2, <1>3 DEF WrittenRightly

\* The stream loses its last records, or nothing happens to it.
LEMMA WrittenCut ==
    ASSUME Inv, WrittenRightly, ~o.closed, UNCHANGED <<recs, sent>>,
           o'.wkey = o.wkey, o'.wseq = o.wseq,
           \/ o2p' = o2p
           \/ o'.closed /\ \E k \in 0 .. Len(o2p) : o2p' = SubSeq(o2p, 1, k)
    PROVE  WrittenRightly'
<1>0. /\ SentRightly /\ StreamRightly /\ EndsRightly /\ StreamInOrder /\ Types
      /\ N \in Nat /\ Len(recs) \in Nat /\ Len(o2p) \in Nat /\ o2p \in Seq(Records)
  BY Elements DEF WrittenRightly, Inv, Types, RTypeOK
<1>1. /\ N' \in Nat /\ N' <= N /\ (N' = N \/ o'.closed)
      /\ \A j \in 1 .. N' : At(j)' = At(j)
  <2>1. CASE o2p' = o2p
    BY <1>0, <2>1 DEF N, At
  <2>2. CASE o'.closed /\ \E k \in 0 .. Len(o2p) : o2p' = SubSeq(o2p, 1, k)
    <3>1. PICK k \in 0 .. Len(o2p) : o2p' = SubSeq(o2p, 1, k)
      BY <2>2
    <3>2. Len(o2p') = k /\ \A i \in 1 .. k : o2p'[i] = o2p[i]
      BY <1>0, <3>1
    <3>3. N' = Len(recs) + k /\ N' <= N /\ N' \in Nat
      BY <1>0, <3>1, <3>2 DEF N
    <3>4. ASSUME NEW i \in 1 .. N' PROVE At(i)' = At(i)
      BY <1>0, <3>1, <3>2, <3>3 DEF At
    <3> QED
      BY <2>2, <3>3, <3>4
  <2> QED
    BY <2>1, <2>2
<1>2. \A j \in 1 .. N' : j \in 1 .. N
  BY <1>0, <1>1
<1>3. SentRightly'
  BY <1>0 DEF SentRightly, Now
<1>4. StreamRightly'
  <2>1. ASSUME NEW j \in 1 .. N', IsAppData(At(j)')
        PROVE  \E i \in 1 .. NRequests : \E k \in 1 .. Len(sent'[i]) :
                  sent'[i][k] = Plain(At(j)') /\ (Flow = "batch" => i = 1)
    <3>1. At(j)' = At(j) /\ j \in 1 .. N
      BY <1>1, <1>2
    <3> QED
      BY <1>0, <2>1, <3>1 DEF StreamRightly
  <2>2. ASSUME NEW i \in 1 .. NRequests, NEW k \in 1 .. Len(sent[i])
        PROVE  \/ \E j \in 1 .. N' : sent[i][k] = Plain(At(j)')
               \/ o'.closed /\ \A j \in 1 .. N' : Earlier(At(j)', sent[i][k])
    <3>1. PICK j \in 1 .. N : sent[i][k] = Plain(At(j))
      BY <1>0 DEF StreamRightly
    <3>2. CASE j \in 1 .. N'
      BY <1>1, <3>1, <3>2
    <3>3. CASE j \notin 1 .. N'
      <4>1. o'.closed
        BY <1>1, <3>3
      <4>2. ASSUME NEW h \in 1 .. N' PROVE Earlier(At(h)', sent[i][k])
        <5>1. h \in 1 .. N /\ h < j /\ At(h)' = At(h)
          BY <1>0, <1>1, <1>2, <3>3
        <5>2. Before(At(h), h, At(j).epoch, At(j).oseq, j)
          BY <1>0, <5>1 DEF StreamInOrder
        <5>3. /\ At(h).epoch \in Nat /\ At(h).oseq \in Nat /\ At(j).epoch \in Nat
              /\ At(j).oseq \in Nat
          BY <1>0, <5>1, Elements
        <5>4. Earlier(At(h), At(j))
          BY <5>1, <5>2, <5>3 DEF Before, Earlier
        <5> QED
          BY <3>1, <5>1, <5>4 DEF Earlier, Plain
      <4> QED
        BY <4>1, <4>2
    <3> QED
      BY <3>2, <3>3
  <2> QED
    BY <2>1, <2>2 DEF StreamRightly
<1>5. EndsRightly'
  <2>1. \A j \in 1 .. N' : At(j)'.kind # "close"
    BY <1>0, <1>1, <1>2 DEF EndsRightly
  <2>2. \A j \in 1 .. N' : At(j)'.kind = "ku" =>
           \A i \in 1 .. NRequests : \A k \in 1 .. Len(sent[i]) :
              sent[i][k].epoch = At(j)'.epoch => sent[i][k].oseq < At(j)'.oseq
    BY <1>0, <1>1, <1>2 DEF EndsRightly
  <2> QED
    BY <2>1, <2>2 DEF EndsRightly
<1> QED
  BY <1>3, <1>4, <1>5 DEF WrittenRightly

LEMMA WrittenKept ==
    ASSUME Inv, Move, WrittenRightly, ServedRightly
    PROVE  WrittenRightly'
<1>1. CASE ~MoveOrigin
  BY <1>1, WrittenStays
<1>2. CASE MoveOrigin
  <2>1. OriginSeals
    BY <1>2, OriginWork
  <2>2. CASE \E r \in Records :
                /\ Seals(r) /\ r.seq = 0 /\ (o'.closed <=> r.kind = "close")
                /\ IF IsAppData(r)
                   THEN o.todo # <<>> /\ sent' = [sent EXCEPT ![o.served] = Append(@, r)]
                   ELSE sent' = sent
    <3>1. ~o.closed /\ UNCHANGED recs
      BY <2>1 DEF OriginSeals
    <3> QED
      BY <2>2, <3>1, WrittenSealed
  <2>3. CASE ~\E r \in Records :
                /\ Seals(r) /\ r.seq = 0 /\ (o'.closed <=> r.kind = "close")
                /\ IF IsAppData(r)
                   THEN o.todo # <<>> /\ sent' = [sent EXCEPT ![o.served] = Append(@, r)]
                   ELSE sent' = sent
    <3>1. /\ ~o.closed /\ UNCHANGED <<recs, sent>>
          /\ o'.wkey = o.wkey /\ o'.wseq = o.wseq
          /\ \/ o2p' = o2p
             \/ o'.closed /\ \E k \in 0 .. Len(o2p) : o2p' = SubSeq(o2p, 1, k)
      BY <2>1, <2>3 DEF OriginSeals
    <3> QED
      BY <3>1, WrittenCut
  <2> QED
    BY <2>2, <2>3
<1> QED
  BY <1>1, <1>2

LEMMA ServedKept ==
    ASSUME Flow = "epoch" => MaxUpdates = 0, Inv, Move, Types', ServedRightly
    PROVE  ServedRightly'
<1>0. /\ p2o \in Seq(Requests) /\ Len(p2o) \in Nat /\ o.rkey \in Nat /\ o.wkey \in Nat
      /\ o.updates \in Nat /\ MaxUpdates \in Nat /\ NRequests \in Nat /\ p.round \in Nat
      /\ p.epoch \in Nat
  <2>1. p2o \in Seq(Requests) /\ o \in Origins /\ Types
    BY DEF Inv, Types
  <2>2. o.rkey \in Nat /\ o.wkey \in Nat /\ o.updates \in Nat
    BY <2>1 DEF Origins
  <2>3. p.round \in Nat /\ p.epoch \in Nat
    BY <2>1, ProverFields
  <2> QED
    BY <2>1, <2>2, <2>3, RotateAssumption
<1>a. \A i \in 1 .. Len(p2o) : p2o[i].resp \in 1 .. NRequests /\ p2o[i].resp \in Nat
  <2>1. \A i \in 1 .. Len(p2o) : p2o[i] \in Requests
    BY <1>0
  <2>2. \A r \in Requests : r.resp \in 1 .. NRequests
    BY DEF Requests
  <2> QED
    BY <1>0, <2>1, <2>2
<1>b. Flow = "batch" => p'.round = 1
  <2> SUFFICES ASSUME Flow = "batch" PROVE p'.round = p.round
    BY DEF ServedRightly
  <2> QED
    BY ProverEffects, CaptureEffects DEF Move, SameRound, MoveIdle, MoveOrigin
<1>1. CASE ~MoveOrigin
  <2>1. o' = o
    BY <1>1, StreamStays
  <2>2. \A i \in 1 .. Len(p2o') :
           \/ i \in 1 .. Len(p2o) /\ p2o'[i] = p2o[i]
           \/ /\ p2o'[i].resp = p.round
              /\ Flow = "epoch" => p2o'[i].key = ClientKey(p2o'[i].resp - 1)
    <3>1. CASE p2o' = p2o
      BY <3>1
    <3>2. CASE p2o' # p2o
      <4>1. PICK kind \in {"req", "ku"} :
               /\ p2o' = Append(p2o, Sealed1(kind)) /\ Sealed1(kind) \in Requests
               /\ Sealed1(kind).key = p.ckey /\ Sealed1(kind).resp = p.round
        BY <1>1, <3>2, SentGrows
      <4> DEFINE r == Sealed1(kind)
      <4>2. r \in Requests /\ p2o' = Append(p2o, r) /\ r.key = p.ckey /\ r.resp = p.round
        BY <4>1
      <4> HIDE DEF r
      <4>3. \A i \in 1 .. Len(p2o') :
               p2o'[i] = r \/ (i \in 1 .. Len(p2o) /\ p2o'[i] = p2o[i])
        BY <1>0, <4>2
      <4>4. p.pc \in {"request_tag", "ku_tag"}
        BY <1>1, <3>2
           DEF Move, MoveIdle, MoveFails, MoveEstablish, MoveOn, MoveRequest, MoveUpdate,
               MoveClient, MoveCapture, MovePasses, MoveRejects, MoveRelease, MoveOpen,
               MoveServer, Quiet
      <4>5. Flow = "epoch" => p.ckey = ClientKey(p.epoch) /\ p.round = p.epoch + 1
        BY <4>4 DEF Inv, KeysInStep, Running, ClientTurned
      <4>6. Flow = "epoch" => r.key = ClientKey(r.resp - 1)
        BY <1>0, <4>2, <4>5 DEF ClientKey
      <4> QED
        BY <4>2, <4>3, <4>6
    <3> QED
      BY <3>1, <3>2
  <2>3. Flow = "epoch" => \A i \in 1 .. Len(p2o') : p2o'[i].key = ClientKey(p2o'[i].resp - 1)
    BY <2>2 DEF ServedRightly
  <2>4. Flow = "batch" => \A i \in 1 .. Len(p2o') : p2o'[i].resp = 1
    BY <2>2 DEF ServedRightly
  <2> QED
    BY <1>b, <2>1, <2>3, <2>4 DEF ServedRightly, ClientKey
<1>2. CASE MoveOrigin
  <2>0. OriginServes
    BY <1>2, OriginWork
  <2>1. o'.updates <= MaxUpdates /\ o'.wkey = o'.rkey + o'.updates
    <3>1. o.updates <= MaxUpdates /\ o.wkey = o.rkey + o.updates
      BY DEF ServedRightly
    <3>2. \/ o'.rkey = o.rkey /\ o'.wkey = o.wkey /\ o'.updates = o.updates
          \/ /\ o'.rkey = o.rkey /\ o'.wkey = o.wkey + 1 /\ o'.updates = o.updates + 1
             /\ o.updates < MaxUpdates
          \/ o'.rkey = o.rkey + 1 /\ o'.wkey = o.wkey + 1 /\ o'.updates = o.updates
      BY <2>0 DEF OriginServes, SameTurn
    <3>3. o.rkey \in Nat /\ o.wkey \in Nat /\ o.updates \in Nat /\ MaxUpdates \in Nat
      BY <1>0, RotateAssumption
    <3> QED
      BY <3>1, <3>2, <3>3
  <2>2. CASE p2o' = p2o /\ o'.served = o.served /\ (o.todo = <<>> => o'.todo = <<>>)
    <3>1. Flow = "epoch" /\ o'.todo # <<>> => o'.served = o'.wkey + 1
      <4> SUFFICES ASSUME Flow = "epoch", o'.todo # <<>> PROVE o'.wkey = o.wkey
        BY <2>2 DEF ServedRightly
      <4>1. CASE p2o # <<>> /\ p2o' = Tail(p2o)
        <5>1. Len(p2o') = Len(p2o) - 1 /\ Len(p2o) \in Nat
          BY <1>0, <4>1, TailFacts
        <5> QED
          BY <2>2, <5>1
      <4>2. CASE o'.wkey = o.wkey + 1 /\ o.updates < MaxUpdates
        BY <1>0, <4>2
      <4> QED
        BY <2>0, <4>1, <4>2 DEF OriginServes, SameTurn
    <3> QED
      BY <1>b, <2>1, <2>2, <3>1 DEF ServedRightly
  <2>3. CASE p2o # <<>> /\ p2o' = Tail(p2o)
    <3>1. /\ Len(p2o) > 0 /\ Len(p2o') = Len(p2o) - 1 /\ 1 \in 1 .. Len(p2o)
          /\ \A i \in 1 .. Len(p2o) - 1 : p2o'[i] = p2o[i + 1] /\ i + 1 \in 1 .. Len(p2o)
      <4>1. /\ Len(p2o) > 0 /\ Len(p2o') = Len(p2o) - 1
            /\ \A i \in 1 .. Len(p2o) - 1 : p2o'[i] = p2o[i + 1]
        BY <1>0, <2>3, TailFacts
      <4> QED
        BY <1>0, <4>1
    <3>2. /\ Flow = "epoch" =>
                \A i \in 1 .. Len(p2o') : p2o'[i].key = ClientKey(p2o'[i].resp - 1)
          /\ Flow = "batch" => \A i \in 1 .. Len(p2o') : p2o'[i].resp = 1
      <4>1. \A i \in 1 .. Len(p2o') : \E m \in 1 .. Len(p2o) : p2o'[i] = p2o[m]
        BY <3>1
      <4> QED
        BY <4>1 DEF ServedRightly
    <3>3. p2o' # p2o
      BY <1>0, <3>1
    <3>4. CASE o'.todo = <<>> /\ o'.served = o.served
      BY <1>b, <2>1, <3>2, <3>4 DEF ServedRightly
    <3>5. CASE SameTurn /\ o'.served = p2o[1].resp
      <4>1. p2o[1].key = ClientKey(o.rkey)
        BY <2>3 DEF Inv, SentInOrder
      <4>2. o'.served \in 1 .. NRequests /\ (Flow = "batch" => o'.served = 1)
        BY <1>a, <3>1, <3>5 DEF ServedRightly
      <4>3. Flow = "epoch" => o'.served = o'.wkey + 1
        <5> SUFFICES ASSUME Flow = "epoch" PROVE o'.served = o'.wkey + 1
          OBVIOUS
        <5>1. ClientKey(o.rkey) = ClientKey(o'.served - 1) /\ o'.served \in Nat
          BY <1>a, <3>1, <3>5, <4>1 DEF ServedRightly
        <5>2. o.wkey = o.rkey /\ o'.wkey = o.wkey
          BY <1>0, <3>5 DEF ServedRightly, SameTurn
        <5>3. o.rkey \in Nat
          BY <1>0
        <5> QED
          BY <5>1, <5>2, <5>3 DEF ClientKey
      <4>4. Flow = "batch" => o'.served <= 1
        BY <4>2
      <4> QED
        BY <1>b, <2>1, <3>2, <4>2, <4>3, <4>4 DEF ServedRightly
    <3> QED
      BY <2>0, <3>3, <3>4, <3>5 DEF OriginServes
  <2> QED
    BY <2>0, <2>2, <2>3 DEF OriginServes
<1> QED
  BY <1>1, <1>2

-----------------------------------------------------------------------------
(* What is handed out is the response *)

LEMMA DataPlain ==
    ASSUME NEW a \in Seq(Records)
    PROVE  /\ Data(a) \in Seq(Records) /\ Len(Data(a)) = Len(a)
           /\ \A k \in 1 .. Len(a) : Data(a)[k] = Plain(a[k])
<1>1. \A r \in Records : Plain(r) \in Records /\ [r EXCEPT !.seq = 0] = Plain(r)
  <2> SUFFICES ASSUME NEW r \in Records
               PROVE  Plain(r) \in Records /\ [r EXCEPT !.seq = 0] = Plain(r)
    OBVIOUS
  <2>1. Plain(r) \in Records
    BY DEF Plain, Records
  <2>2. r = [kind |-> r.kind, epoch |-> r.epoch, oseq |-> r.oseq, seq |-> r.seq, resp |-> r.resp]
    BY DEF Records
  <2>3. [r EXCEPT !.seq = 0] = Plain(r)
    BY <2>2 DEF Plain
  <2> QED
    BY <2>1, <2>3
<1>2. DOMAIN a = 1 .. Len(a) /\ Len(a) \in Nat /\ \A k \in 1 .. Len(a) : a[k] \in Records
  OBVIOUS
<1>3. Data(a) = [k \in 1 .. Len(a) |-> [a[k] EXCEPT !.seq = 0]]
  BY <1>2 DEF Data
<1>4. \A k \in 1 .. Len(a) : [a[k] EXCEPT !.seq = 0] = Plain(a[k]) /\ Plain(a[k]) \in Records
  BY <1>1, <1>2
<1>5. Data(a) = [k \in 1 .. Len(a) |-> Plain(a[k])]
  BY <1>3, <1>4
<1>6. Data(a) \in [1 .. Len(a) -> Records]
  BY <1>4, <1>5
<1>7. Data(a) \in Seq(Records) /\ Len(Data(a)) = Len(a)
  BY <1>2, <1>5, <1>6
<1> QED
  BY <1>5, <1>7

\* The records that a release opens are, leaving aside tickets and the mark at
\* their end, the whole response to the request of this round.
LEMMA WholeResponse ==
    ASSUME Inv, WrittenRightly, ServedRightly, p.pc = "open", p.end = Len(recs),
           recs[Len(recs)].kind = IF Flow = "batch" \/ Last THEN "close" ELSE "ku",
           NEW rs \in Seq(Records), rs = IF Flow = "epoch" THEN Epoch ELSE recs
    PROVE  /\ Data(AppData(rs)) = sent[p.round] /\ AppData(rs) \in Seq(Records)
           /\ o.closed \/ (Flow = "epoch" /\ p.round <= o.wkey)
<1> DEFINE b == IF Flow = "epoch" THEN p.start ELSE 0
           L == Len(recs)
           S == sent[p.round]
<1>0. /\ SentRightly /\ StreamRightly /\ EndsRightly /\ StreamInOrder /\ Types
      /\ N \in Nat /\ Len(recs) \in Nat /\ p.start \in Nat /\ p.epoch \in Nat /\ p.round \in Nat
      /\ p.round \in 1 .. NRequests /\ o.wkey \in Nat /\ p.start < Len(recs) /\ L <= N
  <2>1. Types /\ o \in Origins
    BY DEF Inv, Types
  <2>2. p.end \in p.start + 1 .. Len(recs)
    BY DEF Inv, Checked
  <2>3. N = Len(recs) + Len(o2p) /\ Len(o2p) \in Nat /\ N \in Nat /\ Len(recs) \in Nat
    BY <2>1, Elements DEF N
  <2>4. p.start \in Nat /\ p.epoch \in Nat /\ p.round \in Nat /\ p.round \in 1 .. NRequests
    BY <2>1, ProverFields
  <2>5. o.wkey \in Nat
    BY <2>1 DEF Origins
  <2> QED
    BY <2>1, <2>2, <2>3, <2>4, <2>5 DEF WrittenRightly, Inv
<1>1. b \in Nat /\ b < L /\ L \in 1 .. N /\ At(L) = recs[L]
  BY <1>0 DEF At
<1>2. /\ Len(rs) = L - b
      /\ \A i \in 1 .. Len(rs) : rs[i] = At(b + i) /\ b + i \in 1 .. N /\ b + i \in b + 1 .. L
  <2>1. Len(rs) = L - b /\ \A i \in 1 .. Len(rs) : rs[i] = recs[b + i]
    <3>1. CASE Flow = "epoch"
      BY <3>1, EpochRecords
    <3>2. CASE Flow # "epoch"
      BY <1>0, <3>2
    <3> QED
      BY <3>1, <3>2
  <2>a. b \in Nat /\ L \in Nat /\ N \in Nat /\ L <= N
    BY <1>0, <1>1
  <2> HIDE DEF b, L
  <2>2. \A i \in 1 .. L - b : b + i \in 1 .. N /\ b + i \in b + 1 .. L /\ b + i <= L
    BY <2>a
  <2> USE DEF b, L
  <2>3. \A j : j <= L => At(j) = recs[j]
    BY DEF At
  <2> HIDE DEF b, L
  <2> QED
    BY <2>1, <2>2, <2>3
<1>3. \A j \in 1 .. N : At(j).epoch \in Nat /\ At(j).oseq \in Nat
  BY <1>0, Elements
<1>4. Flow = "epoch" =>
         p.round = p.epoch + 1 /\ \A j \in b + 1 .. L : At(j).epoch = p.epoch
  <2>1. Flow = "epoch" => p.round = p.epoch + 1
    BY DEF Inv, KeysInStep, Running
  <2>2. \A j \in p.start + 1 .. L : recs[j].epoch = p.epoch
    BY DEF Inv, Checked
  <2>3. \A j \in p.start + 1 .. L : At(j) = recs[j]
    BY <1>0 DEF At
  <2> QED
    BY <2>1, <2>2, <2>3
<1>5. Flow = "batch" => p.round = 1
  BY DEF ServedRightly
<1>6. At(L).kind = "close" \/ (Flow = "epoch" /\ At(L).kind = "ku")
  <2>1. recs[L].kind = "close" \/ (Flow # "batch" /\ recs[L].kind = "ku")
    BY DEF Last
  <2> QED
    BY <1>1, <2>1, RotateAssumption
<1>7. /\ S \in Seq(Records) /\ InOrder(S)
      /\ \A l \in 1 .. Len(S) : /\ IsAppData(S[l]) /\ S[l].epoch \in Nat /\ S[l].oseq \in Nat
                                /\ Flow = "epoch" => S[l].epoch = p.epoch
  <2>1. S \in Seq(Records) /\ InOrder(S) /\ \A l \in 1 .. Len(S) : IsAppData(S[l])
    BY <1>0 DEF SentRightly
  <2>2. \A l \in 1 .. Len(S) : S[l] \in Records
    BY <2>1
  <2>3. \A r \in Records : r.epoch \in Nat /\ r.oseq \in Nat
    BY DEF Records
  <2>4. \A l \in 1 .. Len(S) : Flow = "epoch" => S[l].epoch = p.round - 1
    BY <1>0 DEF SentRightly
  <2>5. Flow = "epoch" => p.round - 1 = p.epoch
    <3>1. p.epoch \in Nat /\ (Flow = "epoch" => p.round = p.epoch + 1)
      BY <1>0, <1>4
    <3> QED
      BY <3>1
  <2> HIDE DEF S
  <2> QED
    BY <2>1, <2>2, <2>3, <2>4, <2>5
<1>8. InOrder(rs)
  <2> SUFFICES ASSUME NEW i \in 1 .. Len(rs), NEW j \in 1 .. Len(rs), i < j
               PROVE  Earlier(rs[i], rs[j])
    BY DEF InOrder
  <2> DEFINE x == b + i
             y == b + j
  <2>1. rs[i] = At(x) /\ rs[j] = At(y) /\ x < y /\ x \in 1 .. N /\ y \in 1 .. N
    BY <1>1, <1>2
  <2> HIDE DEF x, y
  <2>2. Before(At(x), x, At(y).epoch, At(y).oseq, y)
    BY <1>0, <2>1 DEF StreamInOrder
  <2>3. /\ At(x).epoch \in Nat /\ At(x).oseq \in Nat /\ At(y).epoch \in Nat
        /\ At(y).oseq \in Nat
    BY <1>3, <2>1
  <2>4. Earlier(At(x), At(y))
    BY <2>1, <2>2, <2>3 DEF Before, Earlier
  <2> QED
    BY <2>1, <2>4
<1> HIDE DEF b, L, S
<1>9. ASSUME NEW k \in 1 .. Len(rs), IsAppData(rs[k])
      PROVE  \E l \in 1 .. Len(S) : S[l] = Plain(rs[k])
  <2>1. rs[k] = At(b + k) /\ b + k \in 1 .. N /\ b + k \in b + 1 .. L
    BY <1>2
  <2>2. PICK i \in 1 .. NRequests : \E l \in 1 .. Len(sent[i]) :
            sent[i][l] = Plain(At(b + k)) /\ (Flow = "batch" => i = 1)
    BY <1>0, <1>9, <2>1 DEF StreamRightly
  <2>3. PICK l \in 1 .. Len(sent[i]) :
            sent[i][l] = Plain(At(b + k)) /\ (Flow = "batch" => i = 1)
    BY <2>2
  <2>4. i = p.round
    <3>1. CASE Flow = "epoch"
      <4>1. i \in Nat
        BY RotateAssumption
      <4>2. SentRightly
        BY <1>0
      <4>3. \A m \in 1 .. Len(sent[i]) : sent[i][m].epoch = i - 1
        BY <3>1, <4>2 DEF SentRightly
      <4>4. sent[i][l].epoch = p.epoch
        BY <1>4, <2>1, <2>3, <3>1 DEF Plain
      <4>5. p.round = p.epoch + 1 /\ p.epoch \in Nat
        BY <1>0, <1>4, <3>1
      <4> QED
        BY <4>1, <4>3, <4>4, <4>5
    <3>2. CASE Flow = "batch"
      BY <1>5, <2>3, <3>2
    <3> QED
      BY <3>1, <3>2, RotateAssumption
  <2> QED
    BY <2>1, <2>3, <2>4 DEF S
<1>10. ASSUME NEW l \in 1 .. Len(S)
       PROVE  \E k \in 1 .. Len(rs) : IsAppData(rs[k]) /\ S[l] = Plain(rs[k])
  <2>1. CASE \E j \in 1 .. N : S[l] = Plain(At(j))
    <3>1. PICK j \in 1 .. N : S[l] = Plain(At(j))
      BY <2>1
    <3>2. S[l].epoch = At(j).epoch /\ IsAppData(At(j))
      <4>1. S[l].epoch = At(j).epoch /\ S[l].kind = At(j).kind
        BY <3>1 DEF Plain
      <4> QED
        BY <1>7, <4>1 DEF IsAppData
    <3>3. j <= L
      <4> SUFFICES ASSUME j > L PROVE FALSE
        BY <1>0, <1>1
      <4>1. CASE At(L).kind = "close"
        <5>1. L = N
          BY <1>0, <1>1, <4>1 DEF EndsRightly
        <5> QED
          BY <1>0, <5>1
      <4>2. CASE Flow = "epoch" /\ At(L).kind = "ku"
        <5>1. L < j
          BY <1>1
        <5>2. Before(At(L), L, At(j).epoch, At(j).oseq, j)
          BY <1>0, <1>1, <5>1 DEF StreamInOrder
        <5>3. At(L).epoch < At(j).epoch
          BY <4>2, <5>2 DEF Before
        <5>4. L \in b + 1 .. L
          BY <1>1
        <5>5. At(L).epoch = p.epoch /\ At(j).epoch = p.epoch
          BY <1>4, <1>7, <3>2, <4>2, <5>4
        <5> QED
          BY <1>0, <5>3, <5>5
      <4> QED
        BY <1>6, <4>1, <4>2
    <3>4. j > b
      <4>1. CASE Flow = "epoch"
        <5> SUFFICES ASSUME j <= p.start PROVE FALSE
          BY <1>0, <4>1 DEF b
        <5>1. /\ p.start \in 1 .. N /\ At(p.start) = recs[p.start] /\ p.start > 0
          BY <1>0 DEF At, L
        <5>2. recs[p.start].kind = "ku" /\ recs[p.start].epoch + 1 = p.epoch
          BY <5>1 DEF Inv, EpochStart
        <5>3. At(j).epoch <= At(p.start).epoch
          <6>1. CASE j = p.start
            BY <1>3, <6>1
          <6>2. CASE j # p.start
            <7>1. j < p.start
              BY <1>0, <6>2
            <7>2. Before(At(j), j, At(p.start).epoch, At(p.start).oseq, p.start)
              BY <1>0, <5>1, <7>1 DEF StreamInOrder
            <7> QED
              BY <7>2 DEF Before
          <6> QED
            BY <6>1, <6>2
        <5>4. At(j).epoch = p.epoch
          BY <1>7, <3>2, <4>1
        <5>5. At(p.start).epoch \in Nat
          BY <1>3, <5>1
        <5> QED
          BY <1>0, <5>1, <5>2, <5>3, <5>4, <5>5
      <4>2. CASE Flow # "epoch"
        BY <4>2 DEF b
      <4> QED
        BY <4>1, <4>2
    <3>5. j - b \in 1 .. L - b /\ b + (j - b) = j
      BY <1>1, <3>3, <3>4
    <3> DEFINE k == j - b
    <3>6. k \in 1 .. Len(rs) /\ b + k = j
      BY <1>2, <3>5
    <3> HIDE DEF k
    <3>7. rs[k] = At(j)
      BY <1>2, <3>6
    <3> QED
      BY <3>1, <3>2, <3>6, <3>7
  <2>2. CASE ~\E j \in 1 .. N : S[l] = Plain(At(j))
    <3>1. \A j \in 1 .. N : Earlier(At(j), S[l])
      BY <1>0, <2>2 DEF StreamRightly, S
    <3>2. Earlier(At(L), S[l]) /\ At(L).epoch \in Nat /\ At(L).oseq \in Nat
      BY <1>1, <1>3, <3>1
    <3>3. CASE At(L).kind = "close"
      <4>1. Earlier(S[l], At(L))
        BY <1>0, <1>1, <3>3 DEF EndsRightly, S
      <4> QED
        BY <1>7, <3>2, <4>1 DEF Earlier
    <3>4. CASE Flow = "epoch" /\ At(L).kind = "ku"
      <4>1. L \in b + 1 .. L
        BY <1>1
      <4>2. S[l].epoch = At(L).epoch
        BY <1>4, <1>7, <3>4, <4>1
      <4>3. S[l].oseq < At(L).oseq
        BY <1>0, <1>1, <3>4, <4>2 DEF EndsRightly, S
      <4> QED
        BY <1>7, <3>2, <4>2, <4>3 DEF Earlier
    <3> QED
      BY <1>6, <3>3, <3>4
  <2> QED
    BY <2>1, <2>2
<1> DEFINE a == AppData(rs)
<1>11. Collects(a, Len(rs), rs)
  BY AppDataCollects
<1> HIDE DEF a
<1> DEFINE d == Data(a)
<1>12. /\ a \in Seq(Records) /\ InOrder(a) /\ Len(a) \in Nat
       /\ \A k \in 1 .. Len(a) : \E i \in 1 .. Len(rs) : IsAppData(rs[i]) /\ a[k] = rs[i]
       /\ \A i \in 1 .. Len(rs) : IsAppData(rs[i]) => \E k \in 1 .. Len(a) : a[k] = rs[i]
  BY <1>8, <1>11 DEF Collects
<1>13. /\ d \in Seq(Records) /\ Len(d) = Len(a) /\ \A k \in 1 .. Len(a) : d[k] = Plain(a[k])
  BY <1>12, DataPlain
<1> HIDE DEF d
<1>14. InOrder(d)
  <2> SUFFICES ASSUME NEW k \in 1 .. Len(a), NEW l \in 1 .. Len(a), k < l
               PROVE  Earlier(d[k], d[l])
    BY <1>13 DEF InOrder
  <2>1. Earlier(a[k], a[l])
    BY <1>12 DEF InOrder
  <2>2. d[k] = Plain(a[k]) /\ d[l] = Plain(a[l])
    BY <1>13
  <2>3. /\ d[k].epoch = a[k].epoch /\ d[k].oseq = a[k].oseq
        /\ d[l].epoch = a[l].epoch /\ d[l].oseq = a[l].oseq
    BY <2>2 DEF Plain
  <2> QED
    BY <2>1, <2>3 DEF Earlier
<1>15. \A k \in 1 .. Len(d) : \E l \in 1 .. Len(S) : d[k] = S[l]
  <2> SUFFICES ASSUME NEW k \in 1 .. Len(a) PROVE \E l \in 1 .. Len(S) : d[k] = S[l]
    BY <1>13
  <2>1. PICK i \in 1 .. Len(rs) : IsAppData(rs[i]) /\ a[k] = rs[i]
    BY <1>12
  <2>2. PICK l \in 1 .. Len(S) : S[l] = Plain(rs[i])
    BY <1>9, <2>1
  <2> QED
    BY <1>13, <2>1, <2>2
<1>16. \A l \in 1 .. Len(S) : \E k \in 1 .. Len(d) : d[k] = S[l]
  <2> SUFFICES ASSUME NEW l \in 1 .. Len(S) PROVE \E k \in 1 .. Len(a) : d[k] = S[l]
    BY <1>13
  <2>1. PICK i \in 1 .. Len(rs) : IsAppData(rs[i]) /\ S[l] = Plain(rs[i])
    BY <1>10
  <2>2. PICK k \in 1 .. Len(a) : a[k] = rs[i]
    BY <1>12, <2>1
  <2> QED
    BY <1>13, <2>1, <2>2
<1>17. d = S
  BY <1>7, <1>13, <1>14, <1>15, <1>16, SameOrder
<1>18. o.closed \/ (Flow = "epoch" /\ p.round <= o.wkey)
  <2>1. CASE At(L).kind = "close"
    BY <1>0, <1>1, <2>1 DEF EndsRightly
  <2>2. CASE Flow = "epoch" /\ At(L).kind = "ku"
    <3>1. At(L).epoch < o.wkey
      BY <1>0, <1>1, <2>2 DEF StreamInOrder
    <3>2. L \in b + 1 .. L
      BY <1>1
    <3>3. At(L).epoch = p.epoch /\ p.round = p.epoch + 1
      BY <1>4, <2>2, <3>2
    <3> QED
      BY <1>0, <2>2, <3>1, <3>3
  <2> QED
    BY <1>6, <2>1, <2>2
<1> QED
  BY <1>12, <1>17, <1>18 DEF d, a, S

LEMMA GivenKept ==
    ASSUME Flow = "epoch" => MaxUpdates = 0, Inv, Move, WrittenRightly, ServedRightly,
           GivenRightly
    PROVE  GivenRightly'
<1> DEFINE After(pc) == pc \in {"replay", "psk_done", "stop", "done"}
                        \/ (pc = "rotate_server" /\ Flow = "epoch")
<1>0. /\ delivered \in Seq(Seq(Records)) /\ Len(delivered) \in Nat /\ p.round \in Nat
      /\ p.round \in 1 .. NRequests /\ p \in Provers /\ o.wkey \in Nat
      /\ p.pc # "fail" => Len(delivered) = IF After(p.pc) THEN p.round ELSE p.round - 1
  <2>1. /\ delivered \in Seq(Seq(Records))
        /\ p.pc # "fail" => Len(delivered) = IF After(p.pc) THEN p.round ELSE p.round - 1
    BY DEF GivenRightly
  <2>2. p \in Provers /\ o \in Origins /\ Types
    BY DEF Inv, Types, RTypeOK
  <2>3. p.round \in Nat /\ p.round \in 1 .. NRequests
    BY <2>2, ProverFields
  <2>4. o.wkey \in Nat
    BY <2>2 DEF Origins
  <2>5. Len(delivered) \in Nat
    BY <2>1
  <2> QED
    BY <2>1, <2>2, <2>3, <2>4, <2>5
<1>1. CASE delivered' # delivered
  <2>1. /\ p.pc = "open" /\ p.end = Len(recs) /\ UNCHANGED <<o, sent>> /\ p'.pc = "replay"
        /\ p'.round = p.round
        /\ recs[Len(recs)].kind = IF Flow = "batch" \/ Last THEN "close" ELSE "ku"
    BY <1>1, HandsOut DEF Quiet, SameRound
  <2>2. PICK rs \in Seq(Records) :
           /\ rs = (IF Flow = "epoch" THEN Epoch ELSE recs)
           /\ delivered' = Append(delivered, AppData(rs))
    BY <1>1, HandsOut
  <2> DEFINE a == AppData(rs)
  <2>3. /\ Data(a) = sent[p.round] /\ a \in Seq(Records)
        /\ o.closed \/ (Flow = "epoch" /\ p.round <= o.wkey)
    BY <2>1, <2>2, WholeResponse
  <2>4. delivered' = Append(delivered, a)
    BY <2>2
  <2> HIDE DEF a
  <2>5. Len(delivered) = p.round - 1
    BY <1>0, <2>1
  <2>6. /\ delivered' \in Seq(Seq(Records)) /\ Len(delivered') = p.round
        /\ \A i \in 1 .. Len(delivered') :
              \/ i = p.round /\ delivered'[i] = a
              \/ i \in 1 .. Len(delivered) /\ delivered'[i] = delivered[i]
    <3>1. /\ Append(delivered, a) \in Seq(Seq(Records))
          /\ Len(Append(delivered, a)) = Len(delivered) + 1
          /\ Append(delivered, a)[Len(delivered) + 1] = a
          /\ \A i \in 1 .. Len(delivered) : Append(delivered, a)[i] = delivered[i]
      BY <1>0, <2>3
    <3>2. Len(delivered) + 1 = p.round
      BY <1>0, <2>5
    <3>3. \A i \in 1 .. p.round : i = p.round \/ i \in 1 .. Len(delivered)
      BY <1>0, <2>5
    <3> QED
      BY <2>4, <3>1, <3>2, <3>3
  <2>7. ASSUME NEW i \in 1 .. Len(delivered')
        PROVE  /\ i \in 1 .. NRequests /\ Data(delivered'[i]) = sent[i]
               /\ o.closed \/ (Flow = "epoch" /\ i <= o.wkey)
    <3>1. CASE i = p.round /\ delivered'[i] = a
      BY <1>0, <2>3, <3>1
    <3>2. CASE i \in 1 .. Len(delivered) /\ delivered'[i] = delivered[i]
      BY <3>2 DEF GivenRightly
    <3> QED
      BY <2>6, <3>1, <3>2
  <2> QED
    BY <2>1, <2>6, <2>7 DEF GivenRightly, Data
<1>2. CASE delivered' = delivered
  <2>1. ASSUME p'.pc # "fail"
        PROVE  Len(delivered) = IF After(p'.pc) THEN p'.round ELSE p'.round - 1
    <3>1. CASE MoveIdle \/ MoveOrigin
      BY <1>0, <2>1, <3>1 DEF MoveIdle, MoveOrigin
    <3>2. CASE MoveEstablish \/ MoveRequest \/ MoveUpdate \/ MoveClient \/ MovePasses
               \/ MoveRejects \/ MoveRelease
      <4>1. p'.round = p.round
        BY <3>2, ProverEffects DEF SameRound
      <4>2. p.pc # "fail" /\ ~After(p.pc) /\ ~After(p'.pc)
        BY <3>2, ProverEffects
           DEF MoveEstablish, MoveRequest, MoveUpdate, MoveClient, MovePasses, MoveRejects,
               MoveRelease
      <4> QED
        BY <1>0, <4>1, <4>2
    <3>3. CASE MoveCapture
      <4>1. p'.round = p.round /\ p.pc = "drain" /\ p'.pc = "drain"
        BY <3>3, CaptureEffects DEF SameRound
      <4> QED
        BY <1>0, <4>1
    <3>4. CASE MoveOn
      <4>1. /\ p'.round = p.round
            /\ <<p.pc, p'.pc>> \in
                  {<<"request", "request_tag">>, <<"ku", "ku_tag">>,
                   <<"drain", "commit">>, <<"commit", "verify">>,
                   <<"replay", "psk_done">>, <<"replay", AfterReplay>>,
                   <<"psk_done", AfterReplay>>, <<"stop", "done">>}
        BY <3>4, ProverEffects DEF SameRound
      <4>2. After(AfterReplay)
        BY DEF AfterReplay
      <4>3. p.pc # "fail" /\ (After(p.pc) <=> After(p'.pc))
        BY <4>1, <4>2
      <4> QED
        BY <1>0, <4>1, <4>3
    <3>5. CASE MoveOpen
      <4>1. p.pc = "open" /\ Flow = "batch" /\ p'.pc = "rotate_server" /\ p'.round = p.round
        <5>1. Append(delivered, AppData(Epoch)) # delivered
              /\ Append(delivered, AppData(recs)) # delivered
          <6>1. \A x : Len(Append(delivered, x)) = Len(delivered) + 1
            BY <1>0
          <6> QED
            BY <1>0, <6>1
        <5>2. /\ p.pc = "open" /\ Flow = "batch" /\ To("rotate_server")
          BY <1>2, <3>5, <5>1 DEF MoveOpen
        <5>3. p'.pc = "rotate_server" /\ p'.round = p.round
          BY <1>0, <5>2 DEF To, Provers
        <5> QED
          BY <5>2, <5>3
      <4> QED
        BY <1>0, <4>1
    <3>6. CASE MoveServer
      <4>0. p.pc = "rotate_server"
        BY <3>6 DEF MoveServer
      <4>1. CASE Flow = "epoch"
        <5>1. p'.round = p.round + 1 /\ p'.pc = "request"
          BY <3>6, <4>1, ProverEffects
        <5>2. Len(delivered) = p.round
          BY <1>0, <4>0, <4>1
        <5> QED
          BY <1>0, <5>1, <5>2
      <4>2. CASE Flow = "batch"
        <5>1. p'.round = p.round /\ p'.pc = "commit"
          BY <3>6, <4>2, ProverEffects
        <5> QED
          BY <1>0, <4>0, <4>2, <5>1
      <4> QED
        BY <4>1, <4>2, RotateAssumption
    <3>7. CASE MoveFails
      BY <2>1, <3>7, ProverEffects
    <3> QED
      BY <3>1, <3>2, <3>3, <3>4, <3>5, <3>6, <3>7 DEF Move
  <2>2. ASSUME NEW i \in 1 .. Len(delivered)
        PROVE  /\ i \in 1 .. NRequests /\ Data(delivered[i]) = sent'[i]
               /\ o'.closed \/ (Flow = "epoch" /\ i <= o'.wkey)
    <3>0. /\ i \in 1 .. NRequests /\ Data(delivered[i]) = sent[i]
          /\ o.closed \/ (Flow = "epoch" /\ i <= o.wkey)
      BY DEF GivenRightly
    <3>1. CASE ~MoveOrigin
      <4>1. sent' = sent /\ o' = o
        BY <3>1, WrittenStays, StreamStays
      <4> QED
        BY <3>0, <4>1
    <3>2. CASE MoveOrigin
      <4>0. OriginSeals /\ OriginServes
        BY <3>2, OriginWork
      <4>1. Flow = "epoch" /\ i <= o.wkey
        BY <3>0, <4>0 DEF OriginSeals
      <4>2. i <= o'.wkey
        <5>1. o'.wkey = o.wkey \/ o'.wkey = o.wkey + 1
          BY <4>0 DEF OriginServes, SameTurn
        <5> QED
          BY <1>0, <4>1, <5>1
      <4>3. sent'[i] = sent[i]
        <5>1. CASE sent' = sent
          BY <5>1
        <5>2. CASE o.todo # <<>> /\ \E r \in Records : sent' = [sent EXCEPT ![o.served] = Append(@, r)]
          <6>1. o.served = o.wkey + 1
            BY <4>1, <5>2 DEF ServedRightly
          <6>2. i # o.served
            BY <1>0, <4>1, <6>1
          <6>3. sent \in [1 .. NRequests -> Seq(Records)]
            BY DEF WrittenRightly, SentRightly
          <6> QED
            BY <3>0, <5>2, <6>2, <6>3
        <5> QED
          BY <4>0, <5>1, <5>2 DEF OriginSeals
      <4> QED
        BY <3>0, <4>1, <4>2, <4>3
    <3> QED
      BY <3>1, <3>2
  <2> QED
    BY <1>0, <1>2, <2>1, <2>2 DEF GivenRightly, Data
<1> QED
  BY <1>1, <1>2

HandedOut == Inv /\ WrittenRightly /\ ServedRightly /\ GivenRightly

LEMMA HandedInit == RInit => HandedOut
<1> SUFFICES ASSUME RInit PROVE WrittenRightly /\ ServedRightly /\ GivenRightly
  BY InvInit DEF HandedOut
<1>0. /\ p.pc = "setup" /\ p.round = 1 /\ delivered = <<>> /\ p2o = <<>>
      /\ o.todo = <<>> /\ o.served = 0 /\ o.rkey = 0 /\ o.wkey = 0 /\ o.updates = 0
      /\ recs = <<>> /\ o2p = <<>> /\ sent = [i \in 1 .. NRequests |-> <<>>]
  BY DEF RInit
<1>1. N = 0
  BY <1>0 DEF N
<1>2. /\ sent \in [1 .. NRequests -> Seq(Records)]
      /\ \A i \in 1 .. NRequests : sent[i] = <<>>
  BY <1>0
<1>3. WrittenRightly
  BY <1>1, <1>2 DEF WrittenRightly, SentRightly, StreamRightly, EndsRightly, InOrder
<1>4. ServedRightly
  BY <1>0, RotateAssumption DEF ServedRightly
<1>5. GivenRightly
  BY <1>0 DEF GivenRightly
<1> QED
  BY <1>3, <1>4, <1>5

LEMMA HandedKept ==
    ASSUME Flow = "epoch" => MaxUpdates = 0
    PROVE  HandedOut /\ [RNext]_rvars => HandedOut'
<1> SUFFICES ASSUME HandedOut, [RNext]_rvars PROVE HandedOut'
  OBVIOUS
<1>1. Inv /\ Move /\ Inv' /\ Types' /\ WrittenRightly /\ ServedRightly /\ GivenRightly
  BY StepsMove, InvKept DEF HandedOut, Inv
<1> QED
  BY <1>1, WrittenKept, ServedKept, GivenKept DEF HandedOut

LEMMA HandedImplies == HandedOut => RightResponse
<1> SUFFICES ASSUME HandedOut PROVE RightResponse
  OBVIOUS
<1>1. DOMAIN delivered = 1 .. Len(delivered)
  BY DEF HandedOut, GivenRightly
<1> QED
  BY <1>1 DEF HandedOut, GivenRightly, RightResponse

\* Every release hands out exactly the response to the request it follows, with
\* all its records in the order the origin wrote them, and nothing of another
\* response, for every number of requests, records, tickets and key updates and
\* whatever is lost on the way: a response cut short by a broken connection is
\* not handed out at all, because the KeyUpdate or the close_notify that ends it
\* is missing.  In the per-round flow this needs an origin that updates its keys
\* only when it is asked to; one that does so in the middle of a response ends
\* the epoch early.
THEOREM RightResponses ==
    ASSUME Flow = "epoch" => MaxUpdates = 0
    PROVE  RSpec => []RightResponse
<1>1. HandedOut /\ [RNext]_rvars => HandedOut'
  BY HandedKept
<1> QED
  BY <1>1, HandedInit, HandedImplies, PTL DEF RSpec
=============================================================================
