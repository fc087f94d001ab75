------------------------- MODULE SessionLink_proofs -------------------------
(***************************************************************************)
(* The two programs together: prover and verifier stay in lock-step, run   *)
(* the PSK circuits on halves of one PSK and never refuse each other, for  *)
(* every number of rounds and records.  Session_proofs has the scripts,    *)
(* what a conversation is, and what each program says about itself; here   *)
(* is how the verifier's states stand to the prover's stages, and that     *)
(* every action of either keeps it.                                        *)
(***************************************************************************)
EXTENDS Session_proofs

-----------------------------------------------------------------------------
(* How the two stand to each other *)

EarlyStates ==
    {"HANDSHAKE_DONE", "CIRCUIT_PREPROC", "MASK_COMMIT", "READING_KS", "MAKING_KS",
     "WRITING_KS", "PSK_BINDER"}

AllSend(s) == \A i \in 1 .. Len(s) : s[i].op = "send"
AllRecv(s) == \A i \in 1 .. Len(s) : s[i].op = "recv"

\* The script of p in two parts: P is answered by what the verifier is known to
\* do, T is what comes after HS_RECV, which the verifier answers only if nothing
\* is waiting to be read.
Parts(p, P, T) ==
    /\ p.todo = P \o T
    /\ \/ T = <<>> /\ ~(p.stage = "finished" /\ Stray(p))
       \/ p.stage = "finished" /\ ~Stray(p) /\ T = Rest(p) /\ P # <<>>
       \/ p.stage = "finished" /\ Stray(p) /\ T = <<Recv({"HS_RECV"})>> \o Rest(p)

\* A prover p, after a fault if f, with x on its way to the verifier and y on its
\* way back, is in a conversation with a verifier whose next steps are those of V.
Speaks(p, f, x, y, P, T, V) ==
    /\ p \in Provers /\ P \in Scripts /\ T \in Scripts /\ V \in Scripts
    /\ Parts(p, P, T)
    /\ p.stage = "stop" => AllSend(p.todo)
    /\ Stray(p) => f /\ p.stage \in {"server_hello", "finished"}
    /\ p.stage = "submit" \/ p.stage = "open" => true_surf
    /\ Matches(Says(p, f), P, V, x, y)

Heard(p, f, x, y) == \E P, T, V : Speaks(p, f, x, y, P, T, V)

\* The headers of p that the verifier has not read yet, or p not written.
Pending(p, a, b) ==
    \/ a = "none" /\ b = "none" /\ ~(p.stage = "finished" /\ Stray(p))
    \/ p.stage = "finished" /\ Stray(p) /\ a = "SERVER_KEY_SHARE" /\ b = "none"
    \/ p.stage = "request" /\ a = "AES_ENC" /\ b = "GCM_TAG"
    \/ p.stage = "request" /\ a = "GCM_TAG" /\ b = "none"
    \/ p.stage = "reading" /\ ~true_surf /\ a = "GCM_VERIFY" /\ b \in {"KS_DERIVE", "none"}
    \/ p.stage = "reading" /\ ~true_surf /\ a = "KS_DERIVE" /\ b = "none"
    \/ p.stage = "submit" /\ p.idx > 0 /\ a = "KEY_COMMIT" /\ b = "GCM_VERIFY"
    \/ p.stage = "submit" /\ p.idx > 0 /\ a = "GCM_VERIFY" /\ b = "none"
    \/ p.stage = "open" /\ a = "KEY_RELEASE" /\ b = "none"
    \/ p.stage \in {"reading", "replay"} /\ a \in PskHeaders /\ b = "none"
    \/ p.stage = "stop" /\ a = "PSK_SKIP" /\ b = "STOP"
    \/ p.stage = "stop" /\ a = "STOP" /\ b = "none"

\* The verifier runs U and then serves the headers a and b.
Talk(p, f, x, y, P, T, U, a, b) ==
    /\ U \in Scripts /\ a \in Ops /\ b \in Ops /\ Pending(p, a, b)
    /\ Speaks(p, f, x, y, P, T, U \o Pend(a, b))

\* What the verifier does after its script: "A" up to its first loop, "B" after
\* the header that ended that one, "C" after STOP.
Rem(v, e, ph) ==
    CASE ph = "A" -> After(v.state, e)
      [] ph # "A" /\ v.state = "DERIVE_PSK" -> write_completed_psk(v) \o Serve
      [] ph # "A" /\ v.state = "PSK_DONE" -> Serve
      [] OTHER -> <<>>

\* Where that takes it, seen from the prover.
Point(p, T, e, ph) ==
    CASE p.stage = "hello" -> From_READING_KS(e)
      [] p.stage \in {"server_hello", "finished"} /\ Stray(p) -> From_PSK_BINDER(e)
      [] p.stage = "server_hello" /\ ~Stray(p) -> From_READING_SKS(e)
      [] p.stage = "finished" /\ ~Stray(p) -> IF T = <<>> THEN From_DERIVE_TS ELSE From_ECTF_WAIT(e)
      [] OTHER -> IF ph = "C" THEN <<>> ELSE Serve

\* The choices that are left to the origin.
Futures(p, v) ==
    {e \in Expects : /\ e.is_resumption_run = p.resuming /\ e.psk_shares = v.psk_shares
                     /\ p.stage \notin Hello => e.resumed_handshake = p.reused}

Phase(p, v, P, U, a, ph) ==
    \/ /\ ph = "A" /\ v.state \in HsStates
       /\ a \in PskHeaders => ~p.psk_circuit
       /\ a \notin PskHeaders => p.psk_circuit /\ (p.stage = "stop" => a = "PSK_SKIP")
    \/ /\ ph = "B" /\ v.state \in {"DERIVE_PSK", "PSK_DONE", "SHUTDOWN"}
       /\ a \notin PskHeaders \cup {"PSK_SKIP"} /\ p.stage \notin HsStages
       /\ p.stage = "stop" => a = "STOP"
       /\ p.stage # "stop" => ~p.psk_circuit
       /\ v.psk_skipped = p.psk_circuit
    \/ /\ ph = "C" /\ v.state = "SHUTDOWN" /\ v.todo = <<>> /\ p.stage = "stop"
       /\ P = <<>> /\ U = <<>> /\ a = "none"

\* What the verifier has been told, and how far it can be.
Walk(p, v, T) ==
    /\ v.state = "HANDSHAKE_DONE" =>
          v.todo \in {write_handshake_done, <<Recv({"RUN_FULL", "RUN_RESUMED"})>>, <<>>}
    /\ (v.state = "HANDSHAKE_DONE" /\ v.todo # <<>>) \/ v.is_resumption_run = p.resuming
    /\ v.state = "ECTF_WAIT" => v.todo = do_ectf \/ v.resumed_handshake = p.reused
    /\ v.state \in {"ECTF_DONE", "KS_WAIT", "KS_DONE", "CERT_WAIT"} => v.resumed_handshake = p.reused
    /\ p.stage = "hello" \/ Stray(p) => v.state \in EarlyStates
    /\ p.stage \in Hello => v.state \in EarlyStates \/ (v.state = "READING_SKS" /\ v.todo = read_sks_keyshare)
    /\ \/ p.stage \in Hello \/ Stray(p) \/ (p.stage = "finished" /\ T # <<>>)
       \/ /\ v.state \notin EarlyStates \cup {"READING_SKS", "FINISHING_TPH"}
          /\ v.state = "WRITING_HS_RECV" => v.todo = <<>>
    /\ v.state = "WRITING_HS_RECV" => v.todo = write_hs_recv \/ v.todo = <<>>
    /\ p.stage \in HsStages /\ p.offer # NoPsk => p.offer = v.psk_shares

\* The commitment to k_v and its release, in the sealed-capture mode.
Latches(p, v, a, f) ==
    true_surf =>
    /\ p.stage \in HsStages \cup {"request", "reading"} \/ (p.stage = "submit" /\ p.idx = 0)
         => ~v.key_committed /\ ~v.key_released
    /\ p.stage = "submit" => ~v.key_released
    /\ p.stage = "submit" /\ p.idx > 0 => (v.key_committed <=> a # "KEY_COMMIT")
    /\ p.stage = "open" /\ a = "KEY_RELEASE" => ~v.key_released /\ (v.key_committed \/ f)

Silent(s) == \A i \in 1 .. Len(s) : s[i].m \cap PskCircuits = {}

\* The verifier's half of the PSK, in round r, with the prover's end open if po.
Shares(p, v, po, r, ph) ==
    /\ ph # "A" /\ po /\ ~p.psk_circuit =>
         \/ v.psk_shares = r
         \/ /\ v.state = "DERIVE_PSK"
            /\ \E h \in PskHeaders : v.todo \in {Circuit(PskOf(h), 0), Tail(Circuit(PskOf(h), 0))}
    /\ ph = "A" \/ v.state # "DERIVE_PSK" => Silent(v.todo)
    /\ p.stage = "stop" /\ ~p.psk_circuit =>
         v.state \in {"PSK_DONE", "SHUTDOWN"} /\ ph # "A" /\ v.psk_shares = p.ticket

\* With the script t, and the handlers after it, v does what p needs.
Agrees(p, v, T, ph, t, U) ==
    \A e \in Futures(p, v) : t \o Rem(v, e, ph) = U \o Point(p, T, e, ph)

Meets(p, v, f, po, r, P, T, U, a, ph) ==
    /\ v \in Verifiers /\ ph \in {"A", "B", "C"}
    /\ Agrees(p, v, T, ph, v.todo, U)
    /\ Phase(p, v, P, U, a, ph) /\ Walk(p, v, T) /\ Latches(p, v, a, f) /\ Shares(p, v, po, r, ph)

Together(p, v, f, po, r, x, y) ==
    \E P, T, U, a, b, ph :
       Talk(p, f, x, y, P, T, U, a, b) /\ Meets(p, v, f, po, r, P, T, U, a, ph)

\* The verifier has exited and the prover has given up reading.
Lost(p) == p.stage \in {"psk", "stop"} /\ AllSend(p.todo)

\* g is the prover while its end of the connection is open, and what it was when
\* it closed it after that.
Linked(g) ==
    /\ popen => g = prover
    /\ vopen => Together(g, verifier, fault, popen, round, p2v, v2p)
    /\ vopen /\ ~popen /\ ~fault => g.stage = "stop" /\ g.todo = <<>>
    /\ vopen /\ ~popen /\ g.stage = "finished" /\ Stray(g) => prover.stage = "quit" /\ Stray(prover)
    /\ popen /\ ~vopen =>
         \/ verifier.state = "EXITED" /\ (Lost(g) \/ Heard(g, fault, p2v, v2p))
         \/ /\ verifier.state \in {"DONE", "ACCEPT"} /\ g.stage = "stop" /\ g.todo = <<>>
            /\ ~g.psk_circuit => verifier.psk_shares = g.ticket
    /\ prover.stage \in {"idle", "connect"} /\ prover.session # NoPsk =>
         \/ verifier.state = "EXITED"
         \/ verifier.state \in {"DONE", "ACCEPT"} /\ verifier.psk_shares = prover.session
         \/ vopen /\ g.stage = "stop" /\ ~g.psk_circuit /\ g.ticket = prover.session

LinkInv == OwnInv /\ ~mixed /\ NoSpuriousFailure /\ \E g : Linked(g)

\* Scripts put together.
LEMMA CatHead ==
    ASSUME NEW s \in Scripts, NEW t \in Scripts, s # <<>>
    PROVE  s \o t # <<>> /\ Head(s \o t) = Head(s) /\ Tail(s \o t) = Tail(s) \o t /\ Tail(s) \in Scripts
<1>1. s \in Seq(Instrs) /\ t \in Seq(Instrs)
  BY DEF Scripts
<1> QED
  BY <1>1, HeadTailProperties, ConcatProperties DEF Scripts

LEMMA CatEmpty ==
    ASSUME NEW s \in Scripts, NEW t \in Scripts, s \o t = <<>>
    PROVE  s = <<>> /\ t = <<>>
<1>1. s \in Seq(Instrs) /\ t \in Seq(Instrs)
  BY DEF Scripts
<1>2. Len(s \o t) = Len(s) + Len(t) /\ Len(s) \in Nat /\ Len(t) \in Nat /\ Len(s \o t) = 0
  BY <1>1, ConcatProperties, LenProperties
<1> QED
  BY <1>1, <1>2, EmptySeq

LEMMA CatAt ==
    ASSUME NEW s \in Scripts, NEW t \in Scripts
    PROVE  /\ s \o t \in Scripts /\ Len(s) \in Nat /\ Len(t) \in Nat /\ Len(s \o t) = Len(s) + Len(t)
           /\ \A i \in 1 .. Len(s) : (s \o t)[i] = s[i]
           /\ \A i \in 1 .. Len(t) : (s \o t)[Len(s) + i] = t[i]
<1>1. s \in Seq(Instrs) /\ t \in Seq(Instrs)
  BY DEF Scripts
<1>2. /\ s \o t \in Seq(Instrs) /\ Len(s \o t) = Len(s) + Len(t) /\ Len(s) \in Nat /\ Len(t) \in Nat
      /\ \A i \in 1 .. Len(s) + Len(t) : (s \o t)[i] = IF i <= Len(s) THEN s[i] ELSE t[i - Len(s)]
  BY <1>1, ConcatProperties, LenProperties
<1>3. PICK n, m : n = Len(s) /\ m = Len(t) /\ n \in Nat /\ m \in Nat
  BY <1>2
<1>4. \A i \in 1 .. n : i \in 1 .. n + m /\ i <= n
  BY <1>3
<1>5. \A i \in 1 .. m : n + i \in 1 .. n + m /\ ~(n + i <= n) /\ (n + i) - n = i
  BY <1>3
<1>6. \A i \in 1 .. n : (s \o t)[i] = s[i]
  BY <1>2, <1>3, <1>4
<1>7. ASSUME NEW i \in 1 .. m PROVE (s \o t)[n + i] = t[i]
  BY <1>2, <1>3, <1>5
<1> QED
  BY <1>2, <1>3, <1>6, <1>7 DEF Scripts

LEMMA CancelRight ==
    ASSUME NEW s \in Scripts, NEW t \in Scripts, NEW u \in Scripts, s \o u = t \o u
    PROVE  s = t
<1>1. /\ Len(s \o u) = Len(s) + Len(u) /\ Len(t \o u) = Len(t) + Len(u)
      /\ Len(s) \in Nat /\ Len(t) \in Nat /\ Len(u) \in Nat
  BY CatAt
<1>2. Len(s) = Len(t)
  BY <1>1
<1>3. ASSUME NEW i \in 1 .. Len(s) PROVE s[i] = t[i]
  <2>1. (s \o u)[i] = s[i]
    BY CatAt
  <2>2. (t \o u)[i] = t[i]
    BY <1>2, CatAt
  <2> QED
    BY <2>1, <2>2
<1> QED
  BY <1>2, <1>3, SeqEqual DEF Scripts

LEMMA NoShorter ==
    ASSUME NEW s \in Scripts, NEW t \in Scripts, NEW u \in Scripts, u = s \o (t \o u)
    PROVE  s = <<>> /\ t = <<>>
<1>1. t \o u \in Scripts /\ Len(t \o u) = Len(t) + Len(u) /\ Len(t) \in Nat /\ Len(u) \in Nat
  BY CatAt
<1>2. Len(s \o (t \o u)) = Len(s) + Len(t \o u) /\ Len(s) \in Nat
  BY <1>1, CatAt
<1>3. Len(s) = 0 /\ Len(t) = 0
  BY <1>1, <1>2
<1> QED
  BY <1>3, EmptySeq DEF Scripts

LEMMA AllRecvCat ==
    ASSUME NEW s \in Scripts, NEW t \in Scripts, AllRecv(s \o t)
    PROVE  AllRecv(s) /\ AllRecv(t)
<1>0. Len(s) \in Nat /\ Len(t) \in Nat /\ Len(s \o t) = Len(s) + Len(t)
  BY CatAt
<1>1. PICK n, m : n = Len(s) /\ m = Len(t) /\ n \in Nat /\ m \in Nat /\ Len(s \o t) = n + m
  BY <1>0
<1>2. ASSUME NEW i \in 1 .. n PROVE s[i].op = "recv"
  <2>1. i \in 1 .. n + m /\ (s \o t)[i] = s[i]
    BY <1>1, CatAt
  <2> QED
    BY <1>1, <2>1 DEF AllRecv
<1>3. ASSUME NEW i \in 1 .. m PROVE t[i].op = "recv"
  <2>1. n + i \in 1 .. n + m
    BY <1>1
  <2>2. (s \o t)[n + i] = t[i]
    BY <1>1, CatAt
  <2> QED
    BY <1>1, <2>1, <2>2 DEF AllRecv
<1> QED
  BY <1>1, <1>2, <1>3 DEF AllRecv

LEMMA AllRecvHead ==
    ASSUME NEW s \in Scripts, AllRecv(s), s # <<>>
    PROVE  Head(s).op = "recv" /\ AllRecv(Tail(s))
<1>1. Len(s) \in Nat /\ Len(s) >= 1 /\ Head(s) = s[1] /\ 1 \in 1 .. Len(s)
  BY LenProperties, EmptySeq DEF Scripts
<1>2. Len(Tail(s)) = Len(s) - 1 /\ \A i \in 1 .. Len(Tail(s)) : Tail(s)[i] = s[i + 1]
  BY HeadTailProperties DEF Scripts
<1>3. ASSUME NEW i \in 1 .. Len(Tail(s)) PROVE Tail(s)[i].op = "recv"
  <2>1. i + 1 \in 1 .. Len(s)
    BY <1>1, <1>2
  <2> QED
    BY <1>2, <2>1 DEF AllRecv
<1> QED
  BY <1>1, <1>3 DEF AllRecv

\* A script that only receives does not contain one that sends.
LEMMA SendIsNotRecv ==
    ASSUME NEW s \in Scripts, NEW e \in Instrs, e.op = "send", NEW t \in Scripts
    PROVE  ~AllRecv(s \o <<e>>) /\ ~AllRecv(s \o (<<e>> \o t)) /\ ~AllRecv(<<e>> \o t)
<1>1. <<e>> \in Scripts /\ <<e>> # <<>> /\ Head(<<e>>) = e
  BY DEF Scripts
<1>2. ~AllRecv(<<e>>)
  BY <1>1, AllRecvHead
<1>3. <<e>> \o t \in Scripts
  BY <1>1, Cat
<1>4. ~AllRecv(<<e>> \o t)
  BY <1>1, <1>2, AllRecvCat
<1> QED
  BY <1>1, <1>2, <1>3, <1>4, AllRecvCat

LEMMA AllSendTail ==
    ASSUME NEW s \in Scripts, AllSend(s), s # <<>>
    PROVE  Head(s).op = "send" /\ AllSend(Tail(s))
<1>1. Len(s) \in Nat /\ Len(s) >= 1 /\ Head(s) = s[1] /\ 1 \in 1 .. Len(s)
  BY LenProperties, EmptySeq DEF Scripts
<1>2. Len(Tail(s)) = Len(s) - 1 /\ \A i \in 1 .. Len(Tail(s)) : Tail(s)[i] = s[i + 1]
  BY HeadTailProperties DEF Scripts
<1>3. ASSUME NEW i \in 1 .. Len(Tail(s)) PROVE Tail(s)[i].op = "send"
  <2>1. i + 1 \in 1 .. Len(s)
    BY <1>1, <1>2
  <2> QED
    BY <1>2, <2>1 DEF AllSend
<1> QED
  BY <1>1, <1>3 DEF AllSend

LEMMA SilentTail ==
    ASSUME NEW s \in Scripts, Silent(s), s # <<>>
    PROVE  Head(s).m \cap PskCircuits = {} /\ Silent(Tail(s))
<1>1. Len(s) \in Nat /\ Len(s) >= 1 /\ Head(s) = s[1] /\ 1 \in 1 .. Len(s)
  BY LenProperties, EmptySeq DEF Scripts
<1>2. Len(Tail(s)) = Len(s) - 1 /\ \A i \in 1 .. Len(Tail(s)) : Tail(s)[i] = s[i + 1]
  BY HeadTailProperties DEF Scripts
<1>3. ASSUME NEW i \in 1 .. Len(Tail(s)) PROVE Tail(s)[i].m \cap PskCircuits = {}
  <2>1. i + 1 \in 1 .. Len(s)
    BY <1>1, <1>2
  <2> QED
    BY <1>2, <2>1 DEF Silent
<1> QED
  BY <1>1, <1>3 DEF Silent

LEMMA SilentCat ==
    ASSUME NEW s \in Scripts, NEW t \in Scripts, Silent(s), Silent(t)
    PROVE  Silent(s \o t)
<1>0. Len(s) \in Nat /\ Len(t) \in Nat /\ Len(s \o t) = Len(s) + Len(t)
  BY CatAt
<1>1. PICK n, m : n = Len(s) /\ m = Len(t) /\ n \in Nat /\ m \in Nat /\ Len(s \o t) = n + m
  BY <1>0
<1>2. ASSUME NEW i \in 1 .. n + m PROVE (s \o t)[i].m \cap PskCircuits = {}
  <2>1. CASE i <= n
    <3>1. i \in 1 .. n
      BY <1>1, <2>1
    <3>2. (s \o t)[i] = s[i]
      BY <1>1, <3>1, CatAt
    <3> QED
      BY <1>1, <3>1, <3>2 DEF Silent
  <2>2. CASE ~(i <= n)
    <3>1. i - n \in 1 .. m /\ n + (i - n) = i
      BY <1>1, <2>2
    <3>2. (s \o t)[n + (i - n)] = t[i - n]
      BY <1>1, <3>1, CatAt
    <3> QED
      BY <1>1, <3>1, <3>2 DEF Silent
  <2> QED
    BY <2>1, <2>2
<1> QED
  BY <1>1, <1>2 DEF Silent

-----------------------------------------------------------------------------
(* The handlers *)

LEMMA SilentHeaders ==
    /\ \A h \in Words : Silent(<<Send(h)>>)
    /\ \A hs \in SUBSET Words : Silent(<<Recv(hs)>>)
    /\ Silent(<<>>) /\ Silent(Serve)
<1>1. \A h : Hdr(h) \notin PskCircuits
  BY DEF Hdr, PskCircuits
<1>2. ASSUME NEW e, e.m \cap PskCircuits = {} PROVE Silent(<<e>>)
  BY <1>2 DEF Silent
<1>3. ASSUME NEW h \in Words PROVE Silent(<<Send(h)>>)
  <2>1. Send(h).m \cap PskCircuits = {}
    BY <1>1 DEF Send
  <2> QED
    BY <1>2, <2>1
<1>4. ASSUME NEW hs \in SUBSET Words PROVE Silent(<<Recv(hs)>>)
  <2>1. Recv(hs).m \cap PskCircuits = {}
    BY <1>1 DEF Recv
  <2> QED
    BY <1>2, <2>1
<1>5. Silent(Serve)
  BY <1>2 DEF Serve
<1>6. Silent(<<>>)
  BY DEF Silent
<1> QED
  BY <1>3, <1>4, <1>5, <1>6

LEMMA SilentCircuit ==
    ASSUME NEW c \in Words, c \notin {"psk0", "psk1", "psk8"}, NEW x
    PROVE  Silent(Circuit(c, x))
<1>1. <<"circuit", c>> \notin PskCircuits
  BY DEF PskCircuits
<1>2. Len(Circuit(c, x)) = 2 /\ \A i \in 1 .. 2 : Circuit(c, x)[i].m = {<<"circuit", c>>}
  BY DEF Circuit
<1> QED
  BY <1>1, <1>2 DEF Silent

LEMMA SilentPreprocess ==
    ASSUME NEW cs \in Seq(Words)
    PROVE  Silent(Preprocess(cs))
<1>1. \A c : <<"preproc", c>> \notin PskCircuits
  BY DEF PskCircuits
<1>2. Len(cs) \in Nat /\ Len(Preprocess(cs)) = 2 * Len(cs)
  BY LenProperties DEF Preprocess
<1>3. \A i \in 1 .. 2 * Len(cs) : Preprocess(cs)[i].m = {<<"preproc", cs[(i + 1) \div 2]>>}
  BY <1>2 DEF Preprocess
<1> QED
  BY <1>1, <1>2, <1>3 DEF Silent

LEMMA HandlerSilent ==
    ASSUME NEW s, NEW v \in Verifiers
    PROVE  Silent(Handler(s, v))
<1> USE SilentHeaders
<1>c. \A c \in Words \ {"psk0", "psk1", "psk8"} : \A x : Silent(Circuit(c, x))
  BY SilentCircuit
<1>d. \A c \in Words : Circuit(c, 0) \in Scripts
  BY CircuitTypes
<1>1. Silent(write_handshake_done) /\ Silent(do_ectf)
  <2>1. /\ Send("DONE_HS") \in Instrs /\ Recv({"RUN_FULL", "RUN_RESUMED"}) \in Instrs
        /\ Recv({"HS_MODE_FULL", "HS_MODE_RESUMED"}) \in Instrs /\ Recv({"DO_ECTF"}) \in Instrs
    BY HeaderTypes, RecvTypes DEF Words
  <2>2. /\ <<Send("DONE_HS")>> \in Scripts /\ <<Recv({"RUN_FULL", "RUN_RESUMED"})>> \in Scripts
        /\ <<Recv({"HS_MODE_FULL", "HS_MODE_RESUMED"})>> \in Scripts /\ <<Recv({"DO_ECTF"})>> \in Scripts
    BY <2>1 DEF Scripts
  <2>3. /\ Silent(<<Send("DONE_HS")>>) /\ Silent(<<Recv({"RUN_FULL", "RUN_RESUMED"})>>)
        /\ Silent(<<Recv({"HS_MODE_FULL", "HS_MODE_RESUMED"})>>) /\ Silent(<<Recv({"DO_ECTF"})>>)
    BY DEF Words
  <2>4. /\ write_handshake_done = <<Send("DONE_HS")>> \o <<Recv({"RUN_FULL", "RUN_RESUMED"})>>
        /\ do_ectf = (<<Recv({"HS_MODE_FULL", "HS_MODE_RESUMED"})>> \o <<Recv({"DO_ECTF"})>>) \o Circuit("ectf", 0)
    BY <2>1, PairOf DEF write_handshake_done, do_ectf
  <2>5. Silent(Circuit("ectf", 0)) /\ Circuit("ectf", 0) \in Scripts
    BY <1>c, <1>d DEF Words
  <2>6. /\ <<Recv({"HS_MODE_FULL", "HS_MODE_RESUMED"})>> \o <<Recv({"DO_ECTF"})>> \in Scripts
        /\ Silent(<<Recv({"HS_MODE_FULL", "HS_MODE_RESUMED"})>> \o <<Recv({"DO_ECTF"})>>)
    BY <2>2, <2>3, SilentCat, Cat
  <2> QED
    BY <2>2, <2>3, <2>4, <2>5, <2>6, SilentCat
<1>2. Silent(do_preproc)
  BY SilentPreprocess, CircuitListTypes DEF do_preproc, CircuitList
<1>3. ASSUME NEW h \in Words, NEW c \in Words \ {"psk0", "psk1", "psk8"}, NEW x \in Int
      PROVE  Silent(<<Recv({h})>> \o Circuit(c, x))
  <2>1. <<Recv({h})>> \in Scripts /\ Circuit(c, x) \in Scripts /\ Silent(<<Recv({h})>>)
    BY OneHeader, CircuitTypes
  <2> QED
    BY <1>c, <2>1, SilentCat
<1>4. /\ Silent(derive_ts) /\ Silent(server_derive_gcm_shares) /\ Silent(derive_res)
  <2>1. /\ {"DERIVE_TS", "GCM_SHARE_START", "DERIVE_RES"} \subseteq Words /\ 0 \in Int
        /\ {"traffic", "gcm", "res"} \subseteq Words \ {"psk0", "psk1", "psk8"}
    BY DEF Words
  <2>2. /\ Silent(<<Recv({"DERIVE_TS"})>> \o Circuit("traffic", 0))
        /\ Silent(<<Recv({"GCM_SHARE_START"})>> \o Circuit("gcm", 0))
        /\ Silent(<<Recv({"DERIVE_RES"})>> \o Circuit("res", 0))
    BY <1>3, <2>1
  <2> QED
    BY <2>2 DEF derive_ts, server_derive_gcm_shares, derive_res
<1>5. /\ Silent(read_mask_commitments) /\ Silent(read_keyshare_after_handshake)
      /\ Silent(send_additive_share) /\ Silent(read_sks_keyshare) /\ Silent(write_hs_recv)
      /\ Silent(finish_ectf) /\ Silent(write_ks_done) /\ Silent(do_cert_wait(v))
      /\ Silent(write_cert_recv) /\ Silent(write_completed_derivation)
      /\ Silent(write_completed_res) /\ Silent(write_completed_psk(v))
  BY DEF read_mask_commitments, read_keyshare_after_handshake, send_additive_share,
     read_sks_keyshare, write_hs_recv, finish_ectf, write_ks_done, do_cert_wait, write_cert_recv,
     write_completed_derivation, write_completed_res, write_completed_psk, Words
<1>6. Silent(do_ks(v))
  BY <1>c DEF do_ks, Words
<1>7. Silent(do_psk_binder(v))
  <2>1. v.psk_shares \in Int
    BY RoundPsks DEF Verifiers
  <2>2. "DERIVE_BINDER" \in Words /\ "binder" \in Words \ {"psk0", "psk1", "psk8"}
    BY DEF Words
  <2> QED
    BY <1>3, <2>1, <2>2 DEF do_psk_binder
<1> QED
  BY <1>1, <1>2, <1>4, <1>5, <1>6, <1>7 DEF Handler

-----------------------------------------------------------------------------
(* Where the handlers lead *)

EndsIn(s, t) == \E u \in Scripts : s = u \o t

LEMMA EndsCat ==
    ASSUME NEW s \in Scripts, NEW t \in Scripts, NEW u \in Scripts, EndsIn(s, t)
    PROVE  EndsIn(u \o s, t)
<1>1. PICK k \in Scripts : s = k \o t
  BY DEF EndsIn
<1>a. u \o k \in Scripts /\ (u \o k) \o t = u \o (k \o t)
  BY Assoc3, Cat
<1>2. u \o s = (u \o k) \o t /\ u \o k \in Scripts
  BY <1>1, <1>a
<1> QED
  BY <1>2 DEF EndsIn

LEMMA EndsSelf ==
    ASSUME NEW s \in Scripts, NEW t \in Scripts
    PROVE  EndsIn(s \o t, t) /\ EndsIn(t, t)
<1>1. t = <<>> \o t /\ <<>> \in Scripts
  BY Nil
<1> QED
  BY <1>1 DEF EndsIn

LEMMA FutureTypes ==
    ASSUME NEW p \in Provers, NEW v \in Verifiers
    PROVE  /\ Expect(p.resuming, p.reused, v.psk_shares) \in Futures(p, v)
           /\ \A e \in Futures(p, v) :
                 /\ e \in Expects /\ e.psk_shares \in Int /\ e.psk_shares = v.psk_shares
                 /\ e.is_resumption_run = p.resuming
                 /\ p.stage \notin Hello => /\ e.resumed_handshake = p.reused
                                           /\ e = Expect(p.resuming, p.reused, v.psk_shares)
<1>1. v.psk_shares \in Int /\ p.resuming \in BOOLEAN /\ p.reused \in BOOLEAN
  BY RoundPsks DEF Verifiers, Provers
<1>2. Expect(p.resuming, p.reused, v.psk_shares) \in Futures(p, v)
  BY <1>1 DEF Futures, Expects, Expect
<1>3. ASSUME NEW e \in Futures(p, v)
      PROVE  /\ e \in Expects /\ e.psk_shares \in Int /\ e.psk_shares = v.psk_shares
             /\ e.is_resumption_run = p.resuming
             /\ p.stage \notin Hello => /\ e.resumed_handshake = p.reused
                                       /\ e = Expect(p.resuming, p.reused, v.psk_shares)
  BY <1>1 DEF Futures, Expects, Expect
<1> QED
  BY <1>2, <1>3

\* All of them lead to the first loop.
LEMMA FromServe ==
    ASSUME NEW e, e.psk_shares \in Int
    PROVE  /\ EndsIn(Serve, Serve)
           /\ EndsIn(From_RES_DONE, Serve)
           /\ EndsIn(From_DERIVE_RES, Serve)
           /\ EndsIn(From_GCM_SHARE_DONE, Serve)
           /\ EndsIn(From_GCM_SHARE_DERIVE, Serve)
           /\ EndsIn(From_DERIVE_TS, Serve)
           /\ EndsIn(From_CERT_RECV, Serve)
           /\ EndsIn(From_CERT_WAIT(e), Serve)
           /\ EndsIn(From_KS_DONE(e), Serve)
           /\ EndsIn(From_KS_WAIT(e), Serve)
           /\ EndsIn(From_ECTF_DONE(e), Serve)
           /\ EndsIn(From_ECTF_WAIT(e), Serve)
           /\ EndsIn(From_WRITING_HS_RECV(e), Serve)
           /\ EndsIn(From_READING_SKS(e), Serve)
           /\ EndsIn(From_PSK_BINDER(e), Serve)
           /\ EndsIn(From_WRITING_KS(e), Serve)
           /\ EndsIn(From_READING_KS(e), Serve)
           /\ EndsIn(From_MASK_COMMIT(e), Serve)
           /\ EndsIn(From_CIRCUIT_PREPROC(e), Serve)
<1> USE FromTypes, HandlerTypes, ChoiceTypes, ServeTypes
<1>0. EndsIn(Serve, Serve)
  BY EndsSelf
<1>1. EndsIn(From_RES_DONE, Serve)
  BY <1>0, EndsCat DEF From_RES_DONE
<1>2. EndsIn(From_DERIVE_RES, Serve)
  BY <1>1, EndsCat DEF From_DERIVE_RES
<1>3. EndsIn(From_GCM_SHARE_DONE, Serve)
  BY <1>2, EndsCat DEF From_GCM_SHARE_DONE
<1>4. EndsIn(From_GCM_SHARE_DERIVE, Serve)
  BY <1>3, EndsCat DEF From_GCM_SHARE_DERIVE
<1>5. EndsIn(From_DERIVE_TS, Serve)
  BY <1>4, EndsCat DEF From_DERIVE_TS
<1>6. EndsIn(From_CERT_RECV, Serve)
  BY <1>5, EndsCat DEF From_CERT_RECV
<1>7. EndsIn(From_CERT_WAIT(e), Serve)
  BY <1>6, EndsCat DEF From_CERT_WAIT
<1>8. EndsIn(From_KS_DONE(e), Serve)
  BY <1>7, EndsCat DEF From_KS_DONE
<1>9. EndsIn(From_KS_WAIT(e), Serve)
  BY <1>8, EndsCat DEF From_KS_WAIT
<1>10. EndsIn(From_ECTF_DONE(e), Serve)
  BY <1>9, EndsCat DEF From_ECTF_DONE
<1>11. EndsIn(From_ECTF_WAIT(e), Serve)
  BY <1>10, EndsCat DEF From_ECTF_WAIT
<1>12. EndsIn(From_WRITING_HS_RECV(e), Serve)
  BY <1>11, EndsCat DEF From_WRITING_HS_RECV
<1>13. EndsIn(From_READING_SKS(e), Serve)
  BY <1>12, EndsCat DEF From_READING_SKS
<1>14. EndsIn(From_PSK_BINDER(e), Serve)
  BY <1>13, EndsCat DEF From_PSK_BINDER
<1>15. EndsIn(From_WRITING_KS(e), Serve)
  BY <1>14, EndsCat DEF From_WRITING_KS
<1>16. EndsIn(From_READING_KS(e), Serve)
  BY <1>15, EndsCat DEF From_READING_KS
<1>17. EndsIn(From_MASK_COMMIT(e), Serve)
  BY <1>16, EndsCat DEF From_MASK_COMMIT
<1>18. EndsIn(From_CIRCUIT_PREPROC(e), Serve)
  BY <1>17, EndsCat DEF From_CIRCUIT_PREPROC
<1> QED
  BY <1>0, <1>1, <1>2, <1>3, <1>4, <1>5, <1>6, <1>7, <1>8, <1>9, <1>10, <1>11, <1>12, <1>13, <1>14, <1>15,
     <1>16, <1>17, <1>18

LEMMA AfterServe ==
    ASSUME NEW e, e.psk_shares \in Int, NEW s \in Handshaking
    PROVE  EndsIn(After(s, e), Serve) /\ After(s, e) # <<>>
<1>1. EndsIn(After(s, e), Serve)
  BY FromServe, HsStatesAre DEF After
<1>2. PICK u \in Scripts : After(s, e) = u \o Serve
  BY <1>1 DEF EndsIn
<1> QED
  BY <1>1, <1>2, CatEmpty, ServeTypes

\* The first ones send HS_RECV on the way.
LEMMA AfterHsRecv ==
    ASSUME NEW e, e.psk_shares \in Int, NEW s \in EarlyStates \cup {"READING_SKS", "FINISHING_TPH"}
    PROVE  EndsIn(After(s, e), From_WRITING_HS_RECV(e))
<1> USE FromTypes, HandlerTypes, ChoiceTypes
<1>0. EndsIn(From_WRITING_HS_RECV(e), From_WRITING_HS_RECV(e))
  BY EndsSelf
<1>1. EndsIn(From_READING_SKS(e), From_WRITING_HS_RECV(e))
  BY <1>0, EndsCat DEF From_READING_SKS
<1>2. EndsIn(From_PSK_BINDER(e), From_WRITING_HS_RECV(e))
  BY <1>1, EndsCat DEF From_PSK_BINDER
<1>3. EndsIn(From_WRITING_KS(e), From_WRITING_HS_RECV(e))
  BY <1>2, EndsCat DEF From_WRITING_KS
<1>4. EndsIn(From_READING_KS(e), From_WRITING_HS_RECV(e))
  BY <1>3, EndsCat DEF From_READING_KS
<1>5. EndsIn(From_MASK_COMMIT(e), From_WRITING_HS_RECV(e))
  BY <1>4, EndsCat DEF From_MASK_COMMIT
<1>6. EndsIn(From_CIRCUIT_PREPROC(e), From_WRITING_HS_RECV(e))
  BY <1>5, EndsCat DEF From_CIRCUIT_PREPROC
<1> QED
  BY <1>0, <1>1, <1>2, <1>3, <1>4, <1>5, <1>6 DEF After, EarlyStates

LEMMA PointTypes ==
    ASSUME NEW p, NEW T, NEW e, e.psk_shares \in Int, NEW ph
    PROVE  Point(p, T, e, ph) \in Scripts
BY FromTypes, ServeTypes, Nil DEF Point

LEMMA RemTypes ==
    ASSUME NEW v \in Verifiers, NEW e, e.psk_shares \in Int, NEW ph
    PROVE  Rem(v, e, ph) \in Scripts /\ write_completed_psk(v) \in Scripts
<1>1. write_completed_psk(v) \in Scripts
  BY OneHeader, Nil DEF write_completed_psk, Words
<1>2. write_completed_psk(v) \o Serve \in Scripts
  BY <1>1, Cat, ServeTypes
<1> QED
  BY <1>1, <1>2, AfterTypes, ServeTypes, Nil DEF Rem

\* What the verifier waits for when it gets there.
LEMMA PointHead ==
    ASSUME NEW p, NEW T, NEW e, e.psk_shares \in Int, NEW ph, e.is_resumption_run = p.resuming
    PROVE  /\ p.stage \in {"hello", "server_hello", "finished"} =>
                Point(p, T, e, ph) # <<>> /\ Head(Point(p, T, e, ph)).op = "recv"
           /\ p.stage = "finished" /\ Stray(p) => Head(Point(p, T, e, ph)) = Recv({"DERIVE_BINDER"})
           /\ p.stage \notin {"hello", "server_hello", "finished"} /\ ph # "C" =>
                Point(p, T, e, ph) = Serve
           /\ p.stage \notin {"hello", "server_hello", "finished"} /\ ph = "C" =>
                Point(p, T, e, ph) = <<>>
<1> USE FromTypes, HandlerTypes, ChoiceTypes
<1>r. /\ Recv({"COLLECT"}) \in Instrs /\ Recv({"DERIVE_BINDER"}) \in Instrs /\ Recv({"SERVER_KEY_SHARE"}) \in Instrs
      /\ Recv({"HS_MODE_FULL", "HS_MODE_RESUMED"}) \in Instrs /\ Recv({"DO_ECTF"}) \in Instrs
      /\ Recv({"DERIVE_TS"}) \in Instrs
  BY RecvTypes DEF Words
<1>s. \A hs : Recv(hs).op = "recv"
  BY DEF Recv
<1>h. ASSUME NEW d \in Instrs, NEW s \in Scripts
      PROVE  <<d>> \o s # <<>> /\ Head(<<d>> \o s) = d /\ <<d>> \in Scripts
  <2>1. <<d>> \in Scripts /\ <<d>> # <<>> /\ Head(<<d>>) = d
    BY DEF Scripts
  <2> QED
    BY <2>1, CatHead
<1>1. From_READING_KS(e) # <<>> /\ Head(From_READING_KS(e)).op = "recv"
  BY <1>r, <1>s, <1>h DEF From_READING_KS, read_keyshare_after_handshake
<1>2. From_READING_SKS(e) # <<>> /\ Head(From_READING_SKS(e)).op = "recv"
  BY <1>r, <1>s, <1>h DEF From_READING_SKS, read_sks_keyshare
<1>3. From_DERIVE_TS # <<>> /\ Head(From_DERIVE_TS).op = "recv"
  <2>1. Circuit("traffic", 0) \in Scripts
    BY CircuitTypes DEF Words
  <2>2. derive_ts # <<>> /\ Head(derive_ts).op = "recv" /\ derive_ts \in Scripts
    BY <1>r, <1>s, <1>h, <2>1 DEF derive_ts
  <2> QED
    BY <2>2, CatHead DEF From_DERIVE_TS
<1>4. From_ECTF_WAIT(e) # <<>> /\ Head(From_ECTF_WAIT(e)).op = "recv"
  <2>1. Circuit("ectf", 0) \in Scripts
    BY CircuitTypes DEF Words
  <2>2. /\ <<Recv({"HS_MODE_FULL", "HS_MODE_RESUMED"}), Recv({"DO_ECTF"})>> \in Scripts
        /\ Head(<<Recv({"HS_MODE_FULL", "HS_MODE_RESUMED"}), Recv({"DO_ECTF"})>>).op = "recv"
        /\ <<Recv({"HS_MODE_FULL", "HS_MODE_RESUMED"}), Recv({"DO_ECTF"})>> # <<>>
    BY <1>r, <1>s DEF Scripts
  <2>3. do_ectf # <<>> /\ Head(do_ectf).op = "recv" /\ do_ectf \in Scripts
    BY <2>1, <2>2, CatHead DEF do_ectf
  <2> QED
    BY <2>3, CatHead DEF From_ECTF_WAIT
<1>5. ASSUME p.resuming
      PROVE  From_PSK_BINDER(e) # <<>> /\ Head(From_PSK_BINDER(e)) = Recv({"DERIVE_BINDER"})
  <2>1. Circuit("binder", e.psk_shares) \in Scripts
    BY CircuitTypes DEF Words
  <2>2. do_psk_binder(e) = <<Recv({"DERIVE_BINDER"})>> \o Circuit("binder", e.psk_shares)
    BY <1>5 DEF do_psk_binder
  <2>3. do_psk_binder(e) # <<>> /\ Head(do_psk_binder(e)) = Recv({"DERIVE_BINDER"})
    BY <1>r, <1>h, <2>1, <2>2
  <2> QED
    BY <2>3, CatHead DEF From_PSK_BINDER
<1>6. Stray(p) => p.resuming
  BY DEF Stray
<1>7. ASSUME p.stage \in {"hello", "server_hello", "finished"}
      PROVE  Point(p, T, e, ph) # <<>> /\ Head(Point(p, T, e, ph)).op = "recv"
  BY <1>1, <1>2, <1>3, <1>4, <1>5, <1>6, <1>7, <1>s DEF Point
<1>8. ASSUME p.stage = "finished", Stray(p)
      PROVE  Head(Point(p, T, e, ph)) = Recv({"DERIVE_BINDER"})
  BY <1>5, <1>6, <1>8 DEF Point
<1>9. ASSUME p.stage \notin {"hello", "server_hello", "finished"}
      PROVE  Point(p, T, e, ph) = IF ph = "C" THEN <<>> ELSE Serve
  BY <1>9 DEF Point
<1> QED
  BY <1>7, <1>8, <1>9

-----------------------------------------------------------------------------
(* The verifier reads and writes *)

LEMMA TalkTypes ==
    ASSUME NEW p, NEW f, NEW x, NEW y, NEW P, NEW T, NEW U, NEW a, NEW b,
           Talk(p, f, x, y, P, T, U, a, b)
    PROVE  /\ p \in Provers /\ P \in Scripts /\ T \in Scripts /\ U \in Scripts
           /\ a \in Ops /\ b \in Ops /\ Pend(a, b) \in Scripts /\ U \o Pend(a, b) \in Scripts
           /\ Parts(p, P, T) /\ Pending(p, a, b)
           /\ Matches(Says(p, f), P, U \o Pend(a, b), x, y)
           /\ x \in Seq(Messages) /\ y \in Seq(Messages)
<1>1. /\ p \in Provers /\ P \in Scripts /\ T \in Scripts /\ U \in Scripts
      /\ a \in Ops /\ b \in Ops /\ Parts(p, P, T) /\ Pending(p, a, b)
      /\ Matches(Says(p, f), P, U \o Pend(a, b), x, y) /\ U \o Pend(a, b) \in Scripts
  BY DEF Talk, Speaks
<1>2. Pend(a, b) \in Scripts
  BY <1>1, PendTypes
<1>3. x \in Seq(Messages) /\ y \in Seq(Messages)
  BY <1>1, MatchTypes
<1> QED
  BY <1>1, <1>2, <1>3

LEMMA PhaseStage ==
    ASSUME NEW p, NEW v, NEW P, NEW U, NEW a, NEW ph, Phase(p, v, P, U, a, ph)
    PROVE  /\ ph # "A" => p.stage \notin {"hello", "server_hello", "finished"} \cup HsStages
           /\ v.todo # <<>> => ph # "C"
           /\ a # "none" => ph # "C"
           /\ ph \in {"A", "B", "C"}
BY DEF Phase, HsStages

\* The verifier's next step is one of the conversation.
LEMMA MeetHead ==
    ASSUME NEW p \in Provers, NEW v, NEW f, NEW po, NEW r, NEW P, NEW T, NEW U \in Scripts, NEW a, NEW ph,
           Meets(p, v, f, po, r, P, T, U, a, ph), v.todo # <<>>, U # <<>>
    PROVE  /\ Head(U) = Head(v.todo)
           /\ Agrees(p, v, T, ph, Tail(v.todo), Tail(U))
<1>1. v \in Verifiers /\ v.todo \in Scripts /\ ph # "C"
  BY PhaseStage DEF Meets, Verifiers
<1>2. \A e \in Futures(p, v) :
         /\ v.todo \o Rem(v, e, ph) = U \o Point(p, T, e, ph)
         /\ Rem(v, e, ph) \in Scripts /\ Point(p, T, e, ph) \in Scripts
         /\ e.psk_shares \in Int /\ e.is_resumption_run = p.resuming
  BY <1>1, FutureTypes, RemTypes, PointTypes DEF Meets, Agrees
<1>3. PICK e0 \in Futures(p, v) : TRUE
  BY <1>1, FutureTypes
<1>4. \A e \in Futures(p, v) : /\ Head(v.todo \o Rem(v, e, ph)) = Head(v.todo)
                               /\ Tail(v.todo \o Rem(v, e, ph)) = Tail(v.todo) \o Rem(v, e, ph)
  BY <1>1, <1>2, CatHead
<1>5. \A e \in Futures(p, v) : /\ Head(U \o Point(p, T, e, ph)) = Head(U)
                               /\ Tail(U \o Point(p, T, e, ph)) = Tail(U) \o Point(p, T, e, ph)
  BY <1>2, CatHead
<1>6. Head(U) = Head(v.todo)
  <2>1. /\ v.todo \o Rem(v, e0, ph) = U \o Point(p, T, e0, ph)
        /\ Head(v.todo \o Rem(v, e0, ph)) = Head(v.todo) /\ Head(U \o Point(p, T, e0, ph)) = Head(U)
    BY <1>2, <1>3, <1>4, <1>5
  <2> QED
    BY <2>1, Zenon
<1>7. ASSUME NEW e \in Futures(p, v)
      PROVE  Tail(v.todo) \o Rem(v, e, ph) = Tail(U) \o Point(p, T, e, ph)
  BY <1>2, <1>4, <1>5, Zenon
<1> QED
  BY <1>6, <1>7 DEF Agrees

\* Or it is at the point where the prover comes next.
LEMMA MeetPoint ==
    ASSUME NEW p \in Provers, NEW v, NEW f, NEW po, NEW r, NEW P, NEW T, NEW U \in Scripts, NEW a, NEW ph,
           Meets(p, v, f, po, r, P, T, U, a, ph), v.todo # <<>>, U = <<>>
    PROVE  /\ Head(v.todo).op \in {"recv", "serve"}
           /\ Head(v.todo).op = "recv" => p.stage \in {"hello", "server_hello", "finished"}
           /\ Head(v.todo).op = "recv" /\ p.stage = "finished" /\ Stray(p) =>
                 Head(v.todo) = Recv({"DERIVE_BINDER"})
           /\ Head(v.todo).op = "serve" =>
                 /\ p.stage \notin {"hello", "server_hello", "finished"}
                 /\ v.todo = Serve /\ \A e \in Futures(p, v) : Rem(v, e, ph) = <<>>
<1>1. v \in Verifiers /\ v.todo \in Scripts /\ ph # "C"
  BY PhaseStage DEF Meets, Verifiers
<1>2. \A e \in Futures(p, v) :
         /\ v.todo \o Rem(v, e, ph) = U \o Point(p, T, e, ph)
         /\ Rem(v, e, ph) \in Scripts /\ Point(p, T, e, ph) \in Scripts
         /\ e.psk_shares \in Int /\ e.is_resumption_run = p.resuming
  BY <1>1, FutureTypes, RemTypes, PointTypes DEF Meets, Agrees
<1>3. PICK e0 \in Futures(p, v) : TRUE
  BY <1>1, FutureTypes
<1>4. \A e \in Futures(p, v) : /\ Head(v.todo \o Rem(v, e, ph)) = Head(v.todo)
                               /\ Tail(v.todo \o Rem(v, e, ph)) = Tail(v.todo) \o Rem(v, e, ph)
  BY <1>1, <1>2, CatHead
<1>5. \A e \in Futures(p, v) : v.todo \o Rem(v, e, ph) = Point(p, T, e, ph)
  BY <1>2, Nil
<1>6. \A e \in Futures(p, v) : Head(v.todo) = Head(Point(p, T, e, ph))
  BY <1>4, <1>5
<1>7. CASE p.stage \in {"hello", "server_hello", "finished"}
  <2>1. Head(v.todo).op = "recv"
    BY <1>2, <1>3, <1>6, <1>7, PointHead
  <2>2. p.stage = "finished" /\ Stray(p) => Head(v.todo) = Recv({"DERIVE_BINDER"})
    <3>1. e0.psk_shares \in Int /\ e0.is_resumption_run = p.resuming
      BY <1>2, <1>3
    <3>2. p.stage = "finished" /\ Stray(p) => Head(Point(p, T, e0, ph)) = Recv({"DERIVE_BINDER"})
      BY <3>1, PointHead
    <3> QED
      BY <1>3, <1>6, <3>2, Zenon
  <2> QED
    BY <1>7, <2>1, <2>2
<1>8. CASE p.stage \notin {"hello", "server_hello", "finished"}
  <2>1. \A e \in Futures(p, v) : Point(p, T, e, ph) = Serve
    BY <1>1, <1>2, <1>8, PointHead
  <2>2. Head(v.todo).op = "serve"
    BY <1>3, <1>6, <2>1, ServeTypes
  <2>3. ASSUME NEW e \in Futures(p, v)
        PROVE  /\ v.todo \o Rem(v, e, ph) = Serve
               /\ v.todo = Serve /\ Rem(v, e, ph) = <<>>
    <3>1. v.todo \o Rem(v, e, ph) = Serve
      BY <1>5, <2>1
    <3>2. /\ Len(Serve) = Len(v.todo) + Len(Rem(v, e, ph)) /\ Len(v.todo) \in Nat /\ Len(Rem(v, e, ph)) \in Nat
      BY <1>1, <1>2, <3>1, CatAt
    <3>3. Len(Serve) = 1 /\ Len(v.todo) # 0
      BY <1>1, EmptySeq DEF Serve, Scripts
    <3>a. \A n, m \in Nat : 1 = n + m /\ n # 0 => m = 0
      OBVIOUS
    <3>4. Len(Rem(v, e, ph)) = 0
      BY <3>2, <3>3, <3>a, Zenon
    <3>5. Rem(v, e, ph) = <<>>
      BY <1>2, <3>4, EmptySeq DEF Scripts
    <3> QED
      BY <1>1, <3>1, <3>5, Nil
  <2> QED
    BY <1>8, <2>2, <2>3
<1> QED
  BY <1>7, <1>8

\* The verifier has taken a step of the conversation, and learnt what the prover
\* told it.
LEMMA MeetsTail ==
    ASSUME NEW p \in Provers, NEW v, NEW f, NEW po, NEW r, NEW P, NEW T, NEW U \in Scripts, NEW a, NEW ph,
           Meets(p, v, f, po, r, P, T, U, a, ph), v.todo # <<>>, U # <<>>,
           NEW w \in Verifiers, w.state = v.state, w.todo = Tail(v.todo), w.psk_skipped = v.psk_skipped,
           w.key_committed = v.key_committed, w.key_released = v.key_released,
           w.is_resumption_run = v.is_resumption_run \/ w.is_resumption_run = p.resuming,
           w.resumed_handshake = v.resumed_handshake \/ w.resumed_handshake = p.reused,
           v.state = "HANDSHAKE_DONE" /\ v.todo # write_handshake_done => w.is_resumption_run = p.resuming,
           v.state = "ECTF_WAIT" /\ v.todo = do_ectf => w.resumed_handshake = p.reused,
           w.psk_shares = v.psk_shares \/ (ph # "A" /\ v.state = "DERIVE_PSK" /\ w.psk_shares = r),
           ph # "A" /\ po /\ ~p.psk_circuit /\ v.state = "DERIVE_PSK" =>
              \/ w.psk_shares = r
              \/ \E h \in PskHeaders : v.todo = Circuit(PskOf(h), 0)
    PROVE  Meets(p, w, f, po, r, P, T, Tail(U), a, ph)
<1>1. v \in Verifiers /\ v.todo \in Scripts /\ Phase(p, v, P, U, a, ph) /\ Walk(p, v, T)
      /\ Latches(p, v, a, f) /\ Shares(p, v, po, r, ph)
  BY DEF Meets, Verifiers
<1>2. ph \in {"A", "B"} /\ (ph = "B" => p.stage \notin {"hello", "server_hello", "finished"} \cup HsStages)
  BY <1>1, PhaseStage
<1>3. \A e : Rem(w, e, ph) = Rem(v, e, ph)
  BY DEF Rem, write_completed_psk
<1>a. Agrees(p, v, T, ph, Tail(v.todo), Tail(U))
  BY MeetHead
<1>4. \A e \in Futures(p, v) : Tail(v.todo) \o Rem(v, e, ph) = Tail(U) \o Point(p, T, e, ph)
  BY <1>a DEF Agrees
<1>5. ASSUME NEW e \in Futures(p, w)
      PROVE  w.todo \o Rem(w, e, ph) = Tail(U) \o Point(p, T, e, ph)
  <2>1. CASE w.psk_shares = v.psk_shares
    <3>1. e \in Futures(p, v)
      BY <2>1 DEF Futures
    <3> QED
      BY <1>3, <1>4, <3>1
  <2>2. CASE ph = "B"
    <3>1. PICK d \in Futures(p, v) : TRUE
      BY <1>1, FutureTypes
    <3>2. Rem(v, e, ph) = Rem(v, d, ph)
      BY <2>2 DEF Rem
    <3>3. Point(p, T, e, ph) = Point(p, T, d, ph)
      BY <1>2, <2>2 DEF Point
    <3> QED
      BY <1>3, <1>4, <3>1, <3>2, <3>3
  <2> QED
    BY <1>2, <2>1, <2>2
<1>6. Phase(p, w, P, Tail(U), a, ph)
  BY <1>1, <1>2 DEF Phase
<1>7. Latches(p, w, a, f)
  BY <1>1 DEF Latches
<1>8. Shares(p, w, po, r, ph)
  <2>1. ASSUME ph # "A", po, ~p.psk_circuit
        PROVE  \/ w.psk_shares = r
               \/ /\ w.state = "DERIVE_PSK"
                  /\ \E h \in PskHeaders : w.todo \in {Circuit(PskOf(h), 0), Tail(Circuit(PskOf(h), 0))}
    BY <1>1, <2>1 DEF Shares
  <2>2. ASSUME ph = "A" \/ w.state # "DERIVE_PSK" PROVE Silent(w.todo)
    BY <1>1, <2>2, SilentTail DEF Shares
  <2>3. ASSUME p.stage = "stop", ~p.psk_circuit
        PROVE  w.state \in {"PSK_DONE", "SHUTDOWN"} /\ ph # "A" /\ w.psk_shares = p.ticket
    BY <1>1, <2>3 DEF Shares
  <2> QED
    BY <2>1, <2>2, <2>3 DEF Shares
<1>9. Walk(p, w, T)
  <2>1. w.state = "HANDSHAKE_DONE" =>
           w.todo \in {write_handshake_done, <<Recv({"RUN_FULL", "RUN_RESUMED"})>>, <<>>}
    <3>1. /\ Tail(write_handshake_done) = <<Recv({"RUN_FULL", "RUN_RESUMED"})>>
          /\ Tail(<<Recv({"RUN_FULL", "RUN_RESUMED"})>>) = <<>>
      BY DEF write_handshake_done
    <3> QED
      BY <1>1, <3>1, Zenon DEF Walk
  <2>2. (w.state = "HANDSHAKE_DONE" /\ w.todo # <<>>) \/ w.is_resumption_run = p.resuming
    <3>1. CASE v.state = "HANDSHAKE_DONE" /\ v.todo = write_handshake_done
      <4>1. Tail(write_handshake_done) = <<Recv({"RUN_FULL", "RUN_RESUMED"})>>
        BY DEF write_handshake_done
      <4> QED
        BY <3>1, <4>1
    <3>2. CASE v.state = "HANDSHAKE_DONE" /\ v.todo # write_handshake_done
      BY <3>2
    <3>3. CASE v.state # "HANDSHAKE_DONE"
      BY <1>1, <3>3 DEF Walk
    <3> QED
      BY <3>1, <3>2, <3>3
  <2>3. /\ w.state = "ECTF_WAIT" => w.todo = do_ectf \/ w.resumed_handshake = p.reused
        /\ w.state \in {"ECTF_DONE", "KS_WAIT", "KS_DONE", "CERT_WAIT"} => w.resumed_handshake = p.reused
    BY <1>1 DEF Walk
  <2>4. p.stage = "hello" \/ Stray(p) => w.state \in EarlyStates
    BY <1>1 DEF Walk
  <2>5. ASSUME p.stage \in Hello, w.state \notin EarlyStates PROVE FALSE
    <3>1. v.state = "READING_SKS" /\ v.todo = read_sks_keyshare /\ p.stage = "server_hello" /\ ~Stray(p)
      BY <1>1, <2>5 DEF Walk, Hello
    <3>2. ph = "A"
      BY <1>2, <3>1
    <3>3. PICK d \in Futures(p, v) : TRUE
      BY <1>1, FutureTypes
    <3>4. d.psk_shares \in Int
      BY <1>1, <3>3, FutureTypes
    <3>5. Point(p, T, d, ph) = From_READING_SKS(d)
      BY <3>1 DEF Point
    <3>6. Rem(v, d, ph) = From_WRITING_HS_RECV(d)
      BY <3>1, <3>2 DEF Rem, After
    <3>7. From_READING_SKS(d) = U \o From_READING_SKS(d)
      BY <3>1, <3>3, <3>5, <3>6 DEF Meets, Agrees, From_READING_SKS
    <3>8. <<>> \o From_READING_SKS(d) = U \o From_READING_SKS(d) /\ <<>> \in Scripts /\ From_READING_SKS(d) \in Scripts
      BY <3>4, <3>7, Nil, FromTypes
    <3> QED
      BY <3>8, CancelRight
  <2>6. \/ p.stage \in Hello \/ Stray(p) \/ (p.stage = "finished" /\ T # <<>>)
        \/ /\ w.state \notin EarlyStates \cup {"READING_SKS", "FINISHING_TPH"}
           /\ w.state = "WRITING_HS_RECV" => w.todo = <<>>
    BY <1>1 DEF Walk
  <2>7. w.state = "WRITING_HS_RECV" => w.todo = write_hs_recv \/ w.todo = <<>>
    <3>1. Tail(write_hs_recv) = <<>>
      BY DEF write_hs_recv
    <3> QED
      BY <1>1, <3>1, Zenon DEF Walk
  <2>8. p.stage \in HsStages /\ p.offer # NoPsk => p.offer = w.psk_shares
    BY <1>1, <1>2 DEF Walk
  <2> QED
    BY <2>1, <2>2, <2>3, <2>4, <2>5, <2>6, <2>7, <2>8 DEF Walk
<1> QED
  BY <1>2, <1>5, <1>6, <1>7, <1>8, <1>9 DEF Meets, Agrees

\* A conversation of which the verifier has taken a step.
LEMMA TalkVerifierSends ==
    ASSUME NEW p, NEW f, NEW x, NEW y, NEW P, NEW T, NEW U, NEW a, NEW b,
           Talk(p, f, x, y, P, T, U, a, b), U # <<>>, Head(U).op = "send"
    PROVE  Talk(p, f, x, Append(y, Message(Head(U))), P, T, Tail(U), a, b)
<1>1. /\ U \in Scripts /\ Pend(a, b) \in Scripts /\ Matches(Says(p, f), P, U \o Pend(a, b), x, y)
  BY TalkTypes
<1>2. /\ U \o Pend(a, b) # <<>> /\ Head(U \o Pend(a, b)) = Head(U)
      /\ Tail(U \o Pend(a, b)) = Tail(U) \o Pend(a, b) /\ Tail(U) \in Scripts
  BY <1>1, CatHead
<1>3. Matches(Says(p, f), P, Tail(U) \o Pend(a, b), x, Append(y, Message(Head(U))))
  BY <1>1, <1>2, MatchVerifierSend
<1>4. Tail(U) \o Pend(a, b) \in Scripts
  BY <1>1, <1>2, Cat
<1> QED
  BY <1>2, <1>3, <1>4 DEF Talk, Speaks

LEMMA TalkVerifierReads ==
    ASSUME NEW p, NEW f, NEW x, NEW y, NEW P, NEW T, NEW U, NEW a, NEW b,
           Talk(p, f, x, y, P, T, U, a, b), U # <<>>, Head(U).op # "send", x # <<>>
    PROVE  /\ Talk(p, f, Tail(x), y, P, T, Tail(U), a, b)
           /\ Head(x) \in Says(p, f) /\ Fit(Head(x), Head(U)) /\ Head(U).op = "recv"
<1>1. /\ U \in Scripts /\ Pend(a, b) \in Scripts /\ Matches(Says(p, f), P, U \o Pend(a, b), x, y)
  BY TalkTypes
<1>2. /\ U \o Pend(a, b) # <<>> /\ Head(U \o Pend(a, b)) = Head(U)
      /\ Tail(U \o Pend(a, b)) = Tail(U) \o Pend(a, b) /\ Tail(U) \in Scripts
  BY <1>1, CatHead
<1>3. /\ Matches(Says(p, f), P, Tail(U) \o Pend(a, b), Tail(x), y)
      /\ Head(x) \in Says(p, f) /\ Fit(Head(x), Head(U)) /\ Head(U).op = "recv"
  BY <1>1, <1>2, MatchVerifierRecv
<1>4. Tail(U) \o Pend(a, b) \in Scripts
  BY <1>1, <1>2, Cat
<1> QED
  BY <1>2, <1>3, <1>4 DEF Talk, Speaks

LEMMA RestTypes ==
    ASSUME NEW p \in Provers
    PROVE  Rest(p) \in Scripts /\ <<Recv({"HS_RECV"})>> \in Scripts
<1>2. p.offer \in Int /\ p.reused \in BOOLEAN
  BY RoundPsks DEF Provers
<1>3. /\ derive_handshake_secret(p.reused) \in Scripts /\ derive_handshake_keys(p, p.reused) \in Scripts
      /\ (IF p.reused THEN combine_handshake_secret_shares ELSE commit_to_server_certificate) \in Scripts
  BY <1>2, CallbackChoices
<1>4. <<Recv({"HS_RECV"})>> \in Scripts
  BY OneHeader DEF Words
<1> QED
  BY <1>3, <1>4, Cat DEF Rest

\* A prover that has run its script has been heard.
LEMMA Quiet ==
    ASSUME NEW p, NEW f, NEW x, NEW y, NEW P, NEW T, NEW V, Speaks(p, f, x, y, P, T, V), p.todo = <<>>
    PROVE  /\ P = <<>> /\ T = <<>> /\ y = <<>> /\ Len(x) = Len(V) /\ AllRecv(V)
           /\ ~(p.stage = "finished" /\ Stray(p))
<1>1. P \in Scripts /\ T \in Scripts /\ P \o T = <<>> /\ Matches(Says(p, f), P, V, x, y)
  BY DEF Speaks, Parts
<1>2. P = <<>> /\ T = <<>>
  BY <1>1, CatEmpty
<1>3. y = <<>> /\ Len(x) = Len(V) /\ AllRecv(V)
  BY <1>1, <1>2, MatchProverDone DEF AllRecv
<1>4. ASSUME p.stage = "finished", Stray(p) PROVE FALSE
  <2>1. T = <<Recv({"HS_RECV"})>> \o Rest(p)
    BY <1>4 DEF Speaks, Parts
  <2>2. <<Recv({"HS_RECV"})>> # <<>>
    OBVIOUS
  <2>3. Rest(p) \in Scripts /\ <<Recv({"HS_RECV"})>> \in Scripts
    BY RestTypes DEF Speaks
  <2>4. T # <<>>
    BY <2>1, <2>2, <2>3, CatHead
  <2> QED
    BY <1>2, <2>4
<1> QED
  BY <1>2, <1>3, <1>4

\* Nothing is waiting when the verifier is about to send HS_RECV.
LEMMA NothingWaits ==
    ASSUME NEW p, NEW v, NEW f, NEW po, NEW r, NEW x, NEW y, NEW P, NEW T, NEW U, NEW a, NEW b, NEW ph,
           Talk(p, f, x, y, P, T, U, a, b), Meets(p, v, f, po, r, P, T, U, a, ph),
           v.state = "WRITING_HS_RECV", v.todo # <<>>
    PROVE  x = <<>>
<1>1. /\ p \in Provers /\ U \in Scripts /\ Pending(p, a, b) /\ v \in Verifiers
      /\ Matches(Says(p, f), P, U \o Pend(a, b), x, y) /\ Phase(p, v, P, U, a, ph) /\ Walk(p, v, T)
  BY TalkTypes DEF Meets
<1>2. v.todo = write_hs_recv
  BY <1>1 DEF Walk
<1>3. v.state \notin EarlyStates /\ v.state # "READING_SKS"
  BY DEF EarlyStates
<1>4. p.stage \notin Hello /\ ~Stray(p) /\ p.stage = "finished" /\ T # <<>>
  BY <1>1, <1>3 DEF Walk
<1>5. ph = "A"
  BY <1>1, <1>4, PhaseStage
<1>6. a = "none" /\ b = "none"
  BY <1>1, <1>4 DEF Pending
<1>7. PICK d \in Futures(p, v) : TRUE
  BY <1>1, FutureTypes
<1>8. d.psk_shares \in Int
  BY <1>1, <1>7, FutureTypes
<1>9. Point(p, T, d, ph) = From_ECTF_WAIT(d)
  BY <1>4 DEF Point
<1>10. Rem(v, d, ph) = From_ECTF_WAIT(d)
  BY <1>5 DEF Rem, After
<1>11. write_hs_recv \o From_ECTF_WAIT(d) = U \o From_ECTF_WAIT(d)
  BY <1>2, <1>7, <1>9, <1>10 DEF Meets, Agrees
<1>12. U = write_hs_recv
  BY <1>1, <1>8, <1>11, CancelRight, FromTypes, HandlerTypes
<1>13. Pend(a, b) = <<>>
  BY <1>6, PendTypes DEF Ops
<1>14. U \o Pend(a, b) = <<Send("HS_RECV")>>
  BY <1>1, <1>12, <1>13, Nil DEF write_hs_recv
<1>15. Send("HS_RECV").op = "send"
  BY DEF Send
<1> QED
  BY <1>1, <1>14, <1>15, MatchVerifierAnswers

\* The verifier writes.
LEMMA MeetsSend ==
    ASSUME NEW p \in Provers, NEW v, NEW f, NEW po, NEW r, NEW P, NEW T, NEW U \in Scripts, NEW a, NEW ph,
           Meets(p, v, f, po, r, P, T, U, a, ph), v.todo # <<>>, U # <<>>, Head(v.todo).op = "send"
    PROVE  Meets(p, [v EXCEPT !.todo = Tail(v.todo)], f, po, r, P, T, Tail(U), a, ph)
<1>1. v \in Verifiers /\ v.todo \in Scripts /\ Walk(p, v, T) /\ Shares(p, v, po, r, ph)
  BY DEF Meets, Verifiers
<1>2. PICK w : w = [v EXCEPT !.todo = Tail(v.todo)]
  OBVIOUS
<1>3. Tail(v.todo) \in Scripts
  BY <1>1, ScriptTail
<1>4. /\ w \in Verifiers /\ w.state = v.state /\ w.todo = Tail(v.todo) /\ w.psk_skipped = v.psk_skipped
      /\ w.key_committed = v.key_committed /\ w.key_released = v.key_released
      /\ w.is_resumption_run = v.is_resumption_run /\ w.resumed_handshake = v.resumed_handshake
      /\ w.psk_shares = v.psk_shares
  BY <1>1, <1>2, <1>3 DEF Verifiers
<1>5. \A hs : Recv(hs).op = "recv"
  BY DEF Recv
<1>6. ASSUME v.state = "HANDSHAKE_DONE", v.todo # write_handshake_done PROVE FALSE
  <2>1. v.todo = <<Recv({"RUN_FULL", "RUN_RESUMED"})>>
    BY <1>1, <1>6 DEF Walk
  <2>2. Head(<<Recv({"RUN_FULL", "RUN_RESUMED"})>>) = Recv({"RUN_FULL", "RUN_RESUMED"})
    OBVIOUS
  <2> QED
    BY <1>5, <2>1, <2>2
<1>7. v.todo # do_ectf
  <2>1. /\ Recv({"HS_MODE_FULL", "HS_MODE_RESUMED"}) \in Instrs /\ Recv({"DO_ECTF"}) \in Instrs
        /\ Circuit("ectf", 0) \in Scripts
    BY RecvTypes, CircuitTypes DEF Words
  <2>2. /\ <<Recv({"HS_MODE_FULL", "HS_MODE_RESUMED"}), Recv({"DO_ECTF"})>> \in Scripts
        /\ Head(<<Recv({"HS_MODE_FULL", "HS_MODE_RESUMED"}), Recv({"DO_ECTF"})>>).op = "recv"
        /\ <<Recv({"HS_MODE_FULL", "HS_MODE_RESUMED"}), Recv({"DO_ECTF"})>> # <<>>
    BY <1>5, <2>1 DEF Scripts
  <2>3. Head(do_ectf).op = "recv"
    BY <2>1, <2>2, CatHead DEF do_ectf
  <2> QED
    BY <2>3
<1>8. ASSUME ph # "A", po, ~p.psk_circuit, v.state = "DERIVE_PSK"
      PROVE  v.psk_shares = r \/ \E h \in PskHeaders : v.todo = Circuit(PskOf(h), 0)
  <2>1. SUFFICES ASSUME NEW h \in PskHeaders, v.todo = Tail(Circuit(PskOf(h), 0)) PROVE FALSE
    BY <1>1, <1>8 DEF Shares
  <2>2. Head(Tail(Circuit(PskOf(h), 0))).op = "recv"
    BY DEF Circuit
  <2> QED
    BY <2>1, <2>2
<1>9. Meets(p, w, f, po, r, P, T, Tail(U), a, ph)
  BY <1>4, <1>6, <1>7, <1>8, MeetsTail
<1> QED
  BY <1>2, <1>9

\* The verifier reads, in the round that is under way.
LEMMA MeetsRecv ==
    ASSUME PTypes, NEW p \in Provers, NEW v, NEW f, NEW po, NEW P, NEW T, NEW U \in Scripts, NEW a, NEW ph,
           Meets(p, v, f, po, round, P, T, U, a, ph), v.todo # <<>>, U # <<>>, Head(v.todo).op = "recv",
           NEW msg \in Says(p, f), msg.m \in Head(v.todo).m
    PROVE  Meets(p, Learn([v EXCEPT !.todo = Tail(v.todo)], msg.m), f, po, round, P, T, Tail(U), a, ph)
<1>1. v \in Verifiers /\ v.todo \in Scripts /\ Walk(p, v, T) /\ Shares(p, v, po, round, ph)
  BY DEF Meets, Verifiers
<1>2. PICK u : u = [v EXCEPT !.todo = Tail(v.todo)]
  OBVIOUS
<1>3. Tail(v.todo) \in Scripts
  BY <1>1, ScriptTail
<1>4. /\ u \in Verifiers /\ u.state = v.state /\ u.todo = Tail(v.todo) /\ u.psk_skipped = v.psk_skipped
      /\ u.key_committed = v.key_committed /\ u.key_released = v.key_released
      /\ u.is_resumption_run = v.is_resumption_run /\ u.resumed_handshake = v.resumed_handshake
      /\ u.psk_shares = v.psk_shares
  BY <1>1, <1>2, <1>3 DEF Verifiers
<1>5. PICK w : w = Learn(u, msg.m)
  OBVIOUS
<1>6. w \in Verifiers /\ w.state = v.state /\ w.todo = Tail(v.todo)
  BY <1>4, <1>5, LearnTypes
<1>a. PICK m : m = msg.m
  OBVIOUS
<1>h. /\ Honest(p, f, msg) /\ p.resuming \in BOOLEAN /\ p.reused \in BOOLEAN
  BY DEF Says, Provers
<1>b. /\ m = Hdr("RUN_RESUMED") => p.resuming
      /\ m = Hdr("RUN_FULL") => ~p.resuming
      /\ m = Hdr("HS_MODE_RESUMED") => p.reused
      /\ m = Hdr("HS_MODE_FULL") => ~p.reused
      /\ m \in PskCircuits => ~p.psk_circuit
  BY <1>a, <1>h DEF Honest
<1>c. /\ Hdr("RUN_RESUMED") # Hdr("RUN_FULL") /\ Hdr("HS_MODE_RESUMED") # Hdr("HS_MODE_FULL")
      /\ Hdr("RUN_RESUMED") \notin {Hdr("HS_MODE_RESUMED"), Hdr("HS_MODE_FULL")}
      /\ Hdr("RUN_FULL") \notin {Hdr("HS_MODE_RESUMED"), Hdr("HS_MODE_FULL")}
      /\ \A h : Hdr(h) \notin PskCircuits
  BY DEF Hdr, PskCircuits
<1>7. /\ w.psk_skipped = v.psk_skipped
      /\ w.key_committed = v.key_committed /\ w.key_released = v.key_released
      /\ w.is_resumption_run = v.is_resumption_run \/ w.is_resumption_run = p.resuming
      /\ w.resumed_handshake = v.resumed_handshake \/ w.resumed_handshake = p.reused
      /\ m \in {Hdr("RUN_RESUMED"), Hdr("RUN_FULL")} => w.is_resumption_run = p.resuming
      /\ m \in {Hdr("HS_MODE_RESUMED"), Hdr("HS_MODE_FULL")} => w.resumed_handshake = p.reused
      /\ m \in PskCircuits => w.psk_shares = round
      /\ m \notin PskCircuits => w.psk_shares = v.psk_shares
  <2>1. CASE m = Hdr("RUN_RESUMED")
    <3>1. w = [u EXCEPT !.is_resumption_run = TRUE]
      BY <1>5, <1>a, <1>c, <2>1 DEF Learn, PskCircuits
    <3> QED
      BY <1>4, <1>b, <1>c, <1>h, <2>1, <3>1 DEF Verifiers
  <2>2. CASE m = Hdr("RUN_FULL")
    <3>1. w = [u EXCEPT !.is_resumption_run = FALSE]
      BY <1>5, <1>a, <1>c, <2>2 DEF Learn, PskCircuits
    <3> QED
      BY <1>4, <1>b, <1>c, <1>h, <2>2, <3>1 DEF Verifiers
  <2>3. CASE m = Hdr("HS_MODE_RESUMED")
    <3>1. w = [u EXCEPT !.resumed_handshake = TRUE]
      BY <1>5, <1>a, <1>c, <2>3 DEF Learn, PskCircuits
    <3> QED
      BY <1>4, <1>b, <1>c, <1>h, <2>3, <3>1 DEF Verifiers
  <2>4. CASE m = Hdr("HS_MODE_FULL")
    <3>1. w = [u EXCEPT !.resumed_handshake = FALSE]
      BY <1>5, <1>a, <1>c, <2>4 DEF Learn, PskCircuits
    <3> QED
      BY <1>4, <1>b, <1>c, <1>h, <2>4, <3>1 DEF Verifiers
  <2>5. CASE m \in PskCircuits
    <3>1. w = [u EXCEPT !.psk_shares = round]
      BY <1>5, <1>a, <1>c, <2>5 DEF Learn, PskCircuits
    <3> QED
      BY <1>4, <1>c, <2>5, <3>1 DEF Verifiers
  <2>6. CASE m \notin {Hdr("RUN_RESUMED"), Hdr("RUN_FULL"), Hdr("HS_MODE_RESUMED"), Hdr("HS_MODE_FULL")} \cup PskCircuits
    <3>1. w = u
      BY <1>5, <1>a, <2>6 DEF Learn, PskCircuits
    <3> QED
      BY <1>4, <2>6, <3>1
  <2> QED
    BY <2>1, <2>2, <2>3, <2>4, <2>5, <2>6
<1>8. v.state = "HANDSHAKE_DONE" /\ v.todo # write_handshake_done => w.is_resumption_run = p.resuming
  <2> SUFFICES ASSUME v.state = "HANDSHAKE_DONE", v.todo # write_handshake_done
               PROVE  w.is_resumption_run = p.resuming
    OBVIOUS
  <2>1. v.todo = <<Recv({"RUN_FULL", "RUN_RESUMED"})>>
    BY <1>1 DEF Walk
  <2>2. Head(<<Recv({"RUN_FULL", "RUN_RESUMED"})>>) = Recv({"RUN_FULL", "RUN_RESUMED"})
    OBVIOUS
  <2>3. m \in {Hdr("RUN_RESUMED"), Hdr("RUN_FULL")}
    BY <1>a, <2>1, <2>2 DEF Recv
  <2> QED
    BY <1>7, <2>3
<1>9. v.state = "ECTF_WAIT" /\ v.todo = do_ectf => w.resumed_handshake = p.reused
  <2> SUFFICES ASSUME v.todo = do_ectf PROVE w.resumed_handshake = p.reused
    OBVIOUS
  <2>1. /\ Recv({"HS_MODE_FULL", "HS_MODE_RESUMED"}) \in Instrs /\ Recv({"DO_ECTF"}) \in Instrs
        /\ Circuit("ectf", 0) \in Scripts
    BY RecvTypes, CircuitTypes DEF Words
  <2>2. /\ <<Recv({"HS_MODE_FULL", "HS_MODE_RESUMED"}), Recv({"DO_ECTF"})>> \in Scripts
        /\ Head(<<Recv({"HS_MODE_FULL", "HS_MODE_RESUMED"}), Recv({"DO_ECTF"})>>) = Recv({"HS_MODE_FULL", "HS_MODE_RESUMED"})
        /\ <<Recv({"HS_MODE_FULL", "HS_MODE_RESUMED"}), Recv({"DO_ECTF"})>> # <<>>
    BY <2>1 DEF Scripts
  <2>3. Head(v.todo) = Recv({"HS_MODE_FULL", "HS_MODE_RESUMED"})
    BY <2>1, <2>2, CatHead DEF do_ectf
  <2>4. m \in {Hdr("HS_MODE_RESUMED"), Hdr("HS_MODE_FULL")}
    BY <1>a, <2>3 DEF Recv
  <2> QED
    BY <1>7, <2>4
<1>10. m \in PskCircuits => ph # "A" /\ v.state = "DERIVE_PSK"
  <2> SUFFICES ASSUME m \in PskCircuits, Silent(v.todo) PROVE FALSE
    BY <1>1 DEF Shares
  <2>1. Head(v.todo).m \cap PskCircuits = {}
    BY <1>1, SilentTail
  <2> QED
    BY <1>a, <2>1
<1>11. ASSUME ph # "A", po, ~p.psk_circuit, v.state = "DERIVE_PSK"
       PROVE  w.psk_shares = round \/ \E h \in PskHeaders : v.todo = Circuit(PskOf(h), 0)
  <2>1. CASE v.psk_shares = round
    BY <1>7, <2>1
  <2>2. ASSUME NEW h \in PskHeaders, v.todo = Tail(Circuit(PskOf(h), 0)) PROVE w.psk_shares = round
    <3>1. Head(Tail(Circuit(PskOf(h), 0))).m = {<<"circuit", PskOf(h)>>}
      BY DEF Circuit
    <3>2. m = <<"circuit", PskOf(h)>> /\ PskOf(h) \in {"psk0", "psk1", "psk8"}
      BY <1>a, <2>2, <3>1 DEF PskOf
    <3> QED
      BY <1>7, <3>2 DEF PskCircuits
  <2> QED
    BY <1>1, <1>11, <2>1, <2>2 DEF Shares
<1>12. w.psk_shares = v.psk_shares \/ (ph # "A" /\ v.state = "DERIVE_PSK" /\ w.psk_shares = round)
  BY <1>7, <1>10
<1>13. Meets(p, w, f, po, round, P, T, Tail(U), a, ph)
  BY <1>6, <1>7, <1>8, <1>9, <1>11, <1>12, MeetsTail
<1> QED
  BY <1>2, <1>5, <1>13

\* A prover that has said STOP, and been read: the verifier is through.
LEMMA StopRead ==
    ASSUME NEW p, NEW v, NEW f, NEW po, NEW r, NEW x, NEW y, NEW P, NEW T, NEW U, NEW a, NEW b, NEW ph,
           Talk(p, f, x, y, P, T, U, a, b), Meets(p, v, f, po, r, P, T, U, a, ph),
           p.stage = "stop", p.todo = <<>>, x = <<>>
    PROVE  v.todo = <<>>
<1>1. /\ U \in Scripts /\ a \in Ops /\ b \in Ops /\ Pend(a, b) \in Scripts /\ Phase(p, v, P, U, a, ph)
      /\ Pending(p, a, b)
  BY TalkTypes DEF Meets
<1>q. Speaks(p, f, x, y, P, T, U \o Pend(a, b))
  BY DEF Talk
<1>2. Len(x) = Len(U \o Pend(a, b)) /\ U \o Pend(a, b) \in Scripts
  <2>0. PICK V : V = U \o Pend(a, b)
    OBVIOUS
  <2>1. Speaks(p, f, x, y, P, T, V) /\ p.todo = <<>>
    BY <1>q, <2>0
  <2>2. Len(x) = Len(V)
    BY ONLY <2>1, Quiet
  <2> QED
    BY <2>0, <2>2, TalkTypes
<1>3. U \o Pend(a, b) = <<>>
  BY <1>2, EmptySeq DEF Scripts
<1>4. Pend(a, b) = <<>>
  BY <1>1, <1>3, CatEmpty
<1>5. a = "none"
  <2> SUFFICES ASSUME a # "none" PROVE FALSE
    OBVIOUS
  <2>1. /\ OpBody(a) \in Scripts /\ Pend(a, b) = <<Recv({a})>> \o (OpBody(a) \o Pend(b, "none"))
    BY <1>1, PendTypes
  <2>2. b \in Ops /\ "none" \in Ops /\ a \in OpHeaders
    BY <1>1 DEF Ops
  <2>3. OpBody(a) \o Pend(b, "none") \in Scripts
    BY <2>1, <2>2, PendTypes, Cat
  <2>4. <<Recv({a})>> \in Scripts /\ <<Recv({a})>> # <<>>
    BY <2>2, OpHeaderWords, OneHeader
  <2> QED
    BY <1>4, <2>1, <2>3, <2>4, CatEmpty
<1> QED
  BY <1>1, <1>5 DEF Phase, PskHeaders


-----------------------------------------------------------------------------
(* The steps of the verifier *)

\* The prover stays as it is.
Stays == prover' = prover /\ popen' = popen /\ round' = round /\ fault' = fault

LEMMA LinkGoes ==
    ASSUME OwnInv, NoSpuriousFailure, NEW g, Linked(g), vopen, Stays, vopen',
           verifier'.state \notin Away, Together(g, verifier', fault, popen, round, p2v', v2p')
    PROVE  NoSpuriousFailure' /\ Linked(g)'
<1>1. verifier.state \notin Away
  BY DEF OwnInv, VInv, VOwn
<1>2. verifier'.state # "EXITED"
  BY DEF Away
<1>3. NoSpuriousFailure'
  BY <1>2 DEF NoSpuriousFailure, Stays
<1>4. Together(g, verifier, fault, popen, round, p2v, v2p)'
  BY DEF Stays
<1>5. prover.stage \in {"idle", "connect"} /\ prover.session # NoPsk =>
         vopen /\ g.stage = "stop" /\ ~g.psk_circuit /\ g.ticket = prover.session
  BY <1>1 DEF Linked, Away
<1> QED
  BY <1>3, <1>4, <1>5 DEF Linked, Stays

LEMMA LinkFails ==
    ASSUME OwnInv, NoSpuriousFailure, NEW g, Linked(g), VerifierFails, fault',
           prover' = prover, popen' = popen, round' = round,
           popen /\ vopen => Heard(g, fault', p2v', v2p'),
           popen /\ ~vopen => Lost(g) \/ Heard(g, fault', p2v', v2p')
    PROVE  NoSpuriousFailure' /\ Linked(g)'
<1>1. verifier \in Verifiers /\ vopen \in BOOLEAN /\ verifier'.state = "EXITED" /\ vopen' = FALSE
  BY DEF OwnInv, VInv, VTypes, VerifierFails, Verifiers
<1>2. NoSpuriousFailure'
  BY DEF NoSpuriousFailure
<1>3. popen => Lost(g) \/ Heard(g, fault, p2v, v2p)'
  BY <1>1
<1> QED
  BY <1>1, <1>2, <1>3 DEF Linked

LEMMA TalkHeard ==
    ASSUME NEW p, NEW f, NEW x, NEW y, NEW P, NEW T, NEW U, NEW a, NEW b, Talk(p, f, x, y, P, T, U, a, b)
    PROVE  Heard(p, f, x, y)
  BY DEF Talk, Heard

\* The verifier writes to a prover that is there, or has said STOP and is gone.
LEMMA LinkVerifierSend ==
    ASSUME LinkInv, VerifierSend
    PROVE  ~mixed' /\ NoSpuriousFailure' /\ \E g : Linked(g)'
<1>1. /\ OwnInv /\ NoSpuriousFailure /\ ~mixed' /\ Stays /\ p2v' = p2v /\ VInv
      /\ verifier.todo # <<>> /\ Head(verifier.todo).op = "send"
  BY DEF LinkInv, VerifierSend, Op, Stays, OwnInv
<1>2. PICK g : Linked(g)
  BY DEF LinkInv
<1>3. vopen /\ verifier \in Verifiers /\ verifier.state \notin Away
  BY <1>1, VerifierBusy DEF VInv, VTypes, VOwn
<1>4. PICK P, T, U, a, b, ph :
         /\ Talk(g, fault, p2v, v2p, P, T, U, a, b)
         /\ Meets(g, verifier, fault, popen, round, P, T, U, a, ph)
  BY <1>2, <1>3 DEF Linked, Together
<1>5. g \in Provers /\ U \in Scripts /\ Pend(a, b) \in Scripts
  BY <1>4, TalkTypes
<1>6. U # <<>>
  BY <1>1, <1>4, <1>5, MeetPoint
<1>7. Head(U) = Head(verifier.todo)
  BY <1>1, <1>4, <1>5, <1>6, MeetHead
<1>8. ~(verifier.state = "WRITING_HS_RECV" /\ p2v # <<>>)
  BY <1>1, <1>4, NothingWaits
<1>9. CASE verifier' = [verifier EXCEPT !.todo = Tail(@)] /\ v2p' = Append(v2p, Message(Head(verifier.todo))) /\ vopen' = vopen
  <2>1. Talk(g, fault, p2v, Append(v2p, Message(Head(U))), P, T, Tail(U), a, b)
    BY <1>1, <1>4, <1>6, <1>7, TalkVerifierSends
  <2>2. Meets(g, verifier', fault, popen, round, P, T, Tail(U), a, ph)
    BY <1>1, <1>4, <1>5, <1>6, <1>9, MeetsSend
  <2>3. Together(g, verifier', fault, popen, round, p2v', v2p')
    BY <1>1, <1>7, <1>9, <2>1, <2>2 DEF Together
  <2>4. vopen' /\ verifier'.state \notin Away
    BY <1>3, <1>9 DEF Verifiers
  <2> QED
    BY <1>1, <1>2, <1>3, <2>3, <2>4, LinkGoes
<1>10. CASE ~popen /\ VerifierFails
  <2>1. fault
    <3> SUFFICES ASSUME ~fault PROVE FALSE
      OBVIOUS
    <3>1. g.todo = <<>>
      BY <1>2, <1>3, <1>10 DEF Linked
    <3>2. Speaks(g, fault, p2v, v2p, P, T, U \o Pend(a, b))
      BY <1>4 DEF Talk
    <3>3. PICK V : V = U \o Pend(a, b)
      OBVIOUS
    <3>4. Speaks(g, fault, p2v, v2p, P, T, V)
      BY <3>2, <3>3
    <3>5. AllRecv(V)
      BY ONLY <3>1, <3>4, Quiet
    <3>6. AllRecv(U)
      BY <1>5, <3>3, <3>5, AllRecvCat
    <3> QED
      BY <1>1, <1>5, <1>6, <1>7, <3>6, AllRecvHead
  <2>2. fault' /\ prover' = prover /\ popen' = popen /\ round' = round
    BY <1>1, <2>1 DEF Stays
  <2> QED
    BY <1>1, <1>2, <1>10, <2>2, LinkFails
<1> QED
  BY <1>8, <1>9, <1>10 DEF VerifierSend

\* The verifier is where the prover comes next, and something is waiting: it is
\* the first header pending.
LEMMA TalkServes ==
    ASSUME NEW p, NEW f, NEW x, NEW y, NEW P, NEW T, NEW a, NEW b,
           Talk(p, f, x, y, P, T, <<>>, a, b), x # <<>>
    PROVE  /\ a # "none" /\ Head(x).m = Hdr(a) /\ OpBody(a) \in Scripts
           /\ Speaks(p, f, Tail(x), y, P, T, OpBody(a) \o Pend(b, "none"))
<1>1. /\ a \in Ops /\ b \in Ops /\ Pend(a, b) \in Scripts
      /\ Matches(Says(p, f), P, <<>> \o Pend(a, b), x, y)
  BY TalkTypes
<1>2. PICK V : V = Pend(a, b)
  OBVIOUS
<1>3. Matches(Says(p, f), P, V, x, y) /\ V \in Scripts
  BY <1>1, <1>2, Nil
<1>4. V # <<>>
  BY <1>3, MatchVerifierDone
<1>5. a # "none"
  <2> SUFFICES ASSUME a = "none" PROVE FALSE
    OBVIOUS
  <2>1. b = "none"
    BY TalkTypes DEF Pending, PskHeaders
  <2> QED
    BY <1>1, <1>2, <1>4, <2>1, PendTypes
<1>6. OpBody(a) \in Scripts /\ V = <<Recv({a})>> \o (OpBody(a) \o Pend(b, "none"))
  BY <1>1, <1>2, <1>5, PendTypes
<1>7. a \in OpHeaders /\ "none" \in Ops
  BY <1>1, <1>5 DEF Ops
<1>8. Pend(b, "none") \in Scripts
  BY <1>1, <1>7, PendTypes
<1>9. a \in Words /\ {a} \subseteq Words
  BY <1>7, OpHeaderWords
<1>10. Recv({a}) \in Instrs /\ Recv({a}).op = "recv" /\ Recv({a}).m = {Hdr(h) : h \in {a}}
  BY <1>9, RecvTypes
<1>11. PICK W : W = OpBody(a) \o Pend(b, "none")
  OBVIOUS
<1>12. W \in Scripts
  BY <1>6, <1>8, <1>11, Cat
<1>13. <<Recv({a})>> \in Scripts /\ <<Recv({a})>> # <<>> /\ Head(<<Recv({a})>>) = Recv({a}) /\ Tail(<<Recv({a})>>) = <<>>
  BY <1>10 DEF Scripts
<1>14. Head(V) = Recv({a}) /\ Tail(V) = <<>> \o W
  BY <1>6, <1>11, <1>12, <1>13, CatHead
<1>15. Tail(V) = W
  BY <1>12, <1>14, Nil
<1>16. Matches(Says(p, f), P, W, Tail(x), y) /\ Fit(Head(x), Recv({a}))
  BY <1>3, <1>4, <1>10, <1>14, <1>15, MatchVerifierRecv
<1>17. Head(x).m = Hdr(a)
  BY <1>10, <1>16 DEF Fit
<1>18. Speaks(p, f, Tail(x), y, P, T, W)
  BY <1>12, <1>16 DEF Talk, Speaks
<1> QED
  BY <1>5, <1>6, <1>11, <1>17, <1>18

\* Nothing that is in the way is what the verifier waits for.
LEMMA LinkVerifierRecv ==
    ASSUME LinkInv, VerifierRecv
    PROVE  ~mixed' /\ NoSpuriousFailure' /\ \E g : Linked(g)'
<1>1. /\ OwnInv /\ NoSpuriousFailure /\ ~mixed /\ Stays /\ v2p' = v2p /\ VInv /\ PTypes
      /\ verifier.todo # <<>> /\ Head(verifier.todo).op = "recv"
  BY DEF LinkInv, VerifierRecv, Op, Stays, OwnInv
<1>2. PICK g : Linked(g)
  BY DEF LinkInv
<1>3. vopen /\ verifier \in Verifiers /\ verifier.state \notin Away
  BY <1>1, VerifierBusy DEF VInv, VTypes, VOwn
<1>4. PICK P, T, U, a, b, ph :
         /\ Talk(g, fault, p2v, v2p, P, T, U, a, b)
         /\ Meets(g, verifier, fault, popen, round, P, T, U, a, ph)
  BY <1>2, <1>3 DEF Linked, Together
<1>5. g \in Provers /\ U \in Scripts /\ Pend(a, b) \in Scripts
  BY <1>4, TalkTypes
<1>6. fault => fault' /\ prover' = prover /\ popen' = popen /\ round' = round
  BY <1>1 DEF Stays
<1>7. CASE p2v = <<>>
  <2>1. ~popen /\ VerifierFails /\ mixed' = mixed
    BY <1>7 DEF VerifierRecv
  <2>2. fault
    <3> SUFFICES ASSUME ~fault PROVE FALSE
      OBVIOUS
    <3>1. g.stage = "stop" /\ g.todo = <<>>
      BY <1>2, <1>3, <2>1 DEF Linked
    <3> QED
      BY <1>1, <1>4, <1>7, <3>1, StopRead
  <2> QED
    BY <1>1, <1>2, <1>6, <2>1, <2>2, LinkFails
<1>8. CASE p2v # <<>> /\ U # <<>>
  <2>1. Head(U) = Head(verifier.todo)
    BY <1>1, <1>4, <1>5, <1>8, MeetHead
  <2>2. /\ Talk(g, fault, Tail(p2v), v2p, P, T, Tail(U), a, b)
        /\ Head(p2v) \in Says(g, fault) /\ Fit(Head(p2v), Head(U))
    BY <1>1, <1>4, <1>8, <2>1, TalkVerifierReads
  <2>3. PICK msg : msg = Head(p2v)
    OBVIOUS
  <2>4. /\ msg.m \in Head(verifier.todo).m /\ ~Mixes(Head(verifier.todo), msg) /\ p2v' = Tail(p2v)
        /\ msg \in Says(g, fault)
    BY <1>8, <2>1, <2>2, <2>3 DEF Fit, VerifierRecv
  <2>5. CASE TagRejected(msg)
    <3>1. VerifierFails /\ mixed' = mixed
      BY <1>8, <2>3, <2>5 DEF VerifierRecv
    <3>2. fault
      BY <2>4, <2>5 DEF Says, Honest
    <3>3. Heard(g, fault', p2v', v2p')
      BY <1>1, <2>2, <2>4, TalkHeard DEF Stays
    <3> QED
      BY <1>1, <1>2, <1>3, <1>6, <3>1, <3>2, <3>3, LinkFails
  <2>6. CASE ~TagRejected(msg)
    <3>1. /\ verifier' = Learn([verifier EXCEPT !.todo = Tail(verifier.todo)], msg.m)
          /\ mixed' = (mixed \/ Mixes(Head(verifier.todo), msg)) /\ vopen' = vopen
      BY <1>8, <2>3, <2>4, <2>6 DEF VerifierRecv
    <3>2. Meets(g, verifier', fault, popen, round, P, T, Tail(U), a, ph)
      BY <1>1, <1>4, <1>5, <1>8, <2>4, <3>1, MeetsRecv
    <3>3. Together(g, verifier', fault, popen, round, p2v', v2p')
      BY <1>1, <2>2, <2>4, <3>2 DEF Together
    <3>4. [verifier EXCEPT !.todo = Tail(verifier.todo)] \in Verifiers /\ [verifier EXCEPT !.todo = Tail(verifier.todo)].state = verifier.state
      BY <1>1, <1>3, VerifierBusy DEF Verifiers
    <3>5. vopen' /\ verifier'.state \notin Away
      BY <1>1, <1>3, <3>1, <3>4, LearnTypes
    <3>6. NoSpuriousFailure' /\ Linked(g)'
      BY <1>1, <1>2, <1>3, <3>3, <3>5, LinkGoes
    <3> QED
      BY <1>1, <2>4, <3>1, <3>6
  <2> QED
    BY <2>5, <2>6
<1>9. CASE p2v # <<>> /\ U = <<>>
  <2>1. g.stage \in {"hello", "server_hello", "finished"}
        /\ (g.stage = "finished" /\ Stray(g) => Head(verifier.todo) = Recv({"DERIVE_BINDER"}))
    BY <1>1, <1>4, <1>5, <1>9, MeetPoint
  <2>2. Talk(g, fault, p2v, v2p, P, T, <<>>, a, b)
    BY <1>4, <1>9
  <2>3. a # "none" /\ Head(p2v).m = Hdr(a) /\ Speaks(g, fault, Tail(p2v), v2p, P, T, OpBody(a) \o Pend(b, "none"))
    BY <1>9, <2>2, TalkServes
  <2>4. Pending(g, a, b)
    BY <2>2, TalkTypes
  <2>5. g.stage = "finished" /\ Stray(g) /\ a = "SERVER_KEY_SHARE"
    BY <2>1, <2>3, <2>4 DEF Pending
  <2>6. fault
    BY <2>3, <2>5 DEF Speaks
  <2>7. Hdr("SERVER_KEY_SHARE") \notin Recv({"DERIVE_BINDER"}).m
    BY DEF Recv, Hdr
  <2>8. VerifierFails /\ mixed' = mixed /\ p2v' = Tail(p2v)
    BY <1>9, <2>1, <2>3, <2>5, <2>7 DEF VerifierRecv
  <2>9. Heard(g, fault', p2v', v2p')
    BY <1>1, <2>3, <2>8 DEF Heard, Stays
  <2> QED
    BY <1>1, <1>2, <1>3, <1>6, <2>6, <2>8, <2>9, LinkFails
<1> QED
  BY <1>7, <1>8, <1>9

\* The verifier serves: it is in one of its two loops.
LEMMA ServeHead ==
    ASSUME NEW p, NEW v, NEW f, NEW po, NEW r, NEW x, NEW y, NEW P, NEW T, NEW U, NEW a, NEW b, NEW ph,
           Talk(p, f, x, y, P, T, U, a, b), Meets(p, v, f, po, r, P, T, U, a, ph),
           v.todo # <<>>, Head(v.todo).op = "serve"
    PROVE  /\ U = <<>> /\ v.todo = Serve
           /\ p.stage \notin {"hello", "server_hello", "finished"} /\ a # "SERVER_KEY_SHARE"
           /\ (ph = "A" /\ v.state = "DERIVE_PSK") \/ (ph = "B" /\ v.state = "SHUTDOWN")
           /\ \A e \in Futures(p, v) : Rem(v, e, ph) = <<>>
<1>1. p \in Provers /\ U \in Scripts /\ Pend(a, b) \in Scripts /\ v \in Verifiers
      /\ Phase(p, v, P, U, a, ph) /\ Matches(Says(p, f), P, U \o Pend(a, b), x, y) /\ Pending(p, a, b)
  BY TalkTypes DEF Meets
<1>2. U = <<>>
  <2> SUFFICES ASSUME U # <<>> PROVE FALSE
    OBVIOUS
  <2>1. Head(U) = Head(v.todo)
    BY <1>1, MeetHead
  <2>2. U \o Pend(a, b) # <<>> /\ Head(U \o Pend(a, b)) = Head(U)
    BY <1>1, CatHead
  <2> QED
    BY <1>1, <2>1, <2>2, MatchNoServe
<1>3. p.stage \notin {"hello", "server_hello", "finished"} /\ v.todo = Serve
      /\ \A e \in Futures(p, v) : Rem(v, e, ph) = <<>>
  BY <1>1, <1>2, MeetPoint
<1>4. PICK e : e \in Futures(p, v)
  BY <1>1, FutureTypes
<1>5. Rem(v, e, ph) = <<>> /\ e.psk_shares \in Int
  BY <1>1, <1>3, <1>4, FutureTypes
<1>6. ph # "C"
  BY <1>1, PhaseStage
<1>7. ph = "A" => v.state = "DERIVE_PSK"
  <2> SUFFICES ASSUME ph = "A", v.state # "DERIVE_PSK" PROVE FALSE
    OBVIOUS
  <2>1. v.state \in Handshaking
    BY <1>1 DEF Phase, HsStates
  <2>2. After(v.state, e) # <<>>
    BY <1>5, <2>1, AfterServe
  <2> QED
    BY <1>5, <2>2 DEF Rem
<1>8. ph = "B" => v.state = "SHUTDOWN"
  <2> SUFFICES ASSUME ph = "B", v.state \in {"DERIVE_PSK", "PSK_DONE"} PROVE FALSE
    BY <1>1 DEF Phase
  <2>1. v.state # "PSK_DONE"
    BY <1>5, ServeTypes DEF Rem
  <2>2. write_completed_psk(v) \o Serve = <<>>
    BY <1>5, <2>1 DEF Rem
  <2>3. write_completed_psk(v) \in Scripts
    BY <1>1, <1>5, RemTypes
  <2> QED
    BY <2>2, <2>3, ServeTypes, CatEmpty
<1>9. a # "SERVER_KEY_SHARE"
  BY <1>1, <1>3 DEF Pending, PskHeaders
<1>10. ph \in {"A", "B", "C"}
  BY <1>1, PhaseStage
<1> QED
  BY <1>2, <1>3, <1>6, <1>7, <1>8, <1>9, <1>10

LEMMA WalkServing ==
    ASSUME NEW p, NEW v, NEW w, NEW T, Walk(p, v, T), v.state \in {"DERIVE_PSK", "PSK_DONE", "SHUTDOWN"},
           w.state \in {"DERIVE_PSK", "PSK_DONE", "SHUTDOWN"},
           w.is_resumption_run = v.is_resumption_run, w.psk_shares = v.psk_shares
    PROVE  Walk(p, w, T)
  BY DEF Walk, EarlyStates

LEMMA OpSilent == \A h \in RecordOps : Silent(OpScript(h)) /\ OpScript(h) \in Scripts
<1> SUFFICES ASSUME NEW h \in RecordOps PROVE Silent(OpScript(h)) /\ OpScript(h) \in Scripts
  OBVIOUS
<1>1. \A c \in {"aes", "tag", "vfy_commit", "vfy", "ks"} : Silent(Circuit(c, 0)) /\ Circuit(c, 0) \in Scripts
  BY SilentCircuit, CircuitTypes DEF Words
<1>2. Silent(<<Send("KEY")>>) /\ Silent(<<>>) /\ <<Send("KEY")>> \in Scripts /\ <<>> \in Scripts
  BY SilentHeaders, OneHeader, Nil DEF Words
<1>3. CASE true_surf
  BY <1>1, <1>2, <1>3 DEF OpScript, RecordOps
<1>4. CASE ~true_surf
  BY <1>1, <1>2, <1>4 DEF OpScript, RecordOps
<1> QED
  BY <1>3, <1>4

\* The loop takes up an operation on a record, of a prover that has more to come.
LEMMA MeetsRecordOp ==
    ASSUME NEW p \in Provers, NEW v, NEW f, NEW po, NEW r, NEW P, NEW T, NEW a, NEW b \in Ops, NEW ph,
           Meets(p, v, f, po, r, P, T, <<>>, a, ph), Pending(p, a, b), a \in RecordOps,
           v.todo = Serve, \A e \in Futures(p, v) : Rem(v, e, ph) = <<>>,
           (ph = "A" /\ v.state = "DERIVE_PSK") \/ (ph = "B" /\ v.state = "SHUTDOWN")
    PROVE  Meets(p, RecordOp(a, v), f, po, r, P, T, OpBody(a), b, ph) /\ Pending(p, b, "none")
<1>1. v \in Verifiers /\ Phase(p, v, P, <<>>, a, ph) /\ Walk(p, v, T) /\ Latches(p, v, a, f)
      /\ Shares(p, v, po, r, ph) /\ Agrees(p, v, T, ph, v.todo, <<>>)
  BY DEF Meets
<1>2. PICK w : w = RecordOp(a, v)
  OBVIOUS
<1>3. OpScript(a) \in Scripts /\ OpScript(a) = OpBody(a) /\ Silent(OpScript(a)) /\ Silent(Serve)
  <2>1. OpScript(a) = OpBody(a)
    BY DEF OpBody, RecordOps, PskHeaders
  <2> QED
    BY <2>1, OpSilent, SilentHeaders
<1>4. w \in Verifiers
  BY <1>1, <1>2, ServedTypes
<1>5. /\ w.state = v.state /\ w.todo = OpBody(a) \o Serve /\ w.psk_skipped = v.psk_skipped
      /\ w.is_resumption_run = v.is_resumption_run /\ w.resumed_handshake = v.resumed_handshake
      /\ w.psk_shares = v.psk_shares
      /\ w.key_committed = (v.key_committed \/ a = "KEY_COMMIT")
      /\ w.key_released = (v.key_released \/ a = "KEY_RELEASE")
  BY <1>1, <1>2, <1>3 DEF RecordOp, Verifiers
<1>6. b \notin PskHeaders \cup {"STOP", "PSK_SKIP"} /\ p.stage \notin {"stop", "finished"}
  BY DEF Pending, RecordOps, PskHeaders
<1>7. Pending(p, b, "none")
  BY DEF Pending, RecordOps, PskHeaders
<1>8. Agrees(p, w, T, ph, w.todo, OpBody(a))
  <2> SUFFICES ASSUME NEW e \in Futures(p, w)
               PROVE  w.todo \o Rem(w, e, ph) = OpBody(a) \o Point(p, T, e, ph)
    BY DEF Agrees
  <2>1. e \in Futures(p, v)
    BY <1>5 DEF Futures
  <2>2. Rem(v, e, ph) = <<>> /\ Serve \o Rem(v, e, ph) = <<>> \o Point(p, T, e, ph)
    BY <1>1, <2>1 DEF Agrees
  <2>3. e.psk_shares \in Int
    BY <1>1, <2>1, FutureTypes
  <2>4. Point(p, T, e, ph) \in Scripts
    BY <2>3, PointTypes
  <2>5. Point(p, T, e, ph) = Serve
    BY <2>2, <2>4, ServeTypes, Nil
  <2>6. Rem(w, e, ph) = Rem(v, e, ph)
    BY <1>5 DEF Rem
  <2>7. OpBody(a) \o Serve \in Scripts
    BY <1>3, ServeTypes, Cat
  <2> QED
    BY <1>5, <2>2, <2>5, <2>6, <2>7, Nil
<1>9. Phase(p, w, P, OpBody(a), b, ph)
  BY <1>1, <1>5, <1>6 DEF Phase, RecordOps, PskHeaders
<1>10. Walk(p, w, T)
  BY <1>1, <1>5, WalkServing
<1>11. Latches(p, w, b, f)
  <2>1. p.stage \notin HsStages
    BY DEF Pending, RecordOps, PskHeaders, HsStages
  <2>2. p.stage = "submit" => p.idx > 0 /\ a # "KEY_RELEASE" /\ b # "KEY_COMMIT" /\ a \in {"KEY_COMMIT", "GCM_VERIFY"}
    BY DEF Pending, RecordOps, PskHeaders
  <2>3. p.stage = "open" => b # "KEY_RELEASE"
    BY DEF Pending, RecordOps, PskHeaders
  <2>4. p.stage \in {"request", "reading"} => a \notin {"KEY_COMMIT", "KEY_RELEASE"}
    BY DEF Pending, RecordOps, PskHeaders
  <2>5. p.stage = "submit" => p.idx # 0
    BY <2>2
  <2>6. v.key_committed \in BOOLEAN /\ v.key_released \in BOOLEAN
    BY <1>1 DEF Verifiers
  <2> QED
    BY <1>1, <1>5, <2>1, <2>2, <2>3, <2>4, <2>5, <2>6 DEF Latches
<1>12. Shares(p, w, po, r, ph)
  <2>1. Silent(w.todo)
    BY <1>3, <1>5, ServeTypes, SilentCat
  <2> QED
    BY <1>1, <1>5, <1>6, <2>1 DEF Shares
<1>13. ph \in {"A", "B", "C"}
  OBVIOUS
<1> QED
  BY <1>2, <1>4, <1>7, <1>8, <1>9, <1>10, <1>11, <1>12, <1>13 DEF Meets

\* An honest prover is not refused: the gates are open to it.
LEMMA GateOpen ==
    ASSUME NEW p \in Provers, NEW v, NEW f, NEW P, NEW T, NEW V, NEW x, NEW y, NEW a, NEW b,
           Latches(p, v, a, f), Pending(p, a, b), a \in RecordOps, Speaks(p, f, x, y, P, T, V), v \in Verifiers
    PROVE  Gate(a, v) \/ f
<1>1. p.stage \in {"submit", "open"} => true_surf
  BY DEF Speaks
<1>2. v.key_committed \in BOOLEAN /\ v.key_released \in BOOLEAN
  BY DEF Verifiers
<1>3. CASE a = "GCM_VERIFY"
  <2>1. true_surf => p.stage = "submit" /\ p.idx > 0
    BY <1>3 DEF Pending, PskHeaders
  <2> QED
    BY <1>2, <1>3, <2>1 DEF Latches, Gate
<1>4. CASE a = "KS_DERIVE"
  BY <1>4 DEF Pending, Gate, PskHeaders
<1>5. CASE a = "KEY_COMMIT"
  <2>1. p.stage = "submit" /\ p.idx > 0
    BY <1>5 DEF Pending, PskHeaders
  <2> QED
    BY <1>1, <1>2, <1>5, <2>1 DEF Latches, Gate
<1>6. CASE a = "KEY_RELEASE"
  <2>1. p.stage = "open"
    BY <1>6 DEF Pending, PskHeaders
  <2> QED
    BY <1>1, <1>2, <1>6, <2>1 DEF Latches, Gate
<1>7. CASE a \in {"AES_ENC", "GCM_TAG"}
  BY <1>7 DEF Gate
<1> QED
  BY <1>3, <1>4, <1>5, <1>6, <1>7 DEF RecordOps

\* The loop of derive_psk ends with a ticket.
LEMMA MeetsTicket ==
    ASSUME NEW p \in Provers, NEW v, NEW f, NEW po, NEW r, NEW P, NEW T, NEW a, NEW b,
           Meets(p, v, f, po, r, P, T, <<>>, a, "A"), Pending(p, a, b), a \in PskHeaders, v.state = "DERIVE_PSK"
    PROVE  Meets(p, LastOp(a, v), f, po, r, P, T, OpBody(a), b, "B") /\ b = "none"
<1>1. v \in Verifiers /\ Phase(p, v, P, <<>>, a, "A") /\ Walk(p, v, T) /\ Latches(p, v, a, f)
      /\ Shares(p, v, po, r, "A")
  BY DEF Meets
<1>2. PICK w : w = LastOp(a, v)
  OBVIOUS
<1>3. w \in Verifiers
  BY <1>1, <1>2, ServedTypes
<1>4. /\ w.state = v.state /\ w.todo = Circuit(PskOf(a), 0) /\ w.psk_skipped = FALSE
      /\ w.is_resumption_run = v.is_resumption_run /\ w.resumed_handshake = v.resumed_handshake
      /\ w.psk_shares = v.psk_shares
      /\ w.key_committed = v.key_committed /\ w.key_released = v.key_released
  BY <1>1, <1>2 DEF LastOp, Verifiers, PskOf, PskHeaders
<1>5. b = "none" /\ p.stage \in {"reading", "replay"} /\ ~p.psk_circuit /\ p.psk_circuit \in BOOLEAN
  BY <1>1 DEF Pending, PskHeaders, Phase, Provers
<1>6. Agrees(p, w, T, "B", w.todo, OpBody(a))
  <2> SUFFICES ASSUME NEW e \in Futures(p, w)
               PROVE  w.todo \o Rem(w, e, "B") = OpBody(a) \o Point(p, T, e, "B")
    BY DEF Agrees
  <2>1. e.is_resumption_run = p.resuming /\ e.psk_shares \in Int
    BY <1>3, FutureTypes
  <2>2. Point(p, T, e, "B") = Serve
    BY <1>5, <2>1, PointHead
  <2>3. Rem(w, e, "B") = <<Send("PSK_DONE")>> \o Serve
    BY <1>4 DEF Rem, write_completed_psk
  <2>4. OpBody(a) = Circuit(PskOf(a), 0) \o <<Send("PSK_DONE")>>
    BY OpBodies
  <2>5. PskOf(a) \in Words /\ "PSK_DONE" \in Words /\ 0 \in Int
    BY DEF PskOf, Words
  <2>6. Circuit(PskOf(a), 0) \in Scripts /\ <<Send("PSK_DONE")>> \in Scripts /\ Serve \in Scripts
    BY <2>5, CircuitTypes, OneHeader, ServeTypes
  <2>7. (Circuit(PskOf(a), 0) \o <<Send("PSK_DONE")>>) \o Serve = Circuit(PskOf(a), 0) \o (<<Send("PSK_DONE")>> \o Serve)
    BY <2>6, Assoc3
  <2> QED
    BY <1>4, <2>2, <2>3, <2>4, <2>7, Zenon
<1>7. Phase(p, w, P, OpBody(a), b, "B")
  BY <1>4, <1>5 DEF Phase, PskHeaders, HsStages
<1>8. Walk(p, w, T)
  BY <1>1, <1>4, WalkServing
<1>9. Latches(p, w, b, f)
  BY <1>1, <1>4, <1>5 DEF Latches
<1>10. Shares(p, w, po, r, "B")
  BY <1>4, <1>5 DEF Shares
<1> QED
  BY <1>2, <1>3, <1>5, <1>6, <1>7, <1>8, <1>9, <1>10 DEF Meets

\* Or with the news that there is none.
LEMMA MeetsSkip ==
    ASSUME NEW p \in Provers, NEW v, NEW f, NEW po, NEW r, NEW P, NEW T, NEW b,
           Meets(p, v, f, po, r, P, T, <<>>, "PSK_SKIP", "A"), Pending(p, "PSK_SKIP", b), v.state = "DERIVE_PSK"
    PROVE  Meets(p, LastOp("PSK_SKIP", v), f, po, r, P, T, <<>>, b, "B") /\ b = "STOP" /\ Pending(p, b, "none")
<1>1. v \in Verifiers /\ Phase(p, v, P, <<>>, "PSK_SKIP", "A") /\ Walk(p, v, T) /\ Latches(p, v, "PSK_SKIP", f)
      /\ Shares(p, v, po, r, "A")
  BY DEF Meets
<1>2. PICK w : w = LastOp("PSK_SKIP", v)
  OBVIOUS
<1>3. w \in Verifiers
  BY <1>1, <1>2, ServedTypes
<1>4. /\ w.state = v.state /\ w.todo = <<>> /\ w.psk_skipped = TRUE
      /\ w.is_resumption_run = v.is_resumption_run /\ w.resumed_handshake = v.resumed_handshake
      /\ w.psk_shares = v.psk_shares
      /\ w.key_committed = v.key_committed /\ w.key_released = v.key_released
  BY <1>1, <1>2 DEF LastOp, Verifiers
<1>5. b = "STOP" /\ p.stage = "stop" /\ p.psk_circuit /\ p.psk_circuit \in BOOLEAN /\ Pending(p, b, "none")
  BY <1>1 DEF Pending, PskHeaders, Phase, Provers
<1>6. Agrees(p, w, T, "B", w.todo, <<>>)
  <2> SUFFICES ASSUME NEW e \in Futures(p, w)
               PROVE  w.todo \o Rem(w, e, "B") = <<>> \o Point(p, T, e, "B")
    BY DEF Agrees
  <2>1. e.is_resumption_run = p.resuming /\ e.psk_shares \in Int
    BY <1>3, FutureTypes
  <2>2. Point(p, T, e, "B") = Serve
    BY <1>5, <2>1, PointHead
  <2>3. Rem(w, e, "B") = <<>> \o Serve
    BY <1>4 DEF Rem, write_completed_psk
  <2> QED
    BY <1>4, <2>2, <2>3, ServeTypes, Nil
<1>7. Phase(p, w, P, <<>>, b, "B")
  BY <1>4, <1>5 DEF Phase, PskHeaders, HsStages
<1>8. Walk(p, w, T)
  BY <1>1, <1>4, WalkServing
<1>9. Latches(p, w, b, f)
  BY <1>1, <1>4, <1>5 DEF Latches, HsStages
<1>10. Shares(p, w, po, r, "B")
  BY <1>4, <1>5 DEF Shares
<1> QED
  BY <1>2, <1>3, <1>5, <1>6, <1>7, <1>8, <1>9, <1>10 DEF Meets

\* STOP ends the second loop.
LEMMA MeetsStop ==
    ASSUME NEW p \in Provers, NEW v, NEW f, NEW po, NEW r, NEW P, NEW T, NEW b,
           Meets(p, v, f, po, r, P, T, <<>>, "STOP", "B"), Pending(p, "STOP", b), v.state = "SHUTDOWN", P = <<>>
    PROVE  Meets(p, LastOp("STOP", v), f, po, r, P, T, <<>>, b, "C") /\ b = "none" /\ Pending(p, b, "none")
<1>1. v \in Verifiers /\ Phase(p, v, P, <<>>, "STOP", "B") /\ Walk(p, v, T) /\ Latches(p, v, "STOP", f)
      /\ Shares(p, v, po, r, "B")
  BY DEF Meets
<1>2. PICK w : w = LastOp("STOP", v)
  OBVIOUS
<1>3. w \in Verifiers
  BY <1>1, <1>2, ServedTypes
<1>4. /\ w.state = v.state /\ w.todo = <<>>
      /\ w.is_resumption_run = v.is_resumption_run /\ w.resumed_handshake = v.resumed_handshake
      /\ w.psk_shares = v.psk_shares
      /\ w.key_committed = v.key_committed /\ w.key_released = v.key_released
  BY <1>1, <1>2 DEF LastOp, Verifiers
<1>5. b = "none" /\ p.stage = "stop" /\ Pending(p, b, "none")
  BY DEF Pending, PskHeaders
<1>6. Agrees(p, w, T, "C", w.todo, <<>>)
  <2> SUFFICES ASSUME NEW e \in Futures(p, w)
               PROVE  w.todo \o Rem(w, e, "C") = <<>> \o Point(p, T, e, "C")
    BY DEF Agrees
  <2>1. e.is_resumption_run = p.resuming /\ e.psk_shares \in Int
    BY <1>3, FutureTypes
  <2>2. Point(p, T, e, "C") = <<>>
    BY <1>5, <2>1, PointHead
  <2>3. Rem(w, e, "C") = <<>>
    BY <1>4 DEF Rem
  <2> QED
    BY <1>4, <2>2, <2>3
<1>7. Phase(p, w, P, <<>>, b, "C")
  BY <1>4, <1>5 DEF Phase
<1>8. Walk(p, w, T)
  BY <1>1, <1>4, WalkServing
<1>9. Latches(p, w, b, f)
  BY <1>1, <1>4, <1>5 DEF Latches, HsStages
<1>10. Shares(p, w, po, r, "C")
  <2>1. Silent(w.todo)
    BY <1>4, SilentHeaders
  <2> QED
    BY <1>1, <1>4, <1>5, <2>1 DEF Shares
<1> QED
  BY <1>2, <1>3, <1>5, <1>6, <1>7, <1>8, <1>9, <1>10 DEF Meets

\* Every header that reaches a loop is one it serves.
LEMMA LinkVerifierServe ==
    ASSUME LinkInv, VerifierServe
    PROVE  ~mixed' /\ NoSpuriousFailure' /\ \E g : Linked(g)'
<1>1. /\ OwnInv /\ NoSpuriousFailure /\ ~mixed' /\ Stays /\ v2p' = v2p /\ VInv
      /\ verifier.todo # <<>> /\ Head(verifier.todo).op = "serve"
  BY DEF LinkInv, VerifierServe, Op, Stays, OwnInv
<1>2. PICK g : Linked(g)
  BY DEF LinkInv
<1>3. vopen /\ verifier \in Verifiers /\ verifier.state \notin Away
  BY <1>1, VerifierBusy DEF VInv, VTypes, VOwn
<1>4. PICK P, T, U, a, b, ph :
         /\ Talk(g, fault, p2v, v2p, P, T, U, a, b)
         /\ Meets(g, verifier, fault, popen, round, P, T, U, a, ph)
  BY <1>2, <1>3 DEF Linked, Together
<1>5. g \in Provers /\ a \in Ops /\ b \in Ops /\ P \in Scripts /\ T \in Scripts /\ Pending(g, a, b)
  BY <1>4, TalkTypes
<1>6. fault => fault' /\ prover' = prover /\ popen' = popen /\ round' = round
  BY <1>1 DEF Stays
<1>7. /\ U = <<>> /\ verifier.todo = Serve
      /\ g.stage \notin {"hello", "server_hello", "finished"} /\ a # "SERVER_KEY_SHARE"
      /\ (ph = "A" /\ verifier.state = "DERIVE_PSK") \/ (ph = "B" /\ verifier.state = "SHUTDOWN")
      /\ \A e \in Futures(g, verifier) : Rem(verifier, e, ph) = <<>>
  BY <1>1, <1>4, ServeHead
<1>8. /\ Talk(g, fault, p2v, v2p, P, T, <<>>, a, b)
      /\ Meets(g, verifier, fault, popen, round, P, T, <<>>, a, ph)
  BY <1>4, <1>7
<1>9. Phase(g, verifier, P, <<>>, a, ph) /\ Latches(g, verifier, a, fault)
  BY <1>8 DEF Meets
<1>10. CASE p2v = <<>>
  <2>1. ~popen /\ VerifierFails
    BY <1>10 DEF VerifierServe
  <2>2. fault
    <3> SUFFICES ASSUME ~fault PROVE FALSE
      OBVIOUS
    <3>1. g.stage = "stop" /\ g.todo = <<>>
      BY <1>2, <1>3, <2>1 DEF Linked
    <3> QED
      BY <1>1, <1>4, <1>10, <3>1, StopRead
  <2> QED
    BY <1>1, <1>2, <1>6, <2>1, <2>2, LinkFails
<1>11. CASE p2v # <<>>
  <2>1. /\ a # "none" /\ Head(p2v).m = Hdr(a) /\ OpBody(a) \in Scripts
        /\ Speaks(g, fault, Tail(p2v), v2p, P, T, OpBody(a) \o Pend(b, "none"))
    BY <1>8, <1>11, TalkServes
  <2>2. p2v' = Tail(p2v)
    BY <1>11 DEF VerifierServe
  <2>3. PICK msg : msg = Head(p2v)
    OBVIOUS
  <2>4. msg.m[1] = "header" /\ msg.m[2] = a
    BY <2>1, <2>3 DEF Hdr
  <2>5. a \in RecordOps \cup PskHeaders \cup {"PSK_SKIP", "STOP"}
    BY <1>5, <1>7, <2>1 DEF Ops, OpHeaders
  <2>6. /\ ph = "A" => a \in RecordOps \cup PskHeaders \cup {"PSK_SKIP"}
        /\ ph = "B" => a \in RecordOps \cup {"STOP"}
    BY <1>5, <1>9, <2>5 DEF Phase, Pending, PskHeaders, RecordOps
  <2>7. /\ ph = "A" => LastHeaders(verifier.state) = PskHeaders \cup {"PSK_SKIP"}
        /\ ph = "B" => LastHeaders(verifier.state) = {"STOP"}
    BY <1>7 DEF LastHeaders, PskHeaders
  <2>8. Served(verifier, msg)
    BY <1>7, <2>4, <2>6, <2>7 DEF Served
  <2>t. ASSUME NEW w \in Verifiers, NEW c, verifier' = w, vopen' = vopen, w.state = verifier.state,
               Pending(g, b, "none"), Meets(g, w, fault, popen, round, P, T, OpBody(a), b, c)
        PROVE  NoSpuriousFailure' /\ Linked(g)'
    <3>1. "none" \in Ops
      BY DEF Ops
    <3>2. Talk(g, fault, Tail(p2v), v2p, P, T, OpBody(a), b, "none")
      BY <1>5, <2>1, <2>t, <3>1 DEF Talk
    <3>3. Together(g, verifier', fault, popen, round, p2v', v2p')
      BY <1>1, <2>2, <2>t, <3>2 DEF Together
    <3> QED
      BY <1>1, <1>2, <1>3, <2>t, <3>3, LinkGoes
  <2>9. CASE a \in RecordOps
    <3>1. a \notin LastHeaders(verifier.state)
      BY <1>7, <2>7, <2>9 DEF RecordOps, PskHeaders
    <3>2. CASE Gate(a, verifier)
      <4>1. verifier' = RecordOp(a, verifier) /\ vopen' = vopen
        BY <1>11, <2>3, <2>4, <2>8, <3>1, <3>2 DEF VerifierServe
      <4>2. Meets(g, RecordOp(a, verifier), fault, popen, round, P, T, OpBody(a), b, ph) /\ Pending(g, b, "none")
        BY <1>5, <1>7, <1>8, <2>9, MeetsRecordOp
      <4>3. RecordOp(a, verifier) \in Verifiers /\ RecordOp(a, verifier).state = verifier.state
        BY <1>3, <2>9, ServedTypes
      <4> QED
        BY <1>1, <2>t, <4>1, <4>2, <4>3
    <3>3. CASE ~Gate(a, verifier)
      <4>1. VerifierFails
        BY <1>11, <2>3, <2>4, <2>8, <3>1, <3>3 DEF VerifierServe
      <4>2. fault
        BY <1>3, <1>5, <1>9, <2>1, <2>9, <3>3, GateOpen
      <4>3. Heard(g, fault', p2v', v2p')
        BY <1>1, <2>1, <2>2 DEF Heard, Stays
      <4> QED
        BY <1>1, <1>2, <1>3, <1>6, <4>1, <4>2, <4>3, LinkFails
    <3> QED
      BY <3>2, <3>3
  <2>10. CASE a \notin RecordOps
    <3>1. a \in LastHeaders(verifier.state)
      BY <1>7, <2>6, <2>7, <2>10
    <3>2. verifier' = LastOp(a, verifier) /\ vopen' = vopen
      BY <1>11, <2>3, <2>4, <2>8, <3>1 DEF VerifierServe
    <3>3. LastOp(a, verifier) \in Verifiers /\ LastOp(a, verifier).state = verifier.state
      BY <1>3, ServedTypes
    <3>4. CASE a \in PskHeaders
      <4>1. ph = "A" /\ verifier.state = "DERIVE_PSK"
        BY <1>7, <2>6, <3>4 DEF RecordOps, PskHeaders
      <4>2. Meets(g, verifier, fault, popen, round, P, T, <<>>, a, "A")
        BY <1>8, <4>1
      <4>3. Meets(g, LastOp(a, verifier), fault, popen, round, P, T, OpBody(a), b, "B") /\ b = "none"
        BY <1>5, <3>4, <4>1, <4>2, MeetsTicket
      <4>4. Pending(g, b, "none")
        BY <1>7, <4>3 DEF Pending
      <4> QED
        BY <1>1, <2>t, <3>2, <3>3, <4>3, <4>4
    <3>5. CASE a = "PSK_SKIP"
      <4>1. ph = "A" /\ verifier.state = "DERIVE_PSK"
        BY <1>7, <2>6, <3>5 DEF RecordOps
      <4>2. Meets(g, verifier, fault, popen, round, P, T, <<>>, "PSK_SKIP", "A") /\ Pending(g, "PSK_SKIP", b)
        BY <1>5, <1>8, <3>5, <4>1
      <4>3. Meets(g, LastOp(a, verifier), fault, popen, round, P, T, <<>>, b, "B") /\ Pending(g, b, "none")
        BY <1>5, <3>5, <4>1, <4>2, MeetsSkip
      <4>4. OpBody(a) = <<>>
        BY <3>5, OpBodies
      <4> QED
        BY <1>1, <2>t, <3>2, <3>3, <4>3, <4>4
    <3>6. CASE a = "STOP"
      <4>1. ph = "B" /\ verifier.state = "SHUTDOWN"
        BY <1>7, <2>6, <3>6 DEF RecordOps, PskHeaders
      <4>2. g.stage = "stop" /\ b = "none"
        BY <1>5, <3>6 DEF Pending, PskHeaders
      <4>3. OpBody(a) = <<>> /\ Pend("none", "none") = <<>>
        BY <1>5, <3>6, OpBodies, PendTypes
      <4>4. Speaks(g, fault, Tail(p2v), v2p, P, T, <<>>)
        BY <2>1, <4>2, <4>3, Nil
      <4>5. /\ Matches(Says(g, fault), P, <<>>, Tail(p2v), v2p) /\ AllSend(g.todo) /\ g.todo = P \o T /\ T = <<>>
        BY <4>2, <4>4 DEF Speaks, Parts
      <4>6. \A i \in 1 .. Len(P) : P[i].op = "recv"
        BY <4>5, MatchVerifierDone
      <4>7. g.todo = P
        BY <1>5, <4>5, Nil
      <4>8. P = <<>>
        <5> SUFFICES ASSUME P # <<>> PROVE FALSE
          OBVIOUS
        <5>1. Head(P).op = "send"
          BY <1>5, <4>5, <4>7, AllSendTail
        <5>2. Head(P).op = "recv"
          BY <1>5, <4>6, AllRecvHead DEF AllRecv
        <5> QED
          BY <5>1, <5>2
      <4>9. Meets(g, verifier, fault, popen, round, P, T, <<>>, "STOP", "B") /\ Pending(g, "STOP", b)
        BY <1>5, <1>8, <3>6, <4>1
      <4>10. Meets(g, LastOp(a, verifier), fault, popen, round, P, T, <<>>, b, "C") /\ Pending(g, b, "none")
        BY <1>5, <3>6, <4>1, <4>8, <4>9, MeetsStop
      <4> QED
        BY <1>1, <2>t, <3>2, <3>3, <4>3, <4>10
    <3> QED
      BY <2>5, <2>10, <3>4, <3>5, <3>6
  <2> QED
    BY <2>9, <2>10
<1> QED
  BY <1>10, <1>11

\* The verifier goes on to its next handler.
LEMMA WalkStep ==
    ASSUME NEW p, NEW v, NEW w, NEW T, Walk(p, v, T), v.todo = <<>>, v.state \in Handshaking,
           w.state = next_state(v.state), w.todo = Handler(w.state, v), w.psk_shares = v.psk_shares,
           w.is_resumption_run = v.is_resumption_run, w.resumed_handshake = v.resumed_handshake,
           v.state = "PSK_BINDER" => ~(p.stage = "hello" \/ Stray(p))
    PROVE  Walk(p, w, T)
<1>1. /\ Handler("READING_SKS", v) = read_sks_keyshare /\ Handler("WRITING_HS_RECV", v) = write_hs_recv
      /\ Handler("ECTF_WAIT", v) = do_ectf
  BY DEF Handler
<1>2. read_sks_keyshare # <<>> /\ do_ectf # <<>>
  <2>1. <<Recv({"HS_MODE_FULL", "HS_MODE_RESUMED"}), Recv({"DO_ECTF"})>> \in Scripts
        /\ <<Recv({"HS_MODE_FULL", "HS_MODE_RESUMED"}), Recv({"DO_ECTF"})>> # <<>> /\ Circuit("ectf", 0) \in Scripts
    <3>1. Recv({"HS_MODE_FULL", "HS_MODE_RESUMED"}) \in Instrs /\ Recv({"DO_ECTF"}) \in Instrs
          /\ Circuit("ectf", 0) \in Scripts
      BY RecvTypes, CircuitTypes DEF Words
    <3> QED
      BY <3>1 DEF Scripts
  <2>2. do_ectf # <<>>
    BY <2>1, CatEmpty DEF do_ectf
  <2> QED
    BY <2>2 DEF read_sks_keyshare
<1>3. /\ w.state # "HANDSHAKE_DONE"
      /\ w.state = "ECTF_DONE" => v.state = "ECTF_WAIT"
      /\ w.state \in {"KS_WAIT", "KS_DONE", "CERT_WAIT"} => v.state \in {"ECTF_DONE", "KS_WAIT", "KS_DONE"}
      /\ v.state \in EarlyStates => w.state \in EarlyStates \/ (v.state = "PSK_BINDER" /\ w.state = "READING_SKS")
      /\ w.state \in EarlyStates => v.state \in EarlyStates
      /\ w.state = "READING_SKS" => v.state \in EarlyStates
      /\ w.state = "FINISHING_TPH" => v.state = "READING_SKS"
      /\ w.state = "WRITING_HS_RECV" => v.state = "FINISHING_TPH"
  BY NextState, HsStatesAre DEF EarlyStates
<1>4. v.is_resumption_run = p.resuming
  BY DEF Walk
<1>5. w.state = "ECTF_WAIT" => w.todo = do_ectf
  BY <1>1
<1>6. w.state \in {"ECTF_DONE", "KS_WAIT", "KS_DONE", "CERT_WAIT"} => w.resumed_handshake = p.reused
  BY <1>2, <1>3 DEF Walk
<1>7. p.stage = "hello" \/ Stray(p) => w.state \in EarlyStates
  BY <1>3 DEF Walk
<1>8. p.stage \in Hello => w.state \in EarlyStates \/ (w.state = "READING_SKS" /\ w.todo = read_sks_keyshare)
  BY <1>1, <1>2, <1>3 DEF Walk
<1>9. \/ p.stage \in Hello \/ Stray(p) \/ (p.stage = "finished" /\ T # <<>>)
      \/ /\ w.state \notin EarlyStates \cup {"READING_SKS", "FINISHING_TPH"}
         /\ w.state = "WRITING_HS_RECV" => w.todo = <<>>
  BY <1>3 DEF Walk
<1>10. w.state = "WRITING_HS_RECV" => w.todo = write_hs_recv
  BY <1>1
<1>11. p.stage \in HsStages /\ p.offer # NoPsk => p.offer = w.psk_shares
  BY DEF Walk
<1> QED
  BY <1>3, <1>4, <1>5, <1>6, <1>7, <1>8, <1>9, <1>10, <1>11 DEF Walk

\* It does not pass the binder before the prover has said which one.
LEMMA BinderComes ==
    ASSUME NEW p \in Provers, NEW v, NEW T, NEW U \in Scripts, Agrees(p, v, T, "A", v.todo, U), v \in Verifiers,
           v.todo = <<>>, v.state = "PSK_BINDER", Stray(p) => p.stage \in {"server_hello", "finished"}
    PROVE  ~(p.stage = "hello" \/ Stray(p))
<1>1. PICK e : e \in Futures(p, v)
  BY FutureTypes
<1>2. e.psk_shares \in Int /\ e.is_resumption_run = p.resuming
  BY <1>1, FutureTypes
<1>3. <<>> \o Rem(v, e, "A") = U \o Point(p, T, e, "A")
  BY <1>1 DEF Agrees
<1>4. Rem(v, e, "A") = From_READING_SKS(e)
  BY DEF Rem, After
<1>5. From_READING_SKS(e) \in Scripts /\ do_psk_binder(e) \in Scripts /\ From_PSK_BINDER(e) \in Scripts
  BY <1>2, FromTypes, ChoiceTypes
<1>6. From_READING_SKS(e) = U \o Point(p, T, e, "A")
  BY <1>3, <1>4, <1>5, Nil
<1>7. ASSUME Stray(p) PROVE FALSE
  <2>1. Point(p, T, e, "A") = From_PSK_BINDER(e)
    BY <1>7 DEF Point
  <2>2. From_READING_SKS(e) = U \o (do_psk_binder(e) \o From_READING_SKS(e))
    BY <1>6, <2>1 DEF From_PSK_BINDER
  <2>3. do_psk_binder(e) = <<>>
    BY <1>5, <2>2, NoShorter
  <2>4. <<Recv({"DERIVE_BINDER"})>> \o Circuit("binder", e.psk_shares) = <<>>
    BY <1>2, <1>7, <2>3 DEF do_psk_binder, Stray
  <2>5. <<Recv({"DERIVE_BINDER"})>> \in Scripts /\ Circuit("binder", e.psk_shares) \in Scripts
    BY <1>2, OneHeader, CircuitTypes DEF Words
  <2> QED
    BY <2>4, <2>5, CatEmpty
<1>8. ASSUME p.stage = "hello" PROVE FALSE
  <2>1. Point(p, T, e, "A") = From_READING_KS(e)
    BY <1>8 DEF Point
  <2>2. PICK K : K = read_keyshare_after_handshake \o send_additive_share
    OBVIOUS
  <2>3. K \in Scripts
    BY <2>2, HandlerTypes, Cat
  <2>4. From_READING_KS(e) = K \o From_PSK_BINDER(e)
    BY <1>2, <2>2, Points
  <2>5. From_READING_SKS(e) = U \o (K \o (do_psk_binder(e) \o From_READING_SKS(e)))
    BY <1>6, <2>1, <2>4 DEF From_PSK_BINDER
  <2>6. (K \o do_psk_binder(e)) \o From_READING_SKS(e) = K \o (do_psk_binder(e) \o From_READING_SKS(e))
        /\ K \o do_psk_binder(e) \in Scripts
    <3>1. PICK b, s : b = do_psk_binder(e) /\ s = From_READING_SKS(e)
      OBVIOUS
    <3>2. b \in Scripts /\ s \in Scripts
      BY ONLY <1>5, <3>1
    <3>3. (K \o b) \o s = K \o (b \o s)
      BY ONLY <2>3, <3>2, Assoc3
    <3>4. K \o b \in Scripts
      BY ONLY <2>3, <3>2, Cat
    <3> QED
      BY ONLY <3>1, <3>3, <3>4
  <2>7. From_READING_SKS(e) = U \o ((K \o do_psk_binder(e)) \o From_READING_SKS(e))
    BY <2>5, <2>6
  <2>8. K \o do_psk_binder(e) = <<>>
    BY <1>5, <2>6, <2>7, NoShorter
  <2>9. K = <<>>
    BY <1>5, <2>3, <2>8, CatEmpty
  <2>10. read_keyshare_after_handshake = <<>>
    BY <2>2, <2>9, HandlerTypes, CatEmpty
  <2> QED
    BY <2>10 DEF read_keyshare_after_handshake
<1> QED
  BY <1>7, <1>8

\* The next handler of the handshake is the one the prover needs.
LEMMA MeetsHandler ==
    ASSUME NEW p \in Provers, NEW v, NEW f, NEW po, NEW r, NEW P, NEW T, NEW U \in Scripts, NEW a,
           Meets(p, v, f, po, r, P, T, U, a, "A"), v.todo = <<>>, v.state \in Handshaking,
           Stray(p) => p.stage \in {"server_hello", "finished"}
    PROVE  Meets(p, Enter(next_state(v.state), v), f, po, r, P, T, U, a, "A")
<1>1. v \in Verifiers /\ Phase(p, v, P, U, a, "A") /\ Walk(p, v, T) /\ Latches(p, v, a, f)
      /\ Shares(p, v, po, r, "A") /\ Agrees(p, v, T, "A", v.todo, U)
  BY DEF Meets
<1>2. PICK s : s = next_state(v.state)
  OBVIOUS
<1>3. PICK w : w = Enter(s, v)
  OBVIOUS
<1>4. /\ v.is_resumption_run = p.resuming
      /\ v.state \in {"ECTF_DONE", "KS_DONE"} => v.resumed_handshake = p.reused /\ p.stage \notin Hello
  BY <1>1 DEF Walk, EarlyStates
<1>5. ASSUME NEW e \in Futures(p, v)
      PROVE  s \in HsStates /\ After(v.state, e) = Handler(s, v) \o After(s, e) /\ e.psk_shares \in Int
  <2>1. /\ e.psk_shares \in Int /\ v.is_resumption_run = e.is_resumption_run /\ v.psk_shares = e.psk_shares
        /\ v.state \in {"ECTF_DONE", "KS_DONE"} => v.resumed_handshake = e.resumed_handshake
    BY <1>1, <1>4, FutureTypes
  <2> QED
    BY <1>2, <2>1, AfterStep
<1>6. s \in HsStates
  BY <1>1, <1>5, FutureTypes
<1>7. s \in VStates
  BY <1>6 DEF VStates
<1>8. w \in Verifiers /\ w.state = s /\ w.todo = Handler(s, v) /\ Handler(s, v) \in Scripts
  BY <1>1, <1>3, <1>7, EnterTypes, HandlersAre
<1>9. /\ w.is_resumption_run = v.is_resumption_run /\ w.resumed_handshake = v.resumed_handshake
      /\ w.psk_shares = v.psk_shares
      /\ w.key_committed = v.key_committed /\ w.key_released = v.key_released
  BY <1>1, <1>3 DEF Enter, Verifiers
<1>10. Agrees(p, w, T, "A", w.todo, U)
  <2> SUFFICES ASSUME NEW e \in Futures(p, w)
               PROVE  w.todo \o Rem(w, e, "A") = U \o Point(p, T, e, "A")
    BY DEF Agrees
  <2>1. e \in Futures(p, v)
    BY <1>9 DEF Futures
  <2>2. <<>> \o After(v.state, e) = U \o Point(p, T, e, "A")
    BY <1>1, <2>1 DEF Agrees, Rem
  <2>3. After(v.state, e) = Handler(s, v) \o After(s, e) /\ After(v.state, e) \in Scripts
    BY <1>5, <2>1, AfterTypes
  <2>4. Rem(w, e, "A") = After(s, e)
    BY <1>8 DEF Rem
  <2> QED
    BY <1>8, <2>2, <2>3, <2>4, Nil
<1>11. Phase(p, w, P, U, a, "A")
  BY <1>1, <1>6, <1>8 DEF Phase
<1>12. v.state = "PSK_BINDER" => ~(p.stage = "hello" \/ Stray(p))
  BY <1>1, BinderComes
<1>13. Walk(p, w, T)
  BY <1>1, <1>2, <1>8, <1>9, <1>12, WalkStep
<1>14. Latches(p, w, a, f)
  BY <1>1, <1>9 DEF Latches
<1>15. Shares(p, w, po, r, "A")
  <2>1. Silent(w.todo)
    BY <1>1, <1>8, HandlerSilent
  <2> QED
    BY <1>1, <2>1 DEF Shares
<1> QED
  BY <1>2, <1>3, <1>8, <1>10, <1>11, <1>13, <1>14, <1>15 DEF Meets

\* After the ticket, or the news that there is none.
LEMMA MeetsPskDone ==
    ASSUME NEW p \in Provers, NEW v, NEW f, NEW po, NEW r, NEW P, NEW T, NEW U \in Scripts, NEW a,
           Meets(p, v, f, po, r, P, T, U, a, "B"), v.todo = <<>>
    PROVE  /\ v.state \in {"DERIVE_PSK", "PSK_DONE"}
           /\ Meets(p, Enter(next_state(v.state), v), f, po, r, P, T, U, a, "B")
<1>1. v \in Verifiers /\ Phase(p, v, P, U, a, "B") /\ Walk(p, v, T) /\ Latches(p, v, a, f)
      /\ Shares(p, v, po, r, "B") /\ Agrees(p, v, T, "B", v.todo, U)
  BY DEF Meets
<1>2. v.state \in {"DERIVE_PSK", "PSK_DONE", "SHUTDOWN"} /\ p.stage \notin {"hello", "server_hello", "finished"}
  BY <1>1 DEF Phase, HsStages
<1>3. v.state # "SHUTDOWN"
  <2> SUFFICES ASSUME v.state = "SHUTDOWN" PROVE FALSE
    OBVIOUS
  <2>1. PICK e : e \in Futures(p, v)
    BY <1>1, FutureTypes
  <2>2. e.psk_shares \in Int /\ e.is_resumption_run = p.resuming
    BY <1>1, <2>1, FutureTypes
  <2>3. <<>> \o Rem(v, e, "B") = U \o Point(p, T, e, "B")
    BY <1>1, <2>1 DEF Agrees
  <2>4. Rem(v, e, "B") = <<>>
    BY DEF Rem
  <2>5. Point(p, T, e, "B") = Serve
    BY <1>2, <2>2, PointHead
  <2>6. U \o Serve = <<>>
    BY <2>3, <2>4, <2>5
  <2> QED
    BY <2>6, ServeTypes, CatEmpty
<1>4. PICK s : s = next_state(v.state)
  OBVIOUS
<1>5. /\ v.state = "DERIVE_PSK" => s = "PSK_DONE" /\ Handler(s, v) = write_completed_psk(v)
      /\ v.state = "PSK_DONE" => s = "SHUTDOWN" /\ Handler(s, v) = Serve
  BY <1>4, NextState DEF Handler
<1>6. s \in VStates
  BY <1>2, <1>3, <1>5 DEF VStates
<1>7. PICK w : w = Enter(s, v)
  OBVIOUS
<1>8. w \in Verifiers /\ w.state = s /\ w.todo = Handler(s, v) /\ Handler(s, v) \in Scripts
  BY <1>1, <1>6, <1>7, EnterTypes, HandlersAre
<1>9. /\ w.is_resumption_run = v.is_resumption_run /\ w.resumed_handshake = v.resumed_handshake
      /\ w.psk_shares = v.psk_shares /\ w.psk_skipped = v.psk_skipped
      /\ w.key_committed = v.key_committed /\ w.key_released = v.key_released
  BY <1>1, <1>2, <1>3, <1>5, <1>7 DEF Enter, Verifiers
<1>10. Agrees(p, w, T, "B", w.todo, U)
  <2> SUFFICES ASSUME NEW e \in Futures(p, w)
               PROVE  w.todo \o Rem(w, e, "B") = U \o Point(p, T, e, "B")
    BY DEF Agrees
  <2>1. e \in Futures(p, v)
    BY <1>9 DEF Futures
  <2>2. <<>> \o Rem(v, e, "B") = U \o Point(p, T, e, "B") /\ e.psk_shares \in Int
    BY <1>1, <2>1, FutureTypes DEF Agrees
  <2>3. Rem(v, e, "B") \in Scripts
    BY <1>1, <2>2, RemTypes
  <2>4. Rem(v, e, "B") = U \o Point(p, T, e, "B")
    BY <2>2, <2>3, Nil
  <2>5. CASE v.state = "DERIVE_PSK"
    BY <1>5, <1>8, <2>4, <2>5 DEF Rem
  <2>6. CASE v.state = "PSK_DONE"
    <3>1. w.todo = Serve /\ Rem(w, e, "B") = <<>> /\ Rem(v, e, "B") = Serve
      BY <1>5, <1>8, <2>6 DEF Rem
    <3> QED
      BY <2>4, <3>1, ServeTypes, Nil
  <2> QED
    BY <1>2, <1>3, <2>5, <2>6
<1>11. Phase(p, w, P, U, a, "B")
  BY <1>1, <1>2, <1>3, <1>5, <1>8, <1>9 DEF Phase
<1>12. Walk(p, w, T)
  BY <1>1, <1>2, <1>3, <1>5, <1>8, <1>9, WalkServing
<1>13. Latches(p, w, a, f)
  BY <1>1, <1>9 DEF Latches
<1>14. Shares(p, w, po, r, "B")
  <2>1. Silent(w.todo)
    BY <1>1, <1>8, HandlerSilent
  <2>2. ~\E h \in PskHeaders : <<>> \in {Circuit(PskOf(h), 0), Tail(Circuit(PskOf(h), 0))}
    BY DEF Circuit
  <2>3. po /\ ~p.psk_circuit => v.psk_shares = r
    BY <1>1, <2>2 DEF Shares
  <2>4. p.stage = "stop" /\ ~p.psk_circuit => v.state \in {"PSK_DONE", "SHUTDOWN"} /\ v.psk_shares = p.ticket
    BY <1>1 DEF Shares
  <2> QED
    BY <1>2, <1>3, <1>5, <1>8, <1>9, <2>1, <2>3, <2>4 DEF Shares
<1> QED
  BY <1>2, <1>3, <1>4, <1>7, <1>8, <1>10, <1>11, <1>12, <1>13, <1>14 DEF Meets

\* The first loop is not left without a header.
LEMMA LoopStays ==
    ASSUME NEW p \in Provers, NEW v, NEW f, NEW po, NEW r, NEW P, NEW T, NEW U \in Scripts, NEW a,
           Meets(p, v, f, po, r, P, T, U, a, "A"), v.todo = <<>>
    PROVE  v.state \in Handshaking
<1>1. v \in Verifiers /\ Phase(p, v, P, U, a, "A") /\ Agrees(p, v, T, "A", v.todo, U)
  BY DEF Meets
<1> SUFFICES ASSUME v.state = "DERIVE_PSK" PROVE FALSE
  BY <1>1 DEF Phase, HsStates
<1>2. PICK e : e \in Futures(p, v)
  BY <1>1, FutureTypes
<1>3. e.psk_shares \in Int /\ e.is_resumption_run = p.resuming
  BY <1>1, <1>2, FutureTypes
<1>4. <<>> \o Rem(v, e, "A") = U \o Point(p, T, e, "A")
  BY <1>1, <1>2 DEF Agrees
<1>5. Rem(v, e, "A") = <<>>
  BY DEF Rem, After
<1>6. Point(p, T, e, "A") # <<>> /\ Point(p, T, e, "A") \in Scripts
  BY <1>3, PointHead, PointTypes, ServeTypes
<1>7. U \o Point(p, T, e, "A") = <<>>
  BY <1>4, <1>5
<1> QED
  BY <1>6, <1>7, CatEmpty

LEMMA SpeaksMore ==
    ASSUME NEW p, NEW f, NEW k, f => k, NEW x, NEW y, NEW P, NEW T, NEW V, Speaks(p, f, x, y, P, T, V)
    PROVE  Speaks(p, k, x, y, P, T, V)
<1>1. Says(p, f) \subseteq Says(p, k)
  BY SaysMore
<1>2. Matches(Says(p, f), P, V, x, y)
  BY DEF Speaks
<1>3. Matches(Says(p, k), P, V, x, y)
  BY <1>1, <1>2, MatchMore
<1> QED
  BY <1>3 DEF Speaks

LEMMA HeardMore ==
    ASSUME NEW p, NEW f, NEW k, f => k, NEW x, NEW y, Heard(p, f, x, y)
    PROVE  Heard(p, k, x, y)
  BY SpeaksMore DEF Heard

LEMMA LinkAdvance ==
    ASSUME LinkInv, Advance
    PROVE  ~mixed' /\ NoSpuriousFailure' /\ \E g : Linked(g)'
<1>1. /\ OwnInv /\ NoSpuriousFailure /\ ~mixed' /\ Stays /\ v2p' = v2p /\ p2v' = p2v /\ VInv
      /\ verifier.todo = <<>> /\ verifier.state \in HsStates \cup {"PSK_DONE", "SHUTDOWN"}
      /\ verifier' = Enter(next_state(verifier.state), verifier) /\ vopen' = (verifier.state # "SHUTDOWN")
  BY WalkStates DEF LinkInv, Advance, Stays, OwnInv
<1>2. PICK g : Linked(g)
  BY DEF LinkInv
<1>3. verifier.state \notin Away /\ vopen /\ verifier \in Verifiers
  BY <1>1, WalkStates DEF VInv, VTypes, VOwn
<1>4. PICK P, T, U, a, b, ph :
         /\ Talk(g, fault, p2v, v2p, P, T, U, a, b)
         /\ Meets(g, verifier, fault, popen, round, P, T, U, a, ph)
  BY <1>2, <1>3 DEF Linked, Together
<1>5. g \in Provers /\ U \in Scripts /\ P \in Scripts /\ Phase(g, verifier, P, U, a, ph)
      /\ ph \in {"A", "B", "C"} /\ Parts(g, P, T)
  BY <1>4, TalkTypes DEF Meets
<1>6. ASSUME NEW c, Meets(g, verifier', fault, popen, round, P, T, U, a, c), verifier.state # "SHUTDOWN"
      PROVE  NoSpuriousFailure' /\ Linked(g)'
  <2>1. Together(g, verifier', fault, popen, round, p2v', v2p')
    BY <1>1, <1>4, <1>6 DEF Together
  <2>2. next_state(verifier.state) \in HsStates \cup {"PSK_DONE", "SHUTDOWN"}
    BY <1>1, <1>6, WalkStates
  <2>3. next_state(verifier.state) \in VStates /\ next_state(verifier.state) \notin Away
    BY <2>2, WalkStates DEF VStates
  <2>4. verifier'.state \notin Away
    BY <1>1, <1>3, <2>3, EnterTypes
  <2> QED
    BY <1>1, <1>2, <1>3, <1>6, <2>1, <2>4, LinkGoes
<1>7. CASE ph = "A"
  <2>0. Meets(g, verifier, fault, popen, round, P, T, U, a, "A")
    BY <1>4, <1>7
  <2>1. verifier.state \in Handshaking
    BY <1>1, <1>5, <2>0, LoopStays
  <2>2. Stray(g) => g.stage \in {"server_hello", "finished"}
    BY <1>4 DEF Talk, Speaks
  <2>3. Meets(g, verifier', fault, popen, round, P, T, U, a, "A")
    BY <1>1, <1>5, <2>0, <2>1, <2>2, MeetsHandler
  <2>4. verifier.state # "SHUTDOWN"
    BY <2>1, HsStatesAre
  <2> QED
    BY <1>1, <1>6, <2>3, <2>4
<1>8. CASE ph = "B"
  <2>0. Meets(g, verifier, fault, popen, round, P, T, U, a, "B")
    BY <1>4, <1>8
  <2>1. verifier.state \in {"DERIVE_PSK", "PSK_DONE"} /\ Meets(g, verifier', fault, popen, round, P, T, U, a, "B")
    BY <1>1, <1>5, <2>0, MeetsPskDone
  <2> QED
    BY <1>1, <1>6, <2>1
<1>9. CASE ph = "C"
  <2>1. verifier.state = "SHUTDOWN" /\ g.stage = "stop" /\ P = <<>>
    BY <1>5, <1>9 DEF Phase
  <2>2. g.todo = <<>>
    BY <1>5, <2>1, Nil DEF Parts
  <2>3. ~g.psk_circuit => verifier.psk_shares = g.ticket
    BY <1>4, <2>1 DEF Meets, Shares
  <2>4. next_state(verifier.state) = "DONE" /\ "DONE" \in VStates
    BY <2>1, NextState DEF VStates, Away
  <2>5. verifier'.state = "DONE" /\ verifier'.psk_shares = verifier.psk_shares /\ vopen' = FALSE
    BY <1>1, <1>3, <2>1, <2>4 DEF Enter, Verifiers
  <2>6. NoSpuriousFailure'
    BY <1>1, <2>5 DEF NoSpuriousFailure, Stays
  <2>7. Linked(g)'
    <3>1. popen' => g = prover'
      BY <1>1, <1>2 DEF Linked, Stays
    <3>2. prover.stage \in {"idle", "connect"} /\ prover.session # NoPsk =>
             ~g.psk_circuit /\ g.ticket = prover.session
      BY <1>2, <1>3 DEF Linked, Away
    <3>3. prover.stage \in {"idle", "connect"} /\ prover.session # NoPsk =>
             verifier'.psk_shares = prover.session
      BY <2>3, <2>5, <3>2
    <3>4. ~g.psk_circuit => verifier'.psk_shares = g.ticket
      BY <2>3, <2>5
    <3> QED
      BY <1>1, <2>1, <2>2, <2>5, <3>1, <3>3, <3>4 DEF Linked, Stays
  <2> QED
    BY <1>1, <2>6, <2>7
<1> QED
  BY <1>5, <1>7, <1>8, <1>9

LEMMA LinkAcceptAgain ==
    ASSUME LinkInv, AcceptAgain
    PROVE  ~mixed' /\ NoSpuriousFailure' /\ \E g : Linked(g)'
<1>1. PICK g : Linked(g)
  BY DEF LinkInv
<1>2. verifier \in Verifiers /\ vopen = FALSE /\ verifier.state = "DONE"
  BY DEF LinkInv, OwnInv, VInv, VTypes, VOwn, AcceptAgain, Away
<1>3. /\ verifier'.state = "ACCEPT" /\ verifier'.psk_shares = verifier.psk_shares /\ vopen' = FALSE
      /\ prover' = prover /\ popen' = popen /\ round' = round /\ fault' = fault /\ mixed' = mixed
  BY <1>2 DEF AcceptAgain, Verifiers
<1>4. NoSpuriousFailure'
  BY <1>3 DEF LinkInv, NoSpuriousFailure
<1>5. Linked(g)'
  BY <1>1, <1>2, <1>3 DEF Linked
<1> QED
  BY <1>3, <1>4, <1>5 DEF LinkInv

LEMMA LinkVerifierGone ==
    ASSUME LinkInv, AcceptTimesOut \/ VerifierCrash
    PROVE  ~mixed' /\ NoSpuriousFailure' /\ \E g : Linked(g)'
<1>1. PICK g : Linked(g)
  BY DEF LinkInv
<1>2. /\ VerifierFails /\ fault' = TRUE /\ prover' = prover /\ popen' = popen /\ round' = round
      /\ p2v' = p2v /\ v2p' = v2p /\ mixed' = mixed /\ verifier.state # "EXITED"
  BY DEF AcceptTimesOut, VerifierCrash
<1>3. popen /\ vopen => Heard(g, fault', p2v', v2p')
  <2> SUFFICES ASSUME vopen PROVE Heard(g, fault', p2v', v2p')
    OBVIOUS
  <2>1. Heard(g, fault, p2v, v2p)
    BY <1>1, TalkHeard DEF Linked, Together
  <2> QED
    BY <1>2, <2>1, HeardMore
<1>4. popen /\ ~vopen => Lost(g) \/ Heard(g, fault', p2v', v2p')
  <2>1. AllSend(<<>>)
    BY DEF AllSend
  <2>2. popen /\ ~vopen => g.stage = "stop" /\ g.todo = <<>>
    BY <1>1, <1>2 DEF Linked
  <2> QED
    BY <2>1, <2>2 DEF Lost
<1>5. NoSpuriousFailure' /\ Linked(g)'
  BY <1>1, <1>2, <1>3, <1>4, LinkFails DEF LinkInv
<1> QED
  BY <1>2, <1>5 DEF LinkInv

-----------------------------------------------------------------------------
(* The steps of the prover *)

\* The prover's end stays open.
LEMMA LinkProverGoes ==
    ASSUME NEW g, Linked(g), NoSpuriousFailure, popen, popen' = popen, verifier' = verifier, vopen' = vopen,
           round' = round, fault => fault', prover.stage # "stop" \/ prover.todo # <<>>,
           prover'.stage \in InRound,
           vopen => Together(prover', verifier, fault', popen, round, p2v', v2p'),
           ~vopen /\ verifier.state = "EXITED" => Lost(prover') \/ Heard(prover', fault', p2v', v2p')
    PROVE  NoSpuriousFailure' /\ \E h : Linked(h)'
<1>1. prover'.stage \notin {"idle", "connect"}
  BY DEF InRound, HsStages
<1>2. NoSpuriousFailure'
  BY <1>1 DEF NoSpuriousFailure
<1>3. ~vopen => verifier.state = "EXITED"
  BY DEF Linked
<1>4. vopen' => Together(prover, verifier, fault, popen, round, p2v, v2p)'
  OBVIOUS
<1>5. ~vopen' => (verifier.state = "EXITED" /\ (Lost(prover) \/ Heard(prover, fault, p2v, v2p)))'
  BY <1>3
<1>6. PICK q : q = prover'
  OBVIOUS
<1>7. Linked(q)'
  BY <1>1, <1>4, <1>5, <1>6 DEF Linked
<1> QED
  BY <1>2, <1>7

LEMMA SharesClosed ==
    ASSUME NEW p, NEW v, NEW po, NEW r, NEW r2, NEW ph, Shares(p, v, po, r, ph)
    PROVE  Shares(p, v, FALSE, r2, ph)
  BY DEF Shares

\* The prover's end is closed.
LEMMA TogetherClosed ==
    ASSUME NEW p, NEW v, NEW f, NEW k, f => k, NEW po, NEW r, NEW r2, NEW x, NEW y, Together(p, v, f, po, r, x, y)
    PROVE  Together(p, v, k, FALSE, r2, x, y)
<1>1. PICK P, T, U, a, b, ph : Talk(p, f, x, y, P, T, U, a, b) /\ Meets(p, v, f, po, r, P, T, U, a, ph)
  BY DEF Together
<1>2. Talk(p, k, x, y, P, T, U, a, b)
  BY <1>1, SpeaksMore DEF Talk
<1>3. Latches(p, v, a, k) /\ Shares(p, v, FALSE, r2, ph)
  BY <1>1, SharesClosed DEF Meets, Latches
<1>4. Meets(p, v, k, FALSE, r2, P, T, U, a, ph)
  BY <1>1, <1>3 DEF Meets
<1> QED
  BY <1>2, <1>4 DEF Together

LEMMA LinkProverEnds ==
    ASSUME NEW g, Linked(g), NoSpuriousFailure, popen, popen' = FALSE, verifier' = verifier, vopen' = vopen,
           fault => fault', vopen => p2v' = p2v /\ v2p' = v2p,
           fault' \/ (prover.stage = "stop" /\ prover.todo = <<>> /\ prover'.ok),
           vopen /\ prover.stage = "finished" /\ Stray(prover) => prover'.stage = "quit" /\ Stray(prover'),
           prover'.stage \in {"idle", "quit"},
           prover'.stage = "idle" /\ prover'.session # NoPsk =>
              /\ prover.stage = "stop" /\ prover.todo = <<>> /\ ~prover.psk_circuit
              /\ prover'.session = prover.ticket
    PROVE  NoSpuriousFailure' /\ \E h : Linked(h)'
<1>1. NoSpuriousFailure'
  BY DEF NoSpuriousFailure
<1>2. g = prover
  BY DEF Linked
<1>3. vopen => Together(g, verifier, fault, popen, round, p2v, v2p)'
  <2> SUFFICES ASSUME vopen PROVE Together(g, verifier', fault', popen', round', p2v', v2p')
    OBVIOUS
  <2>1. Together(g, verifier, fault, popen, round, p2v, v2p)
    BY DEF Linked
  <2>2. Together(g, verifier, fault', FALSE, round', p2v, v2p)
    BY <2>1, TogetherClosed
  <2> QED
    BY <2>2
<1>4. vopen /\ ~fault' => g.stage = "stop" /\ g.todo = <<>>
  BY <1>2
<1>5. prover'.stage \in {"idle", "connect"} /\ prover'.session # NoPsk =>
         \/ verifier.state = "EXITED"
         \/ verifier.state \in {"DONE", "ACCEPT"} /\ verifier.psk_shares = prover'.session
         \/ vopen /\ g.stage = "stop" /\ ~g.psk_circuit /\ g.ticket = prover'.session
  BY <1>2 DEF Linked
<1>6. Linked(g)'
  BY <1>2, <1>3, <1>4, <1>5 DEF Linked
<1> QED
  BY <1>1, <1>6

\* A failed round is answered for.
LEMMA LinkEndRound ==
    ASSUME LinkInv, popen, EndRound(FALSE), verifier' = verifier, vopen' = vopen, mixed' = mixed,
           vopen => p2v' = p2v /\ v2p' = v2p, fault', fault => fault',
           vopen => ~(prover.stage = "finished" /\ Stray(prover))
    PROVE  ~mixed' /\ NoSpuriousFailure' /\ \E g : Linked(g)'
<1>1. PICK g : Linked(g)
  BY DEF LinkInv
<1>2. prover'.stage = "idle" /\ prover'.session = NoPsk /\ popen' = FALSE
  BY DEF EndRound, ProverIdle
<1>3. NoSpuriousFailure' /\ \E h : Linked(h)'
  BY <1>1, <1>2, LinkProverEnds DEF LinkInv
<1> QED
  BY <1>3 DEF LinkInv

\* A callback fails because the verifier is gone.
LEMMA LinkError ==
    ASSUME LinkInv, popen, prover.todo # <<>>, ~vopen, ProverError, verifier' = verifier, vopen' = vopen,
           mixed' = mixed, round' = round, fault' = fault
    PROVE  ~mixed' /\ NoSpuriousFailure' /\ \E g : Linked(g)'
<1>1. PICK g : Linked(g)
  BY DEF LinkInv
<1>2. verifier.state = "EXITED" /\ fault
  BY <1>1 DEF Linked, LinkInv, NoSpuriousFailure
<1>3. prover \in Provers
  BY DEF LinkInv, OwnInv, PTypes
<1>4. CASE prover.stage = "reading"
  <2>1. popen' = popen /\ prover'.stage = "psk" /\ prover'.todo = <<>>
    BY <1>3, <1>4 DEF ProverError, Provers
  <2>2. AllSend(<<>>)
    BY DEF AllSend
  <2>3. Lost(prover') /\ prover'.stage \in InRound
    BY <2>1, <2>2 DEF Lost, InRound
  <2>4. NoSpuriousFailure' /\ \E h : Linked(h)'
    BY <1>1, <1>4, <2>1, <2>3, LinkProverGoes DEF LinkInv
  <2> QED
    BY <2>4 DEF LinkInv
<1>5. CASE prover.stage # "reading"
  <2>1. EndRound(FALSE)
    BY <1>5 DEF ProverError
  <2> QED
    BY <1>2, <2>1, LinkEndRound
<1> QED
  BY <1>4, <1>5

\* The prover's script runs on.
LEMMA NextOfProver ==
    ASSUME NEW p, p \in Provers, p.todo # <<>>, NEW q, q = [p EXCEPT !.todo = Tail(p.todo)]
    PROVE  /\ q \in Provers /\ q.todo = Tail(p.todo) /\ q.stage = p.stage /\ q.session = p.session /\ q.offer = p.offer
           /\ q.resuming = p.resuming /\ q.reused = p.reused /\ q.psk_circuit = p.psk_circuit
           /\ q.ticket = p.ticket /\ q.recs = p.recs /\ q.idx = p.idx
           /\ Stray(q) = Stray(p) /\ Rest(q) = Rest(p) /\ \A f : Says(q, f) = Says(p, f)
<1>1. p.todo \in Scripts /\ Tail(p.todo) \in Scripts
  BY ScriptTail DEF Provers
<1>2. /\ q \in Provers /\ q.todo = Tail(p.todo) /\ q.stage = p.stage /\ q.session = p.session /\ q.offer = p.offer
      /\ q.resuming = p.resuming /\ q.reused = p.reused /\ q.psk_circuit = p.psk_circuit
      /\ q.ticket = p.ticket /\ q.recs = p.recs /\ q.idx = p.idx
  BY <1>1 DEF Provers
<1>3. Stray(q) = Stray(p)
  BY <1>2 DEF Stray
<1>4. Rest(q) = Rest(p)
  BY <1>2 DEF Rest, derive_handshake_keys
<1>5. \A f : Says(q, f) = Says(p, f)
  BY <1>2 DEF Says, Honest
<1> QED
  BY <1>2, <1>3, <1>4, <1>5

\* Its next step is one of the conversation.
LEMMA SpeaksHead ==
    ASSUME NEW p, NEW f, NEW x, NEW y, NEW P, NEW T, NEW V, Speaks(p, f, x, y, P, T, V), p.todo # <<>>,
           Head(p.todo).op = "send" \/ y # <<>>
    PROVE  P # <<>> /\ Head(P) = Head(p.todo) /\ Tail(p.todo) = Tail(P) \o T /\ Tail(P) \in Scripts
<1>1. P \in Scripts /\ T \in Scripts /\ p.todo = P \o T /\ Parts(p, P, T) /\ Matches(Says(p, f), P, V, x, y) /\ p \in Provers
  BY DEF Speaks, Parts
<1>2. P # <<>>
  <2> SUFFICES ASSUME P = <<>> PROVE FALSE
    OBVIOUS
  <2>1. p.todo = T
    BY <1>1, Nil
  <2>2. y = <<>>
    BY <1>1, MatchProverDone
  <2>3. T = <<Recv({"HS_RECV"})>> \o Rest(p)
    BY <1>1, <2>1 DEF Parts
  <2>4. <<Recv({"HS_RECV"})>> \in Scripts /\ Rest(p) \in Scripts
    BY <1>1, RestTypes
  <2>5. Head(T) = Recv({"HS_RECV"})
    BY <2>3, <2>4, CatHead
  <2> QED
    BY <2>1, <2>2, <2>5 DEF Recv
<1> QED
  BY <1>1, <1>2, CatHead

\* The prover p has done an instruction of the part P and is now q.
Spoken(p, f, x, y, P, T, V, q, x2, y2) ==
    /\ Speaks(p, f, x, y, P, T, V) /\ P # <<>>
    /\ Tail(p.todo) = Tail(P) \o T /\ Tail(P) \in Scripts /\ p.todo # <<>>
    /\ q = [p EXCEPT !.todo = Tail(p.todo)]
    /\ Matches(Says(p, f), Tail(P), V, x2, y2)

\* It has come to the end of the key shares, and the verifier may enter the handshake.
AtHandshake(p, f, T, V, q, x2, y2) ==
    /\ p.stage = "finished" /\ ~Stray(p) /\ T = Rest(p)
    /\ Matches(Says(q, f), <<>>, V, x2, y2)
    /\ \A e : e.resumed_handshake = p.reused /\ (p.reused => e.psk_shares = p.offer)
                 /\ Handshake(e) \in Scripts =>
          Speaks(q, f, x2, y2, Rest(q), <<>>, V \o Handshake(e))

\* After that the conversation goes on, or the verifier is about to go on with
\* the rest of the handshake.
LEMMA SpeaksOn ==
    ASSUME NEW p, NEW f, NEW x, NEW y, NEW P, NEW T, NEW V, NEW q, NEW x2, NEW y2,
           Spoken(p, f, x, y, P, T, V, q, x2, y2)
    PROVE  Speaks(q, f, x2, y2, Tail(P), T, V)
           \/ (Tail(P) = <<>> /\ AtHandshake(p, f, T, V, q, x2, y2))
<1>0. /\ Speaks(p, f, x, y, P, T, V) /\ P # <<>>
      /\ Tail(p.todo) = Tail(P) \o T /\ Tail(P) \in Scripts /\ p.todo # <<>>
      /\ q = [p EXCEPT !.todo = Tail(p.todo)]
      /\ Matches(Says(p, f), Tail(P), V, x2, y2)
  BY DEF Spoken
<1>1. /\ p \in Provers /\ P \in Scripts /\ T \in Scripts /\ V \in Scripts /\ Parts(p, P, T)
      /\ p.stage = "stop" => AllSend(p.todo)
      /\ Stray(p) => f /\ p.stage \in {"server_hello", "finished"}
      /\ p.stage = "submit" \/ p.stage = "open" => true_surf
  BY <1>0 DEF Speaks
<1>2. /\ q \in Provers /\ q.todo = Tail(p.todo) /\ q.stage = p.stage /\ q.offer = p.offer
      /\ q.reused = p.reused
      /\ Stray(q) = Stray(p) /\ Rest(q) = Rest(p) /\ Says(q, f) = Says(p, f)
  BY <1>0, <1>1, NextOfProver
<1>3. /\ q.stage = "stop" => AllSend(q.todo)
      /\ Stray(q) => f /\ q.stage \in {"server_hello", "finished"}
      /\ q.stage = "submit" \/ q.stage = "open" => true_surf
      /\ Matches(Says(q, f), Tail(P), V, x2, y2)
  <2>1. p.stage = "stop" => AllSend(Tail(p.todo))
    BY <1>0, <1>1, AllSendTail DEF Provers
  <2> QED
    BY <1>0, <1>1, <1>2, <2>1
<1>4. CASE ~(p.stage = "finished" /\ ~Stray(p) /\ T = Rest(p) /\ Tail(P) = <<>>)
  <2>1. Parts(q, Tail(P), T)
    BY <1>0, <1>1, <1>2, <1>4 DEF Parts
  <2> QED
    BY <1>0, <1>1, <1>2, <1>3, <2>1 DEF Speaks
<1>5. CASE p.stage = "finished" /\ ~Stray(p) /\ T = Rest(p) /\ Tail(P) = <<>>
  <2>1. Matches(Says(q, f), <<>>, V, x2, y2)
    BY <1>3, <1>5
  <2>2. Rest(q) \in Scripts /\ <<>> \in Scripts
    BY <1>2, RestTypes, Nil
  <2>3. q.todo = Rest(q) \o <<>>
    BY <1>0, <1>2, <1>5, <2>2, Nil
  <2>4. Parts(q, Rest(q), <<>>)
    BY <1>2, <1>5, <2>3 DEF Parts
  <2>5. ASSUME NEW e, e.resumed_handshake = p.reused, p.reused => e.psk_shares = p.offer, Handshake(e) \in Scripts
        PROVE  Speaks(q, f, x2, y2, Rest(q), <<>>, V \o Handshake(e))
    <3>1. q.reused \in BOOLEAN /\ q.offer \in Int /\ q.stage \notin Hello
      BY <1>2, <1>5, RoundPsks DEF Provers, Hello
    <3>2. Dual(Says(q, f), Rest(q), Handshake(e))
      BY <1>2, <2>5, <3>1, TalkRest
    <3>3. Matches(Says(q, f), <<>> \o Rest(q), V \o Handshake(e), x2, y2)
      BY <2>1, <3>2, MatchExtend
    <3>4. Matches(Says(q, f), Rest(q), V \o Handshake(e), x2, y2) /\ V \o Handshake(e) \in Scripts
      BY <1>1, <2>2, <2>5, <3>3, Nil, Cat
    <3> QED
      BY <1>2, <1>3, <1>5, <2>2, <2>4, <3>4 DEF Speaks
  <2> QED
    BY <1>5, <2>1, <2>5 DEF AtHandshake
<1> QED
  BY <1>4, <1>5

\* The verifier does not look at the prover's script.
LEMMA MeetsTodo ==
    ASSUME NEW p, NEW q, NEW v, NEW f, NEW po, NEW r, NEW P, NEW P2, NEW T, NEW U, NEW a, NEW ph,
           Meets(p, v, f, po, r, P, T, U, a, ph), ph # "C",
           q.stage = p.stage, q.offer = p.offer, q.resuming = p.resuming, q.reused = p.reused,
           q.psk_circuit = p.psk_circuit, q.ticket = p.ticket, q.idx = p.idx
    PROVE  Meets(q, v, f, po, r, P2, T, U, a, ph)
<1>1. Stray(q) = Stray(p)
  BY DEF Stray
<1>2. Futures(q, v) = Futures(p, v) /\ \A e : Point(q, T, e, ph) = Point(p, T, e, ph)
  BY <1>1 DEF Futures, Point
<1>3. Agrees(q, v, T, ph, v.todo, U)
  BY <1>2 DEF Meets, Agrees
<1>4. Phase(q, v, P2, U, a, ph)
  BY DEF Meets, Phase
<1>5. Walk(q, v, T)
  BY <1>1 DEF Meets, Walk
<1>6. Latches(q, v, a, f)
  BY DEF Meets, Latches
<1>7. Shares(q, v, po, r, ph)
  BY DEF Meets, Shares
<1> QED
  BY <1>3, <1>4, <1>5, <1>6, <1>7 DEF Meets

LEMMA HandshakeTypes ==
    ASSUME NEW e, e.psk_shares \in Int
    PROVE  Handshake(e) \in Scripts
<1>1. /\ do_ectf \o finish_ectf \in Scripts /\ do_ks(e) \o write_ks_done \in Scripts
      /\ do_cert_wait(e) \o write_cert_recv \in Scripts
  BY HandlerTypes, ChoiceTypes, Cat
<1>2. (do_ectf \o finish_ectf) \o (do_ks(e) \o write_ks_done) \in Scripts
  BY <1>1, Cat
<1> QED
  BY <1>1, <1>2, Cat DEF Handshake

LEMMA RestNotEmpty ==
    ASSUME NEW p \in Provers
    PROVE  Rest(p) # <<>>
<1>1. p.offer \in Int /\ p.reused \in BOOLEAN
  BY RoundPsks DEF Provers
<1>2. PICK s : s = derive_handshake_secret(p.reused)
  OBVIOUS
<1>3. PICK t : t = derive_handshake_keys(p, p.reused)
  OBVIOUS
<1>4. PICK u : u = (IF p.reused THEN combine_handshake_secret_shares ELSE commit_to_server_certificate)
  OBVIOUS
<1>5. s \in Scripts /\ t \in Scripts /\ u \in Scripts
  BY <1>1, <1>2, <1>3, <1>4, CallbackChoices
<1>6. u # <<>>
  BY <1>4 DEF combine_handshake_secret_shares, commit_to_server_certificate
<1>7. Rest(p) = s \o t \o u
  BY <1>2, <1>3, <1>4 DEF Rest
<1>8. s \o t \in Scripts
  BY <1>5, Cat
<1> QED
  BY <1>5, <1>6, <1>7, <1>8, CatEmpty

\* HS_RECV has come: the verifier is past the point where it looks for unread
\* data, and goes on with the rest of the handshake.
LEMMA PastHsRecv ==
    ASSUME NEW p \in Provers, NEW v \in Verifiers, NEW T, NEW U \in Scripts, Agrees(p, v, T, "A", v.todo, U),
           v.state \in HsStates, Walk(p, v, T), p.stage = "finished", ~Stray(p), T # <<>>, AllRecv(U)
    PROVE  /\ v.state \notin EarlyStates \cup {"READING_SKS", "FINISHING_TPH"}
           /\ v.state = "WRITING_HS_RECV" => v.todo = <<>>
<1>1. PICK e : e \in Futures(p, v)
  BY FutureTypes
<1>2. e.psk_shares \in Int
  BY <1>1, FutureTypes
<1>3. v.todo \o After(v.state, e) = U \o From_ECTF_WAIT(e) /\ v.todo \in Scripts
  BY <1>1 DEF Agrees, Rem, Point, Verifiers
<1>4. PICK t : t = v.todo
  OBVIOUS
<1>5. PICK z : z = From_ECTF_WAIT(e)
  OBVIOUS
<1>6. z \in Scripts /\ t \in Scripts /\ t \o After(v.state, e) = U \o z
  BY <1>2, <1>3, <1>4, <1>5, FromTypes
<1>7. Send("HS_RECV") \in Instrs /\ Send("HS_RECV").op = "send" /\ write_hs_recv = <<Send("HS_RECV")>>
      /\ write_hs_recv \in Scripts
  BY HeaderTypes, HandlerTypes DEF Words, write_hs_recv
<1>8. v.state \notin EarlyStates \cup {"READING_SKS", "FINISHING_TPH"}
  <2> SUFFICES ASSUME v.state \in EarlyStates \cup {"READING_SKS", "FINISHING_TPH"} PROVE FALSE
    OBVIOUS
  <2>1. EndsIn(After(v.state, e), From_WRITING_HS_RECV(e))
    BY <1>2, AfterHsRecv
  <2>2. PICK u \in Scripts : After(v.state, e) = u \o (write_hs_recv \o z)
    BY <1>5, <2>1 DEF EndsIn, From_WRITING_HS_RECV
  <2>3. u \o (write_hs_recv \o z) = (u \o write_hs_recv) \o z
    BY <1>6, <1>7, <2>2, Assoc3
  <2>4. u \o write_hs_recv \in Scripts
    BY <1>7, <2>2, Cat
  <2>5. t \o ((u \o write_hs_recv) \o z) = (t \o (u \o write_hs_recv)) \o z
    BY <1>6, <2>4, Assoc3
  <2>6. (t \o (u \o write_hs_recv)) \o z = U \o z
    BY <1>6, <2>2, <2>3, <2>5
  <2>7. t \o (u \o write_hs_recv) \in Scripts
    BY <1>6, <2>4, Cat
  <2>8. t \o (u \o write_hs_recv) = U
    BY <1>6, <2>6, <2>7, CancelRight
  <2>9. AllRecv(t \o (u \o write_hs_recv))
    BY <2>8
  <2>10. AllRecv(u \o write_hs_recv)
    BY <1>6, <2>4, <2>9, AllRecvCat
  <2>11. AllRecv(u \o <<Send("HS_RECV")>>)
    BY <1>7, <2>10
  <2> QED
    BY <1>6, <1>7, <2>2, <2>11, SendIsNotRecv
<1>9. ASSUME v.state = "WRITING_HS_RECV" PROVE v.todo = <<>>
  <2>1. After(v.state, e) = z
    BY <1>5, <1>9 DEF After
  <2>2. t = U
    BY <1>6, <2>1, CancelRight
  <2> SUFFICES ASSUME v.todo = write_hs_recv PROVE FALSE
    BY <1>9 DEF Walk
  <2>3. AllRecv(<<Send("HS_RECV")>>)
    BY <1>4, <1>7, <2>2
  <2>4. <<>> \in Scripts /\ <<Send("HS_RECV")>> \o <<>> = <<Send("HS_RECV")>>
    BY <1>7, Nil
  <2>5. ~AllRecv(<<Send("HS_RECV")>> \o <<>>)
    BY <1>7, <2>4, SendIsNotRecv
  <2> QED
    BY <2>3, <2>4, <2>5
<1> QED
  BY <1>8, <1>9

LEMMA MeetsSettle ==
    ASSUME NEW p \in Provers, NEW q, NEW v, NEW f, NEW po, NEW r, NEW P, NEW P2, NEW T, NEW U \in Scripts, NEW a, NEW ph,
           Meets(p, v, f, po, r, P, T, U, a, ph), p.stage = "finished", ~Stray(p), T = Rest(p), AllRecv(U),
           p.todo # <<>>, q = [p EXCEPT !.todo = Tail(p.todo)],
           NEW e, e = Expect(p.resuming, p.reused, v.psk_shares)
    PROVE  Meets(q, v, f, po, r, P2, <<>>, U \o Handshake(e), a, ph)
<1>q. /\ q.stage = p.stage /\ q.offer = p.offer /\ q.resuming = p.resuming /\ q.reused = p.reused
      /\ q.psk_circuit = p.psk_circuit /\ q.ticket = p.ticket /\ q.idx = p.idx
      /\ Stray(q) = Stray(p)
  BY NextOfProver
<1>1. v \in Verifiers /\ Phase(p, v, P, U, a, ph) /\ Walk(p, v, T) /\ Latches(p, v, a, f)
      /\ Shares(p, v, po, r, ph) /\ Agrees(p, v, T, ph, v.todo, U)
  BY DEF Meets
<1>2. ph = "A" /\ v.state \in HsStates
  BY <1>1 DEF Phase, HsStages
<1>3. T # <<>>
  BY RestNotEmpty
<1>4. e.resumed_handshake = p.reused /\ e.psk_shares = v.psk_shares /\ e.psk_shares \in Int
  BY <1>1, RoundPsks DEF Expect, Verifiers
<1>6. Handshake(e) \in Scripts
  BY <1>4, HandshakeTypes
<1>8. Agrees(q, v, <<>>, ph, v.todo, U \o Handshake(e))
  <2> SUFFICES ASSUME NEW e2 \in Futures(q, v)
               PROVE  v.todo \o Rem(v, e2, ph) = (U \o Handshake(e)) \o Point(q, <<>>, e2, ph)
    BY DEF Agrees
  <2>1. e2 \in Futures(p, v)
    BY <1>q DEF Futures
  <2>2. e2 = e
    BY <1>1, <2>1, FutureTypes DEF Hello
  <2>3. v.todo \o Rem(v, e, ph) = U \o Point(p, T, e, ph)
    BY <1>1, <2>1, <2>2 DEF Agrees
  <2>4. Point(p, T, e, ph) = From_ECTF_WAIT(e) /\ Point(q, <<>>, e, ph) = From_DERIVE_TS
    BY <1>3, <1>q DEF Point
  <2>5. From_ECTF_WAIT(e) = Handshake(e) \o From_DERIVE_TS /\ From_DERIVE_TS \in Scripts
    BY <1>4, Points, FromTypes
  <2>6. (U \o Handshake(e)) \o From_DERIVE_TS = U \o (Handshake(e) \o From_DERIVE_TS)
    BY <1>6, <2>5, Assoc3
  <2> QED
    BY <2>2, <2>3, <2>4, <2>5, <2>6, Zenon
<1>9. Phase(q, v, P2, U \o Handshake(e), a, ph)
  BY <1>q, <1>1, <1>2 DEF Phase
<1>10. /\ v.state \notin EarlyStates \cup {"READING_SKS", "FINISHING_TPH"}
       /\ v.state = "WRITING_HS_RECV" => v.todo = <<>>
  BY <1>1, <1>2, <1>3, PastHsRecv
<1>11. Walk(q, v, <<>>)
  BY <1>1, <1>q, <1>10 DEF Walk
<1>12. Latches(q, v, a, f)
  BY <1>q, <1>1 DEF Latches
<1>13. Shares(q, v, po, r, ph)
  BY <1>q, <1>1 DEF Shares
<1> QED
  BY <1>1, <1>2, <1>8, <1>9, <1>11, <1>12, <1>13 DEF Meets

\* With its next instruction the prover takes x and y to x2 and y2.
Moves(p, x, y, x2, y2) ==
    \/ Head(p.todo).op = "send" /\ x2 = Append(x, Message(Head(p.todo))) /\ y2 = y
    \/ Head(p.todo).op # "send" /\ y # <<>> /\ x2 = x /\ y2 = Tail(y)

LEMMA SpeaksMove ==
    ASSUME NEW p, NEW f, NEW x, NEW y, NEW P, NEW T, NEW V, Speaks(p, f, x, y, P, T, V), p.todo # <<>>,
           NEW x2, NEW y2, Moves(p, x, y, x2, y2)
    PROVE  /\ P # <<>> /\ Tail(p.todo) = Tail(P) \o T /\ Tail(P) \in Scripts
           /\ Matches(Says(p, f), Tail(P), V, x2, y2)
           /\ Head(p.todo).op # "send" => Fit(Head(y), Head(p.todo))
<1>1. P # <<>> /\ Head(P) = Head(p.todo) /\ Tail(p.todo) = Tail(P) \o T /\ Tail(P) \in Scripts
  BY SpeaksHead DEF Moves
<1>2. Matches(Says(p, f), P, V, x, y)
  BY DEF Speaks
<1>3. CASE Head(p.todo).op = "send"
  BY <1>1, <1>2, <1>3, MatchProverSend DEF Moves
<1>4. CASE Head(p.todo).op # "send"
  BY <1>1, <1>2, <1>4, MatchProverRecv DEF Moves
<1> QED
  BY <1>1, <1>3, <1>4

LEMMA HeardMove ==
    ASSUME NEW p, NEW f, NEW x, NEW y, Heard(p, f, x, y), p.todo # <<>>,
           NEW x2, NEW y2, Moves(p, x, y, x2, y2), NEW q, q = [p EXCEPT !.todo = Tail(p.todo)]
    PROVE  Heard(q, f, x2, y2) /\ (Head(p.todo).op # "send" => Fit(Head(y), Head(p.todo)))
<1>1. PICK P, T, V : Speaks(p, f, x, y, P, T, V)
  BY DEF Heard
<1>2. /\ P # <<>> /\ Tail(p.todo) = Tail(P) \o T /\ Tail(P) \in Scripts
      /\ Matches(Says(p, f), Tail(P), V, x2, y2)
      /\ Head(p.todo).op # "send" => Fit(Head(y), Head(p.todo))
  BY <1>1, SpeaksMove
<1>3. PICK e : e = Expect(p.resuming, p.reused, p.offer)
  OBVIOUS
<1>4. p \in Provers /\ e.resumed_handshake = p.reused /\ e.psk_shares = p.offer /\ p.offer \in Int
  BY <1>1, <1>3, RoundPsks DEF Speaks, Expect, Provers
<1>5. Handshake(e) \in Scripts
  BY <1>4, HandshakeTypes
<1>6. \/ Speaks(q, f, x2, y2, Tail(P), T, V)
      \/ Speaks(q, f, x2, y2, Rest(q), <<>>, V \o Handshake(e))
  <2>1. \/ Speaks(q, f, x2, y2, Tail(P), T, V)
        \/ \A e2 : e2.resumed_handshake = p.reused /\ (p.reused => e2.psk_shares = p.offer)
                      /\ Handshake(e2) \in Scripts =>
                    Speaks(q, f, x2, y2, Rest(q), <<>>, V \o Handshake(e2))
    <3>1. Spoken(p, f, x, y, P, T, V, q, x2, y2)
      BY <1>1, <1>2 DEF Spoken
    <3>2. Speaks(q, f, x2, y2, Tail(P), T, V) \/ AtHandshake(p, f, T, V, q, x2, y2)
      BY ONLY <3>1, SpeaksOn
    <3> QED
      BY ONLY <3>2 DEF AtHandshake
  <2> QED
    BY <1>4, <1>5, <2>1
<1> QED
  BY <1>2, <1>6 DEF Heard

LEMMA TogetherMove ==
    ASSUME NEW p, NEW v, NEW f, NEW po, NEW r, NEW x, NEW y, Together(p, v, f, po, r, x, y), p.todo # <<>>,
           NEW x2, NEW y2, Moves(p, x, y, x2, y2), NEW q, q = [p EXCEPT !.todo = Tail(p.todo)],
           p.reused => p.offer # NoPsk
    PROVE  Together(q, v, f, po, r, x2, y2) /\ (Head(p.todo).op # "send" => Fit(Head(y), Head(p.todo)))
<1>1. PICK P, T, U, a, b, ph : Talk(p, f, x, y, P, T, U, a, b) /\ Meets(p, v, f, po, r, P, T, U, a, ph)
  BY DEF Together
<1>2. p \in Provers /\ U \in Scripts /\ a \in Ops /\ b \in Ops /\ Pending(p, a, b) /\ Pend(a, b) \in Scripts
      /\ Parts(p, P, T) /\ P \in Scripts
  BY <1>1, TalkTypes
<1>3. PICK V : V = U \o Pend(a, b)
  OBVIOUS
<1>4. Speaks(p, f, x, y, P, T, V)
  BY <1>1, <1>3 DEF Talk
<1>5. /\ P # <<>> /\ Tail(p.todo) = Tail(P) \o T /\ Tail(P) \in Scripts
      /\ Matches(Says(p, f), Tail(P), V, x2, y2)
      /\ Head(p.todo).op # "send" => Fit(Head(y), Head(p.todo))
  BY <1>4, SpeaksMove
<1>6. /\ q \in Provers /\ q.todo = Tail(p.todo) /\ q.stage = p.stage /\ q.offer = p.offer
      /\ q.resuming = p.resuming /\ q.reused = p.reused /\ q.psk_circuit = p.psk_circuit
      /\ q.ticket = p.ticket /\ q.idx = p.idx
      /\ Stray(q) = Stray(p) /\ Rest(q) = Rest(p)
  BY <1>2, NextOfProver
<1>7. Pending(q, a, b)
  BY <1>2, <1>6 DEF Pending
<1>8. ph # "C"
  BY <1>1, <1>5 DEF Meets, Phase
<1>9. CASE Speaks(q, f, x2, y2, Tail(P), T, V)
  <2>1. Talk(q, f, x2, y2, Tail(P), T, U, a, b)
    BY <1>2, <1>3, <1>7, <1>9 DEF Talk
  <2>2. Meets(q, v, f, po, r, Tail(P), T, U, a, ph)
    BY <1>1, <1>6, <1>8, MeetsTodo
  <2> QED
    BY <1>5, <2>1, <2>2 DEF Together
<1>10. CASE ~Speaks(q, f, x2, y2, Tail(P), T, V)
  <2>1. /\ p.stage = "finished" /\ ~Stray(p) /\ T = Rest(p)
        /\ Matches(Says(q, f), <<>>, V, x2, y2)
        /\ \A e : e.resumed_handshake = p.reused /\ (p.reused => e.psk_shares = p.offer)
                     /\ Handshake(e) \in Scripts =>
              Speaks(q, f, x2, y2, Rest(q), <<>>, V \o Handshake(e))
    <3>1. Spoken(p, f, x, y, P, T, V, q, x2, y2)
      BY <1>4, <1>5 DEF Spoken
    <3>2. AtHandshake(p, f, T, V, q, x2, y2)
      BY ONLY <1>10, <3>1, SpeaksOn
    <3> QED
      BY ONLY <3>2 DEF AtHandshake
  <2>2. a = "none" /\ b = "none"
    BY <1>2, <2>1 DEF Pending
  <2>3. Pend(a, b) = <<>>
    BY <1>2, <2>2, PendTypes
  <2>4. V = U
    BY <1>2, <1>3, <2>3, Nil
  <2>5. AllRecv(U)
    BY <2>1, <2>4, MatchProverDone DEF AllRecv
  <2>6. PICK e : e = Expect(p.resuming, p.reused, v.psk_shares)
    OBVIOUS
  <2>a. p.stage = "finished" /\ ~Stray(p) /\ T = Rest(p) /\ (p.reused => p.offer # NoPsk)
    BY <2>1
  <2>b. Meets(p, v, f, po, r, P, T, U, a, ph)
    BY <1>1
  <2>7. /\ Meets(q, v, f, po, r, Rest(q), <<>>, U \o Handshake(e), a, ph) /\ Handshake(e) \in Scripts
        /\ e.resumed_handshake = p.reused /\ (p.reused => e.psk_shares = p.offer)
    <3>1. Meets(q, v, f, po, r, Rest(q), <<>>, U \o Handshake(e), a, ph)
      BY <1>2, <2>a, <2>b, <2>5, <2>6, MeetsSettle
    <3>2. v \in Verifiers /\ Walk(p, v, T)
      BY <2>b DEF Meets
    <3>3. e.resumed_handshake = p.reused /\ e.psk_shares = v.psk_shares /\ e.psk_shares \in Int
      BY <2>6, <3>2, RoundPsks DEF Expect, Verifiers
    <3>4. p.reused => e.psk_shares = p.offer
      BY <2>a, <3>2, <3>3 DEF Walk, HsStages
    <3>5. Handshake(e) \in Scripts
      BY <3>3, HandshakeTypes
    <3> QED
      BY <3>1, <3>3, <3>4, <3>5
  <2>8. Speaks(q, f, x2, y2, Rest(q), <<>>, U \o Handshake(e))
    BY <2>1, <2>4, <2>7
  <2>9. U \o Handshake(e) \in Scripts
    BY <1>2, <2>7, Cat
  <2>10. Speaks(q, f, x2, y2, Rest(q), <<>>, (U \o Handshake(e)) \o Pend(a, b))
    BY <2>3, <2>8, <2>9, Nil
  <2>11. Talk(q, f, x2, y2, Rest(q), <<>>, U \o Handshake(e), a, b)
    BY <1>2, <1>7, <2>9, <2>10 DEF Talk
  <2> QED
    BY <1>5, <2>7, <2>11 DEF Together
<1> QED
  BY <1>9, <1>10

LEMMA LostMove ==
    ASSUME NEW p \in Provers, Lost(p), p.todo # <<>>, NEW q, q = [p EXCEPT !.todo = Tail(p.todo)]
    PROVE  Lost(q) /\ Head(p.todo).op = "send"
<1>1. q.todo = Tail(p.todo) /\ q.stage = p.stage
  BY NextOfProver
<1>2. p.todo \in Scripts
  BY DEF Provers
<1>3. Head(p.todo).op = "send" /\ AllSend(Tail(p.todo))
  BY <1>2, AllSendTail DEF Lost
<1> QED
  BY <1>1, <1>3 DEF Lost

\* The prover writes.
LEMMA ProverOpen ==
    ASSUME OwnInv, prover.todo # <<>>
    PROVE  popen /\ prover.stage \in InRound /\ prover \in Provers /\ (prover.reused => prover.offer # NoPsk)
  BY DEF OwnInv, Own, OwnStage, OwnTicket, PTypes

LEMMA LinkProverMoves ==
    ASSUME LinkInv, prover.todo # <<>>, prover' = [prover EXCEPT !.todo = Tail(prover.todo)], popen' = popen,
           verifier' = verifier, vopen' = vopen, round' = round, fault' = fault, Moves(prover, p2v, v2p, p2v', v2p')
    PROVE  NoSpuriousFailure' /\ \E g : Linked(g)'
<1>1. popen /\ prover.stage \in InRound /\ prover \in Provers /\ (prover.reused => prover.offer # NoPsk)
  BY ProverOpen DEF LinkInv
<1>2. PICK g : Linked(g)
  BY DEF LinkInv
<1>3. g = prover
  BY <1>1, <1>2 DEF Linked
<1>4. prover'.stage \in InRound
  BY <1>1, NextOfProver
<1>5. ASSUME vopen PROVE Together(prover', verifier, fault', popen, round, p2v', v2p')
  <2>1. Together(prover, verifier, fault, popen, round, p2v, v2p)
    BY <1>2, <1>3, <1>5 DEF Linked
  <2> QED
    BY <1>1, <2>1, TogetherMove
<1>6. ~vopen => verifier.state = "EXITED" /\ (Lost(prover) \/ Heard(prover, fault, p2v, v2p))
  BY <1>1, <1>2, <1>3 DEF Linked
<1>7. ASSUME ~vopen PROVE Lost(prover') \/ Heard(prover', fault', p2v', v2p')
  <2>1. CASE Lost(prover)
    BY <1>1, <2>1, LostMove
  <2>2. CASE Heard(prover, fault, p2v, v2p)
    BY <2>2, HeardMove
  <2> QED
    BY <1>6, <1>7, <2>1, <2>2
<1> QED
  BY <1>1, <1>2, <1>4, <1>5, <1>7, LinkProverGoes DEF LinkInv

LEMMA LinkProverSend ==
    ASSUME LinkInv, ProverSend
    PROVE  ~mixed' /\ NoSpuriousFailure' /\ \E g : Linked(g)'
<1>1. /\ prover.todo # <<>> /\ Head(prover.todo).op = "send" /\ ~mixed' /\ mixed' = mixed /\ verifier' = verifier
      /\ v2p' = v2p /\ vopen' = vopen /\ round' = round /\ fault' = fault
  BY DEF LinkInv, ProverSend, Op
<1>2. popen
  BY <1>1, ProverOpen DEF LinkInv
<1>3. CASE /\ prover' = [prover EXCEPT !.todo = Tail(@)]
           /\ p2v' = Append(p2v, Message(Head(prover.todo))) /\ popen' = popen
  <2>1. Moves(prover, p2v, v2p, p2v', v2p')
    BY <1>1, <1>3 DEF Moves
  <2> QED
    BY <1>1, <1>3, <2>1, LinkProverMoves
<1>4. CASE ~vopen /\ ProverError
  BY <1>1, <1>2, <1>4, LinkError
<1> QED
  BY <1>3, <1>4 DEF ProverSend

\* The prover reads, and what it reads is what it waits for.
LEMMA LinkProverRecv ==
    ASSUME LinkInv, ProverRecv
    PROVE  ~mixed' /\ NoSpuriousFailure' /\ \E g : Linked(g)'
<1>1. /\ prover.todo # <<>> /\ Head(prover.todo).op = "recv" /\ ~mixed /\ verifier' = verifier
      /\ p2v' = p2v /\ vopen' = vopen /\ round' = round /\ fault' = fault
  BY DEF LinkInv, ProverRecv, Op
<1>2. popen /\ prover \in Provers
  BY <1>1, ProverOpen DEF LinkInv
<1>3. CASE v2p = <<>>
  <2>1. ~vopen /\ ProverError /\ mixed' = mixed
    BY <1>3 DEF ProverRecv
  <2> QED
    BY <1>1, <1>2, <2>1, LinkError
<1>4. CASE v2p # <<>>
  <2>1. v2p' = Tail(v2p)
    BY <1>4 DEF ProverRecv
  <2>2. Moves(prover, p2v, v2p, p2v', v2p')
    BY <1>1, <1>4, <2>1 DEF Moves
  <2>3. Fit(Head(v2p), Head(prover.todo))
    <3>1. PICK g : Linked(g)
      BY DEF LinkInv
    <3>2. g = prover
      BY <1>2, <3>1 DEF Linked
    <3>3. PICK q : q = [prover EXCEPT !.todo = Tail(prover.todo)]
      OBVIOUS
    <3>4. CASE vopen
      <4>1. Together(prover, verifier, fault, popen, round, p2v, v2p)
        BY <3>1, <3>2, <3>4 DEF Linked
      <4>2. prover.reused => prover.offer # NoPsk
        BY <1>1, ProverOpen DEF LinkInv
      <4> QED
        BY <1>1, <2>2, <3>3, <4>1, <4>2, TogetherMove
    <3>5. CASE ~vopen
      <4>1. Lost(prover) \/ Heard(prover, fault, p2v, v2p)
        BY <1>1, <1>2, <3>1, <3>2, <3>5 DEF Linked
      <4>2. ~Lost(prover)
        BY <1>1, <1>2, <3>3, LostMove
      <4> QED
        BY <1>1, <2>2, <3>3, <4>1, <4>2, HeardMove
    <3> QED
      BY <3>4, <3>5
  <2>4. Head(v2p).m \in Head(prover.todo).m /\ ~Mixes(Head(prover.todo), Head(v2p))
    BY <2>3 DEF Fit
  <2>5. /\ prover' = [prover EXCEPT !.todo = Tail(prover.todo)] /\ popen' = popen
        /\ mixed' = (mixed \/ Mixes(Head(prover.todo), Head(v2p)))
    BY <1>4, <2>4 DEF ProverRecv
  <2> QED
    BY <1>1, <2>2, <2>4, <2>5, LinkProverMoves
<1> QED
  BY <1>3, <1>4

-----------------------------------------------------------------------------
(* The next callback *)

\* From p, which has run its script, the prover goes on as q with the script S,
\* which W and then the headers a and b answer.
Opens(p, f, q, k, S, T, W, a, b) ==
    /\ p.todo = <<>> /\ p.stage # "stop" /\ q \in Provers
    /\ Says(p, f) \subseteq Says(q, k) /\ Dual(Says(q, k), S, W \o Pend(a, b))
    /\ Parts(q, S, T) /\ T \in Scripts /\ W \in Scripts /\ a \in Ops /\ b \in Ops /\ Pending(q, a, b)
    /\ q.stage = "stop" => AllSend(q.todo)
    /\ Stray(q) => k /\ q.stage \in {"server_hello", "finished"}
    /\ q.stage = "submit" \/ q.stage = "open" => true_surf

LEMMA SpeaksNext ==
    ASSUME NEW p, NEW f, NEW x, NEW y, NEW P0, NEW T0, NEW V, Speaks(p, f, x, y, P0, T0, V),
           NEW q, NEW k, NEW S, NEW T, NEW W, NEW a, NEW b, Opens(p, f, q, k, S, T, W, a, b)
    PROVE  Speaks(q, k, x, y, S, T, V \o (W \o Pend(a, b)))
<1>1. /\ P0 = <<>> /\ V \in Scripts
  BY Quiet DEF Opens, Speaks
<1>2. Matches(Says(p, f), <<>>, V, x, y)
  BY <1>1 DEF Speaks
<1>3. Matches(Says(q, k), <<>>, V, x, y)
  BY <1>2, MatchMore DEF Opens
<1>4. Dual(Says(q, k), S, W \o Pend(a, b))
  BY DEF Opens
<1>5. S \in Scripts /\ W \o Pend(a, b) \in Scripts
  BY <1>4, MatchTypes DEF Dual
<1>6. Matches(Says(q, k), <<>> \o S, V \o (W \o Pend(a, b)), x, y)
  BY <1>3, <1>4, MatchExtend
<1>7. Matches(Says(q, k), S, V \o (W \o Pend(a, b)), x, y) /\ V \o (W \o Pend(a, b)) \in Scripts
  BY <1>1, <1>5, <1>6, Nil, Cat
<1> QED
  BY <1>5, <1>7 DEF Speaks, Opens

LEMMA HeardNext ==
    ASSUME NEW p, NEW f, NEW x, NEW y, Heard(p, f, x, y),
           NEW q, NEW k, NEW S, NEW T, NEW W, NEW a, NEW b, Opens(p, f, q, k, S, T, W, a, b)
    PROVE  Heard(q, k, x, y)
<1>1. PICK P0, T0, V : Speaks(p, f, x, y, P0, T0, V)
  BY DEF Heard
<1>2. Speaks(q, k, x, y, S, T, V \o (W \o Pend(a, b)))
  BY <1>1, SpeaksNext
<1> QED
  BY <1>2 DEF Heard

\* The verifier is still to send something for any operation.
LEMMA PendSends ==
    ASSUME NEW p, NEW a \in Ops, NEW b \in Ops, Pending(p, a, b), AllRecv(Pend(a, b)), p.stage # "stop",
           ~(p.stage = "finished" /\ Stray(p))
    PROVE  a = "none" /\ b = "none"
<1> SUFFICES ASSUME a # "none" PROVE FALSE
  BY DEF Pending, PskHeaders
<1>1. OpBody(a) \in Scripts /\ Pend(a, b) = <<Recv({a})>> \o (OpBody(a) \o Pend(b, "none")) /\ Pend(b, "none") \in Scripts
      /\ Pend(b, "none") = VOp(b)
  <2>1. "none" \in Ops
    BY DEF Ops
  <2> QED
    BY <2>1, PendTypes
<1>2. <<Recv({a})>> \in Scripts
  <2>1. a \in OpHeaders
    BY DEF Ops
  <2> QED
    BY <2>1, OpHeaderWords, OneHeader
<1>3. OpBody(a) \o Pend(b, "none") \in Scripts
  BY <1>1, Cat
<1>4. AllRecv(OpBody(a) \o Pend(b, "none"))
  BY <1>1, <1>2, <1>3, AllRecvCat
<1>5. AllRecv(OpBody(a)) /\ AllRecv(VOp(b))
  BY <1>1, <1>4, AllRecvCat
<1>6. ASSUME NEW c \in Words PROVE ~AllRecv(Circuit(c, 0))
  <2>1. Circuit(c, 0)[1].op = "send" /\ Len(Circuit(c, 0)) = 2
    BY DEF Circuit
  <2> QED
    BY <2>1 DEF AllRecv
<1>7. CASE a \in {"AES_ENC", "GCM_TAG", "GCM_VERIFY", "KS_DERIVE"}
  <2>1. /\ Circuit(IF true_surf THEN "vfy_commit" ELSE "vfy", 0) \in {Circuit("vfy_commit", 0), Circuit("vfy", 0)}
    BY Zenon
  <2>2. OpBody(a) \in {Circuit("aes", 0), Circuit("tag", 0), Circuit("vfy_commit", 0), Circuit("vfy", 0), Circuit("ks", 0)}
    BY <1>7, <2>1, OpBodies
  <2>3. {"aes", "tag", "vfy_commit", "vfy", "ks"} \subseteq Words
    BY DEF Words
  <2> QED
    BY <1>5, <1>6, <2>2, <2>3
<1>8. CASE a = "KEY_RELEASE"
  <2>1. OpBody(a) = <<Send("KEY")>>
    BY <1>8, OpBodies
  <2>2. <<Send("KEY")>>[1].op = "send" /\ Len(<<Send("KEY")>>) = 1
    BY DEF Send
  <2> QED
    BY <1>5, <2>1, <2>2 DEF AllRecv
<1>9. CASE a \in PskHeaders
  <2>1. OpBody(a) = Circuit(PskOf(a), 0) \o <<Send("PSK_DONE")>> /\ PskOf(a) \in Words /\ "PSK_DONE" \in Words
    BY <1>9, OpBodies DEF PskOf, Words
  <2>2. Circuit(PskOf(a), 0) \in Scripts /\ <<Send("PSK_DONE")>> \in Scripts
    BY <2>1, CircuitTypes, OneHeader
  <2>3. AllRecv(Circuit(PskOf(a), 0))
    BY <1>5, <2>1, <2>2, AllRecvCat
  <2> QED
    BY <1>6, <2>1, <2>3
<1>10. CASE a = "KEY_COMMIT"
  <2>1. b = "GCM_VERIFY"
    BY <1>10 DEF Pending, PskHeaders
  <2>2. VOp(b) = <<Recv({b})>> \o OpBody(b) /\ b \in OpHeaders
    BY <2>1 DEF VOp, OpHeaders, RecordOps
  <2>3. OpBody(b) \in Scripts /\ <<Recv({b})>> \in Scripts
    BY <2>2, OpBodyTypes, OpHeaderWords, OneHeader
  <2>4. AllRecv(OpBody(b))
    BY <1>5, <2>2, <2>3, AllRecvCat
  <2>5. Circuit(IF true_surf THEN "vfy_commit" ELSE "vfy", 0) \in {Circuit("vfy_commit", 0), Circuit("vfy", 0)}
    BY Zenon
  <2>6. OpBody(b) \in {Circuit("vfy_commit", 0), Circuit("vfy", 0)}
    BY <2>1, <2>5, OpBodies
  <2>7. {"vfy_commit", "vfy"} \subseteq Words
    BY DEF Words
  <2> QED
    BY <1>6, <2>4, <2>6, <2>7
<1> QED
  BY <1>7, <1>8, <1>9, <1>10 DEF Pending, PskHeaders

LEMMA TalkNext ==
    ASSUME NEW p, NEW f, NEW x, NEW y, NEW P0, NEW T0, NEW U, NEW a0, NEW b0, Talk(p, f, x, y, P0, T0, U, a0, b0),
           NEW q, NEW k, NEW S, NEW T, NEW W, NEW a, NEW b, Opens(p, f, q, k, S, T, W, a, b)
    PROVE  /\ Talk(q, k, x, y, S, T, U \o W, a, b) /\ p \in Provers /\ U \in Scripts
           /\ P0 = <<>> /\ T0 = <<>> /\ a0 = "none" /\ b0 = "none" /\ AllRecv(U)
           /\ ~(p.stage = "finished" /\ Stray(p)) /\ (Stray(p) => p.stage \in {"server_hello", "finished"})
<1>1. /\ p \in Provers /\ U \in Scripts /\ a0 \in Ops /\ b0 \in Ops /\ Pend(a0, b0) \in Scripts /\ Pending(p, a0, b0)
  BY TalkTypes
<1>2. PICK V : V = U \o Pend(a0, b0)
  OBVIOUS
<1>3. Speaks(p, f, x, y, P0, T0, V)
  BY <1>2 DEF Talk
<1>4. /\ p.todo = <<>> /\ p.stage # "stop" /\ W \in Scripts /\ a \in Ops /\ b \in Ops /\ Pending(q, a, b)
  BY DEF Opens
<1>5. P0 = <<>> /\ T0 = <<>> /\ AllRecv(V) /\ ~(p.stage = "finished" /\ Stray(p))
  BY ONLY <1>3, <1>4, Quiet
<1>6. AllRecv(U) /\ AllRecv(Pend(a0, b0))
  BY <1>1, <1>2, <1>5, AllRecvCat
<1>7. a0 = "none" /\ b0 = "none"
  BY <1>1, <1>4, <1>5, <1>6, PendSends
<1>8. V = U
  BY <1>1, <1>2, <1>7, PendTypes, Nil
<1>9. Speaks(q, k, x, y, S, T, U \o (W \o Pend(a, b)))
  BY <1>3, <1>8, SpeaksNext
<1>10. U \o (W \o Pend(a, b)) = (U \o W) \o Pend(a, b) /\ U \o W \in Scripts
  BY <1>1, <1>4, PendTypes, Assoc3, Cat
<1>11. Talk(q, k, x, y, S, T, U \o W, a, b)
  BY <1>4, <1>9, <1>10 DEF Talk
<1>12. Stray(p) => p.stage \in {"server_hello", "finished"}
  BY <1>3 DEF Speaks
<1> QED
  BY <1>1, <1>5, <1>6, <1>7, <1>11, <1>12

\* Whatever of its script the verifier has still to run, with W after it that is
\* what the prover needs as q.
Follows(p, f, q, k, v, po, r, S, T, W, a) ==
    \A U \in Scripts : \A ph :
       Meets(p, v, f, po, r, <<>>, <<>>, U, "none", ph) /\ AllRecv(U) => Meets(q, v, k, po, r, S, T, U \o W, a, ph)

LEMMA TogetherNext ==
    ASSUME NEW p, NEW f, NEW v, NEW po, NEW r, NEW x, NEW y, Together(p, v, f, po, r, x, y),
           NEW q, NEW k, NEW S, NEW T, NEW W, NEW a, NEW b, Opens(p, f, q, k, S, T, W, a, b),
           Follows(p, f, q, k, v, po, r, S, T, W, a)
    PROVE  Together(q, v, k, po, r, x, y)
<1>1. PICK P0, T0, U, a0, b0, ph :
         Talk(p, f, x, y, P0, T0, U, a0, b0) /\ Meets(p, v, f, po, r, P0, T0, U, a0, ph)
  BY DEF Together
<1>2. /\ Talk(q, k, x, y, S, T, U \o W, a, b) /\ U \in Scripts
      /\ P0 = <<>> /\ T0 = <<>> /\ a0 = "none" /\ AllRecv(U)
  BY <1>1, TalkNext
<1>3. Meets(q, v, k, po, r, S, T, U \o W, a, ph)
  BY <1>1, <1>2 DEF Follows
<1> QED
  BY <1>2, <1>3 DEF Together

\* The prover goes on with its next callback.
LEMMA LinkOpens ==
    ASSUME LinkInv, popen, popen' = popen, NetUnchanged, fault => fault', prover'.stage \in InRound,
           NEW S, NEW T, NEW W, NEW a, NEW b, Opens(prover, fault, prover', fault', S, T, W, a, b),
           vopen => Follows(prover, fault, prover', fault', verifier, popen, round, S, T, W, a),
           prover.stage = "psk" => Lost(prover')
    PROVE  ~mixed' /\ NoSpuriousFailure' /\ \E g : Linked(g)'
<1>1. PICK g : Linked(g)
  BY DEF LinkInv
<1>2. /\ verifier' = verifier /\ vopen' = vopen /\ round' = round /\ mixed' = mixed /\ p2v' = p2v /\ v2p' = v2p
      /\ ~mixed /\ NoSpuriousFailure
  BY DEF NetUnchanged, LinkInv
<1>3. g = prover /\ prover.todo = <<>> /\ prover.stage # "stop"
  BY <1>1 DEF Linked, Opens
<1>4. vopen => Together(prover', verifier, fault', popen, round, p2v', v2p')
  <2>1. vopen => Together(prover, verifier, fault, popen, round, p2v, v2p)
    BY <1>1, <1>3 DEF Linked
  <2> QED
    BY <1>2, <2>1, TogetherNext
<1>5. ~vopen /\ verifier.state = "EXITED" => Lost(prover') \/ Heard(prover', fault', p2v', v2p')
  <2>1. ~vopen /\ verifier.state = "EXITED" => Lost(prover) \/ Heard(prover, fault, p2v, v2p)
    BY <1>1, <1>3 DEF Linked
  <2>2. Lost(prover) => prover.stage = "psk"
    BY <1>3 DEF Lost
  <2>3. Heard(prover, fault, p2v, v2p) => Heard(prover', fault', p2v, v2p)
    BY HeardNext
  <2> QED
    BY <1>2, <2>1, <2>2, <2>3
<1> QED
  BY <1>1, <1>2, <1>3, <1>4, <1>5, LinkProverGoes

LEMMA AgreesNext ==
    ASSUME NEW p \in Provers, NEW v \in Verifiers, NEW T, NEW ph, NEW t, NEW U \in Scripts, Agrees(p, v, T, ph, t, U),
           NEW q, NEW T2, NEW W \in Scripts, Futures(q, v) \subseteq Futures(p, v),
           \A e \in Futures(q, v) : Point(p, T, e, ph) = W \o Point(q, T2, e, ph)
    PROVE  Agrees(q, v, T2, ph, t, U \o W)
<1> SUFFICES ASSUME NEW e \in Futures(q, v)
             PROVE  t \o Rem(v, e, ph) = (U \o W) \o Point(q, T2, e, ph)
  BY DEF Agrees
<1>1. t \o Rem(v, e, ph) = U \o Point(p, T, e, ph)
  BY DEF Agrees
<1>2. Point(q, T2, e, ph) \in Scripts
  BY FutureTypes, PointTypes
<1>3. (U \o W) \o Point(q, T2, e, ph) = U \o (W \o Point(q, T2, e, ph))
  BY <1>2, Assoc3
<1> QED
  BY <1>1, <1>3

-----------------------------------------------------------------------------
(* After the handshake *)

Later == {"request", "reading", "submit", "open", "replay", "psk"}

LEMMA AgreesStage ==
    ASSUME NEW p \in Provers, NEW q \in Provers, NEW v \in Verifiers, NEW ph, NEW t, NEW U \in Scripts,
           Agrees(p, v, <<>>, ph, t, U), p.stage \notin {"hello", "server_hello", "finished"},
           q.stage \notin {"hello", "server_hello", "finished"}, q.resuming = p.resuming, q.reused = p.reused
    PROVE  Agrees(q, v, <<>>, ph, t, U \o <<>>)
<1>1. Futures(q, v) \subseteq Futures(p, v)
  BY DEF Futures, Hello
<1>2. ASSUME NEW e \in Futures(q, v) PROVE Point(p, <<>>, e, ph) = <<>> \o Point(q, <<>>, e, ph)
  <2>1. Point(q, <<>>, e, ph) \in Scripts
    BY FutureTypes, PointTypes
  <2>2. Point(p, <<>>, e, ph) = IF ph = "C" THEN <<>> ELSE Serve
    BY DEF Point
  <2>3. Point(q, <<>>, e, ph) = IF ph = "C" THEN <<>> ELSE Serve
    BY DEF Point
  <2> QED
    BY <2>1, <2>2, <2>3, Nil
<1>3. <<>> \in Scripts
  BY Nil
<1>4. \A e \in Futures(q, v) : Point(p, <<>>, e, ph) = <<>> \o Point(q, <<>>, e, ph)
  BY <1>2
<1> QED
  BY <1>1, <1>3, <1>4, AgreesNext

\* The verifier stays where it is, in or before one of its loops.
LEMMA MeetsStage ==
    ASSUME NEW p \in Provers, NEW v, NEW f, NEW po, NEW r, NEW U \in Scripts, NEW ph,
           Meets(p, v, f, po, r, <<>>, <<>>, U, "none", ph), p.stage \in Later \cup {"established"}, ~Stray(p),
           NEW q \in Provers, q.stage \in Later, q.offer = p.offer, q.resuming = p.resuming, q.reused = p.reused,
           q.psk_circuit = p.psk_circuit, NEW k, NEW S, NEW a, a \notin PskHeaders \cup {"PSK_SKIP", "STOP"},
           Latches(q, v, a, k)
    PROVE  Meets(q, v, k, po, r, S, <<>>, U \o <<>>, a, ph)
<1>1. /\ v \in Verifiers /\ ph \in {"A", "B", "C"} /\ Agrees(p, v, <<>>, ph, v.todo, U)
      /\ Phase(p, v, <<>>, U, "none", ph) /\ Walk(p, v, <<>>) /\ Shares(p, v, po, r, ph)
  BY DEF Meets
<1>2. ~Stray(q) /\ p.stage \notin Hello /\ p.stage # "stop" /\ q.stage \notin Hello \cup HsStages /\ q.stage # "stop"
      /\ p.stage # "finished"
  BY DEF Stray, Later, Hello, HsStages
<1>3. Agrees(q, v, <<>>, ph, v.todo, U \o <<>>)
  BY <1>1, <1>2, AgreesStage DEF Hello, HsStages
<1>4. Phase(q, v, S, U \o <<>>, a, ph)
  BY <1>1, <1>2 DEF Phase, PskHeaders
<1>5. Walk(q, v, <<>>)
  BY <1>1, <1>2 DEF Walk, Hello, HsStages
<1>6. Shares(q, v, po, r, ph)
  BY <1>1, <1>2 DEF Shares
<1> QED
  BY <1>1, <1>3, <1>4, <1>5, <1>6 DEF Meets

LEMMA NotStray ==
    ASSUME OwnInv, popen, prover.stage \notin Hello, Stray(prover)
    PROVE  prover.stage \in HsStages /\ fault /\ prover.resuming /\ ~prover.reused
BY DEF OwnInv, Own, OwnTicket, Stray, PTypes, Hello

\* The prover goes on after the handshake.
LEMMA LinkStage ==
    ASSUME LinkInv, OwnInv', popen, popen' = popen, NetUnchanged, fault => fault', prover.todo = <<>>,
           prover.stage \in (Later \ {"psk"}) \cup {"established"}, ~Stray(prover), prover'.stage \in Later,
           prover'.offer = prover.offer, prover'.resuming = prover.resuming, prover'.reused = prover.reused,
           prover'.psk_circuit = prover.psk_circuit,
           NEW a \in Ops, NEW b \in Ops, Pending(prover', a, b), Dual(Says(prover', fault'), prover'.todo, Pend(a, b)),
           a \notin PskHeaders \cup {"PSK_SKIP", "STOP"},
           verifier \in Verifiers /\ Latches(prover, verifier, "none", fault) => Latches(prover', verifier, a, fault')
    PROVE  ~mixed' /\ NoSpuriousFailure' /\ \E g : Linked(g)'
<1>1. /\ prover \in Provers /\ prover' \in Provers /\ ~Stray(prover')
      /\ prover.stage # "stop" /\ prover'.stage # "stop" /\ prover'.stage \in InRound /\ prover'.stage # "finished"
  BY DEF LinkInv, OwnInv, PTypes, Stray, Later, InRound, HsStages
<1>2. Opens(prover, fault, prover', fault', prover'.todo, <<>>, <<>>, a, b)
  <2>1. Says(prover, fault) \subseteq Says(prover', fault')
    BY <1>1, SaysMore DEF Later, Hello
  <2>2. Pend(a, b) \in Scripts /\ prover'.todo \in Scripts
    BY <1>1, PendTypes DEF Provers
  <2>3. <<>> \o Pend(a, b) = Pend(a, b) /\ prover'.todo \o <<>> = prover'.todo /\ <<>> \in Scripts
    BY <2>2, Nil
  <2>4. Parts(prover', prover'.todo, <<>>)
    BY <1>1, <2>3 DEF Parts
  <2>5. prover'.stage = "submit" \/ prover'.stage = "open" => true_surf
    BY DEF OwnInv, Own, OwnStage
  <2>6. Dual(Says(prover', fault'), prover'.todo, <<>> \o Pend(a, b))
    BY <2>3
  <2> QED
    BY <1>1, <2>1, <2>3, <2>4, <2>5, <2>6 DEF Opens
<1>3. Follows(prover, fault, prover', fault', verifier, popen, round, prover'.todo, <<>>, <<>>, a)
  <2> SUFFICES ASSUME NEW U \in Scripts, NEW ph, Meets(prover, verifier, fault, popen, round, <<>>, <<>>, U, "none", ph)
               PROVE  Meets(prover', verifier, fault', popen, round, prover'.todo, <<>>, U \o <<>>, a, ph)
    BY DEF Follows
  <2>1. Latches(prover', verifier, a, fault')
    BY DEF Meets
  <2>2. prover.stage \in Later \cup {"established"}
    OBVIOUS
  <2> QED
    BY <1>1, <2>1, <2>2, MeetsStage
<1>4. prover.stage # "psk"
  BY DEF Later
<1> QED
  BY <1>1, <1>2, <1>3, <1>4, LinkOpens

LEMMA NoneIn == "none" \in Ops /\ \A Q : Dual(Q, <<>>, Pend("none", "none"))
<1>1. "none" \in Ops
  BY DEF Ops
<1>2. Pend("none", "none") = <<>>
  BY <1>1, PendTypes
<1> QED
  BY <1>1, <1>2, MatchEmpty DEF Dual

LEMMA StageOpen ==
    ASSUME OwnInv, prover.stage \in InRound
    PROVE  popen /\ prover \in Provers /\ fault \in BOOLEAN
BY DEF OwnInv, Own, OwnStage, PTypes

\* Nothing is said on the way.
LEMMA LinkSilent ==
    ASSUME LinkInv, OwnInv', popen' = popen, NetUnchanged, fault => fault', prover.todo = <<>>,
           prover.stage \in Later \ {"psk"}, prover'.stage \in Later, prover'.todo = <<>>,
           prover'.offer = prover.offer, prover'.resuming = prover.resuming, prover'.reused = prover.reused,
           prover'.psk_circuit = prover.psk_circuit,
           prover'.stage = "submit" => prover.stage = "reading" /\ prover'.idx = 0,
           prover'.stage = "open" => prover.stage = "open",
           prover'.stage \in {"request", "reading"} => prover.stage \in {"request", "reading"}
    PROVE  ~mixed' /\ NoSpuriousFailure' /\ \E g : Linked(g)'
<1>1. OwnInv /\ popen
  BY StageOpen DEF LinkInv, Later, InRound
<1>2. ~Stray(prover)
  BY <1>1, NotStray DEF Later, Hello, HsStages
<1>3. Pending(prover', "none", "none")
  BY DEF Pending, Later
<1>4. Dual(Says(prover', fault'), prover'.todo, Pend("none", "none"))
  BY NoneIn
<1>5. Latches(prover, verifier, "none", fault) => Latches(prover', verifier, "none", fault')
  BY DEF Latches, Later, HsStages
<1>6. "none" \notin PskHeaders \cup {"PSK_SKIP", "STOP"} /\ "none" \in Ops
  BY NoneIn DEF PskHeaders
<1>7. prover.stage \in (Later \ {"psk"}) \cup {"established"}
  OBVIOUS
<1> QED
  BY <1>1, <1>2, <1>3, <1>4, <1>5, <1>6, <1>7, LinkStage

\* The request.
LEMMA LinkEstablished ==
    ASSUME LinkInv, OwnInv', Established
    PROVE  ~mixed' /\ NoSpuriousFailure' /\ \E g : Linked(g)'
<1>1. OwnInv /\ popen /\ prover \in Provers /\ prover.stage = "established" /\ prover.todo = <<>>
      /\ NetUnchanged /\ fault' = fault
  BY StageOpen DEF LinkInv, Established, At, InRound, HsStages
<1>2. CASE prover.resuming /\ ~prover.reused
  <2>1. fault
    BY <1>1, <1>2 DEF OwnInv, Own, OwnTicket, Hello
  <2>2. EndRound(FALSE) /\ verifier' = verifier /\ vopen' = vopen /\ mixed' = mixed /\ p2v' = p2v /\ v2p' = v2p
    BY <1>1, <1>2 DEF Established, NetUnchanged
  <2> QED
    BY <1>1, <2>1, <2>2, LinkEndRound
<1>3. CASE ~(prover.resuming /\ ~prover.reused)
  <2>1. prover' = [prover EXCEPT !.stage = "request", !.todo = encrypt_request] /\ popen' = popen
    BY <1>3 DEF Established, Start
  <2>2. /\ prover'.stage = "request" /\ prover'.todo = encrypt_request /\ prover'.offer = prover.offer
        /\ prover'.resuming = prover.resuming /\ prover'.reused = prover.reused
        /\ prover'.psk_circuit = prover.psk_circuit
    BY <1>1, <2>1 DEF Provers
  <2>3. ~Stray(prover)
    BY <1>1, <1>3, NotStray DEF Hello
  <2>4. Pending(prover', "AES_ENC", "GCM_TAG") /\ {"AES_ENC", "GCM_TAG"} \subseteq Ops
        /\ "AES_ENC" \notin PskHeaders \cup {"PSK_SKIP", "STOP"}
    BY <2>2 DEF Pending, Ops, OpHeaders, RecordOps, PskHeaders
  <2>5. Dual(Says(prover', fault'), prover'.todo, Pend("AES_ENC", "GCM_TAG"))
    BY <2>2, TalkRequest
  <2>6. Latches(prover, verifier, "none", fault) => Latches(prover', verifier, "AES_ENC", fault')
    BY <1>1, <2>2 DEF Latches, HsStages
  <2>7. prover'.stage \in Later /\ prover.stage \in (Later \ {"psk"}) \cup {"established"}
    BY <1>1, <2>2 DEF Later
  <2> QED
    BY <1>1, <2>1, <2>2, <2>3, <2>4, <2>5, <2>6, <2>7, LinkStage
<1> QED
  BY <1>2, <1>3

LEMMA LinkRequestWritten ==
    ASSUME LinkInv, OwnInv', RequestWritten
    PROVE  ~mixed' /\ NoSpuriousFailure' /\ \E g : Linked(g)'
<1>1. OwnInv /\ popen /\ prover \in Provers /\ prover.stage = "request" /\ prover.todo = <<>>
      /\ NetUnchanged /\ fault' = fault /\ popen' = popen
  BY StageOpen DEF LinkInv, RequestWritten, At, InRound, HsStages
<1>2. prover' = [prover EXCEPT !.stage = "reading", !.todo = <<>>]
  BY DEF RequestWritten, Start
<1>3. /\ prover'.stage = "reading" /\ prover'.todo = <<>> /\ prover'.offer = prover.offer
      /\ prover'.resuming = prover.resuming /\ prover'.reused = prover.reused
      /\ prover'.psk_circuit = prover.psk_circuit
  BY <1>1, <1>2 DEF Provers
<1> QED
  BY <1>1, <1>3, LinkSilent DEF Later

LEMMA LinkEndOfStream ==
    ASSUME LinkInv, OwnInv', EndOfStream
    PROVE  ~mixed' /\ NoSpuriousFailure' /\ \E g : Linked(g)'
<1>1. OwnInv /\ popen /\ prover \in Provers /\ prover.stage = "reading" /\ prover.todo = <<>> /\ prover.idx = 0
      /\ NetUnchanged /\ (fault => fault') /\ popen' = popen
  BY StageOpen DEF LinkInv, EndOfStream, At, InRound, HsStages
<1>2. PICK s \in {"submit", "psk"} : prover' = [prover EXCEPT !.stage = s, !.todo = <<>>]
  BY DEF EndOfStream, Start
<1>3. /\ prover'.stage = s /\ prover'.todo = <<>> /\ prover'.offer = prover.offer
      /\ prover'.resuming = prover.resuming /\ prover'.reused = prover.reused
      /\ prover'.psk_circuit = prover.psk_circuit /\ prover'.idx = 0
  BY <1>1, <1>2 DEF Provers
<1> QED
  BY <1>1, <1>3, LinkSilent DEF Later

\* A record arrives.
LEMMA LinkReadRecord ==
    ASSUME LinkInv, OwnInv', NEW rec \in Records, ReadRecord(rec)
    PROVE  ~mixed' /\ NoSpuriousFailure' /\ \E g : Linked(g)'
<1>1. OwnInv /\ popen /\ prover \in Provers /\ prover.stage = "reading" /\ prover.todo = <<>> /\ prover.idx = 0
      /\ NetUnchanged /\ (fault => fault') /\ popen' = popen
  BY StageOpen DEF LinkInv, ReadRecord, At, InRound, HsStages
<1>0. PICK first \in BOOLEAN : first = FALSE
  OBVIOUS
<1>2. PICK rs, n, t : /\ prover' = [prover EXCEPT !.recs = rs, !.idx = n, !.todo = t]
                      /\ true_surf => t = <<>>
                      /\ ~true_surf => t = verify_record_tag(first, rec) \o IF rec.bad THEN <<>> ELSE derive_keystream
  BY <1>0, Zenon DEF ReadRecord
<1>3. /\ prover'.stage = "reading" /\ prover'.todo = t /\ prover'.offer = prover.offer
      /\ prover'.resuming = prover.resuming /\ prover'.reused = prover.reused
      /\ prover'.psk_circuit = prover.psk_circuit
  BY <1>1, <1>2 DEF Provers
<1>4. CASE true_surf
  BY <1>1, <1>2, <1>3, <1>4, LinkSilent DEF Later
<1>5. CASE ~true_surf
  <2>1. rec.bad \in BOOLEAN /\ (rec.bad => fault')
    BY DEF ReadRecord, Records
  <2>2. ~Stray(prover)
    BY <1>1, NotStray DEF Hello, HsStages
  <2>3. prover'.stage \in Later /\ prover.stage \in (Later \ {"psk"}) \cup {"established"}
    BY <1>1, <1>3 DEF Later
  <2>4. /\ Pending(prover', "GCM_VERIFY", "none") /\ Pending(prover', "GCM_VERIFY", "KS_DERIVE")
        /\ "GCM_VERIFY" \in Ops /\ "KS_DERIVE" \in Ops /\ "none" \in Ops
        /\ "GCM_VERIFY" \notin PskHeaders \cup {"PSK_SKIP", "STOP"}
    BY <1>3, <1>5 DEF Pending, Ops, OpHeaders, RecordOps, PskHeaders
  <2>5. Latches(prover, verifier, "none", fault) => Latches(prover', verifier, "GCM_VERIFY", fault')
    BY <1>5 DEF Latches
  <2>8. /\ Dual(Says(prover', fault'), verify_record_tag(first, rec) \o <<>>, Pend("GCM_VERIFY", "none"))
        /\ Dual(Says(prover', fault'), verify_record_tag(first, rec) \o derive_keystream, Pend("GCM_VERIFY", "KS_DERIVE"))
    BY ONLY <1>5, <2>1, first \in BOOLEAN, TalkMasked
  <2>6. CASE rec.bad
    <3>1. prover'.todo = verify_record_tag(first, rec) \o <<>>
      BY <1>2, <1>3, <1>5, <2>6
    <3>2. Dual(Says(prover', fault'), prover'.todo, Pend("GCM_VERIFY", "none"))
      BY <2>8, <3>1, Zenon
    <3> QED
      BY <1>1, <1>3, <2>2, <2>3, <2>4, <2>5, <3>2, LinkStage
  <2>7. CASE ~rec.bad
    <3>1. prover'.todo = verify_record_tag(first, rec) \o derive_keystream
      BY <1>2, <1>3, <1>5, <2>7
    <3>2. Dual(Says(prover', fault'), prover'.todo, Pend("GCM_VERIFY", "KS_DERIVE"))
      BY <2>8, <3>1, Zenon
    <3> QED
      BY <1>1, <1>3, <2>2, <2>3, <2>4, <2>5, <3>2, LinkStage
  <2> QED
    BY <2>6, <2>7
<1> QED
  BY <1>4, <1>5

\* The first ticket is processed: the verifier is still before or in its first
\* loop, which the ticket's header ends.
LEMMA LinkTicket ==
    ASSUME LinkInv, OwnInv', popen' = popen, NetUnchanged, fault' = fault, prover.todo = <<>>,
           prover.stage \in {"reading", "replay"}, prover.psk_circuit, NEW kind \in {"nst0", "nst1", "nst8"}, NEW n,
           prover' = [prover EXCEPT !.todo = derive_psk_keys(kind), !.psk_circuit = FALSE, !.ticket = round, !.idx = n]
    PROVE  ~mixed' /\ NoSpuriousFailure' /\ \E g : Linked(g)'
<1>1. OwnInv /\ popen /\ prover \in Provers /\ prover' \in Provers
  BY StageOpen DEF LinkInv, InRound, HsStages, OwnInv, PTypes
<1>2. /\ prover'.stage = prover.stage /\ prover'.todo = derive_psk_keys(kind) /\ prover'.offer = prover.offer
      /\ prover'.resuming = prover.resuming /\ prover'.reused = prover.reused
      /\ ~prover'.psk_circuit /\ prover'.ticket = round
  BY <1>1 DEF Provers
<1>3. ~Stray(prover) /\ ~Stray(prover')
  <2>1. ~Stray(prover)
    BY <1>1, NotStray DEF Hello, HsStages
  <2> QED
    BY <1>2, <2>1 DEF Stray
<1>4. PICK a : a = Widths[kind][1]
  OBVIOUS
<1>5. a \in PskHeaders /\ a \in Ops /\ "none" \in Ops
      /\ Dual(Says(prover', fault'), prover'.todo, Pend(a, "none"))
  <2>1. a \in PskHeaders /\ Dual(Says(prover', fault'), derive_psk_keys(kind), Pend(a, "none"))
    BY <1>2, <1>4, TalkTicket, Zenon
  <2> QED
    BY <1>2, <2>1 DEF Ops, OpHeaders
<1>6. Opens(prover, fault, prover', fault', prover'.todo, <<>>, <<>>, a, "none")
  <2>1. Says(prover, fault) \subseteq Says(prover', fault')
    <3>1. /\ fault => fault'
          /\ prover'.resuming = prover.resuming /\ prover'.reused = prover.reused
          /\ prover.stage \notin Hello => prover'.stage \notin Hello
          /\ ~prover.psk_circuit => ~prover'.psk_circuit
      BY <1>2, Zenon
    <3> QED
      BY ONLY <3>1, SaysMore
  <2>2. Pend(a, "none") \in Scripts /\ prover'.todo \in Scripts
    BY <1>1, <1>5, PendTypes DEF Provers
  <2>3. <<>> \o Pend(a, "none") = Pend(a, "none") /\ prover'.todo \o <<>> = prover'.todo /\ <<>> \in Scripts
    BY <2>2, Nil
  <2>4. Parts(prover', prover'.todo, <<>>)
    BY <1>2, <2>3 DEF Parts
  <2>5. Pending(prover', a, "none")
    BY <1>2, <1>5 DEF Pending
  <2>6. Dual(Says(prover', fault'), prover'.todo, <<>> \o Pend(a, "none"))
    BY <1>5, <2>3
  <2> QED
    BY <1>1, <1>2, <1>3, <1>5, <2>1, <2>3, <2>4, <2>5, <2>6 DEF Opens
<1>7. Follows(prover, fault, prover', fault', verifier, popen, round, prover'.todo, <<>>, <<>>, a)
  <2> SUFFICES ASSUME NEW U \in Scripts, NEW ph, Meets(prover, verifier, fault, popen, round, <<>>, <<>>, U, "none", ph)
               PROVE  Meets(prover', verifier, fault', popen, round, prover'.todo, <<>>, U \o <<>>, a, ph)
    BY DEF Follows
  <2>1. /\ verifier \in Verifiers /\ ph \in {"A", "B", "C"} /\ Agrees(prover, verifier, <<>>, ph, verifier.todo, U)
        /\ Phase(prover, verifier, <<>>, U, "none", ph) /\ Walk(prover, verifier, <<>>)
        /\ Latches(prover, verifier, "none", fault) /\ Shares(prover, verifier, popen, round, ph)
    BY DEF Meets
  <2>2. ph = "A" /\ verifier.state \in HsStates
    BY <2>1 DEF Phase
  <2>3. Phase(prover', verifier, prover'.todo, U \o <<>>, a, ph)
    BY <1>2, <1>5, <2>2 DEF Phase
  <2>4. Agrees(prover', verifier, <<>>, ph, verifier.todo, U \o <<>>)
    BY <1>1, <1>2, <2>1, AgreesStage
  <2>5. Walk(prover', verifier, <<>>)
    BY <1>2, <1>3, <2>1 DEF Walk, Hello, HsStages
  <2>6. Latches(prover', verifier, a, fault')
    BY <1>2, <2>1 DEF Latches
  <2>7. Shares(prover', verifier, popen, round, ph)
    BY <1>2, <2>1, <2>2 DEF Shares
  <2> QED
    BY <2>1, <2>3, <2>4, <2>5, <2>6, <2>7 DEF Meets
<1>8. prover'.stage \in InRound /\ prover.stage # "psk"
  BY <1>2 DEF InRound
<1> QED
  BY <1>1, <1>6, <1>7, <1>8, LinkOpens

\* A record of the masked mode is opened.
LEMMA LinkOpenRecord ==
    ASSUME LinkInv, OwnInv', OpenRecord
    PROVE  ~mixed' /\ NoSpuriousFailure' /\ \E g : Linked(g)'
<1>1. OwnInv /\ popen /\ prover \in Provers /\ prover.stage = "reading" /\ prover.todo = <<>>
      /\ NetUnchanged /\ fault' = fault
  BY StageOpen DEF LinkInv, OpenRecord, At, InRound, HsStages
<1>2. prover.idx > 0
  BY DEF OpenRecord
<1>3. PICK rec : rec = prover.recs[prover.idx]
  OBVIOUS
<1>4. rec.kind \in {"app", "nst0", "nst1", "nst8", "nstX", "close"}
  <2>1. prover.recs \in Seq(Records) /\ prover.idx \in 1 .. Len(prover.recs)
    BY <1>1, <1>2 DEF OwnInv, Own, OwnRecords, Provers
  <2>2. rec \in Records
    BY <1>3, <2>1
  <2> QED
    BY <2>2, SessionAssumption DEF Records
<1>5. CASE rec.bad \/ (rec.kind = "nstX" /\ prover.psk_circuit)
  <2>1. prover' = [prover EXCEPT !.stage = "psk", !.todo = <<>>] /\ popen' = popen
    BY <1>1, <1>3, <1>5 DEF OpenRecord, ProverError
  <2>2. /\ prover'.stage = "psk" /\ prover'.todo = <<>> /\ prover'.offer = prover.offer
        /\ prover'.resuming = prover.resuming /\ prover'.reused = prover.reused
        /\ prover'.psk_circuit = prover.psk_circuit
    BY <1>1, <2>1 DEF Provers
  <2> QED
    BY <1>1, <2>1, <2>2, LinkSilent DEF Later
<1>6. CASE ~(rec.bad \/ (rec.kind = "nstX" /\ prover.psk_circuit))
  <2>1. popen' = popen
    BY <1>3, <1>6 DEF OpenRecord
  <2>2. CASE rec.kind \in {"nst0", "nst1", "nst8"} /\ prover.psk_circuit
    <3>1. prover.ticket = NoPsk
      BY <1>1, <2>2 DEF OwnInv, Own, OwnTicket
    <3>2. prover' = [ProcessTicket(rec.kind) EXCEPT !.idx = 0]
      BY <1>3, <1>6, <2>2 DEF OpenRecord
    <3>3. prover' = [prover EXCEPT !.todo = derive_psk_keys(rec.kind), !.psk_circuit = FALSE,
                                   !.ticket = round, !.idx = 0]
      BY <2>2, <3>1, <3>2, <1>1 DEF ProcessTicket, Provers
    <3> QED
      BY <1>1, <2>1, <2>2, <3>3, LinkTicket
  <2>3. CASE ~(rec.kind \in {"nst0", "nst1", "nst8"} /\ prover.psk_circuit)
    <3>1. \/ prover' = [prover EXCEPT !.delivered = prover.delivered + 1, !.idx = 0]
          \/ prover' = [prover EXCEPT !.stage = "psk", !.idx = 0]
          \/ prover' = [prover EXCEPT !.idx = 0]
      BY <1>3, <1>4, <1>6, <2>3 DEF OpenRecord, ProcessTicket
    <3>2. /\ prover'.stage \in {"reading", "psk"} /\ prover'.todo = <<>> /\ prover'.offer = prover.offer
          /\ prover'.resuming = prover.resuming /\ prover'.reused = prover.reused
          /\ prover'.psk_circuit = prover.psk_circuit
      BY <1>1, <3>1 DEF Provers
    <3> QED
      BY <1>1, <2>1, <3>2, LinkSilent DEF Later
  <2> QED
    BY <2>2, <2>3
<1> QED
  BY <1>5, <1>6

\* The sealed records are submitted, and k_v is asked for.
LEMMA LinkSubmitRecord ==
    ASSUME LinkInv, OwnInv', SubmitRecord
    PROVE  ~mixed' /\ NoSpuriousFailure' /\ \E g : Linked(g)'
<1>1. OwnInv /\ popen /\ prover \in Provers /\ prover.stage = "submit" /\ prover.todo = <<>>
      /\ NetUnchanged /\ fault' = fault
  BY StageOpen DEF LinkInv, SubmitRecord, At, InRound, HsStages
<1>2. /\ prover.recs \in Seq(Records) /\ prover.idx \in Nat /\ prover.idx <= Len(prover.recs) /\ true_surf
      /\ \A i \in 1 .. Len(prover.recs) : prover.recs[i].bad => fault
      /\ prover.recs = <<>> => fault
  BY <1>1 DEF OwnInv, Own, OwnRecords, OwnStage, Provers
<1>3. CASE prover.idx > 0 /\ prover.recs[prover.idx].bad
  <2>1. fault
    BY <1>2, <1>3
  <2>2. EndRound(FALSE) /\ verifier' = verifier /\ vopen' = vopen /\ mixed' = mixed /\ p2v' = p2v /\ v2p' = v2p
    BY <1>1, <1>3 DEF SubmitRecord, NetUnchanged
  <2> QED
    BY <1>1, <2>1, <2>2, LinkEndRound
<1>4. CASE ~(prover.idx > 0 /\ prover.recs[prover.idx].bad)
  <2>0. popen' = popen /\ ~Stray(prover)
    BY <1>1, <1>4, NotStray DEF SubmitRecord, Hello, HsStages
  <2>1. CASE prover.idx < Len(prover.recs)
    <3>1. PICK first \in BOOLEAN : first = (prover.idx = 0)
      OBVIOUS
    <3>2. PICK rec : rec = prover.recs[prover.idx + 1]
      OBVIOUS
    <3>3. prover' = [prover EXCEPT !.idx = prover.idx + 1, !.todo = verify_record_tag(first, rec)]
      BY <1>4, <2>1, <3>1, <3>2, Zenon DEF SubmitRecord
    <3>4. rec.bad \in BOOLEAN /\ (rec.bad => fault')
      <4>1. prover.idx + 1 \in 1 .. Len(prover.recs)
        BY <1>2, <2>1
      <4>2. rec \in Records /\ (rec.bad => fault)
        BY <1>2, <3>2, <4>1
      <4> QED
        BY <1>1, <4>2 DEF Records
    <3>5. /\ prover'.stage = "submit" /\ prover'.todo = verify_record_tag(first, rec) /\ prover'.offer = prover.offer
          /\ prover'.resuming = prover.resuming /\ prover'.reused = prover.reused
          /\ prover'.psk_circuit = prover.psk_circuit /\ prover'.idx = prover.idx + 1
      BY <1>1, <3>3 DEF Provers
    <3>6. prover'.stage \in Later /\ prover.stage \in (Later \ {"psk"}) \cup {"established"}
      BY <1>1, <3>5 DEF Later
    <3>7. /\ Pending(prover', "KEY_COMMIT", "GCM_VERIFY") /\ Pending(prover', "GCM_VERIFY", "none")
          /\ "GCM_VERIFY" \in Ops /\ "KEY_COMMIT" \in Ops /\ "none" \in Ops
          /\ {"GCM_VERIFY", "KEY_COMMIT"} \cap (PskHeaders \cup {"PSK_SKIP", "STOP"}) = {}
      BY <1>2, <3>5 DEF Pending, Ops, OpHeaders, RecordOps, PskHeaders
    <3>8. /\ first => Dual(Says(prover', fault'), verify_record_tag(first, rec), Pend("KEY_COMMIT", "GCM_VERIFY"))
          /\ ~first => Dual(Says(prover', fault'), verify_record_tag(first, rec), Pend("GCM_VERIFY", "none"))
      BY ONLY <1>2, <3>4, first \in BOOLEAN, TalkSealed
    <3>9. CASE first
      <4>1. Latches(prover, verifier, "none", fault) => Latches(prover', verifier, "KEY_COMMIT", fault')
        BY <1>1, <1>2, <3>1, <3>5, <3>9 DEF Latches, HsStages
      <4>2. Dual(Says(prover', fault'), prover'.todo, Pend("KEY_COMMIT", "GCM_VERIFY"))
        BY <3>5, <3>8, <3>9
      <4> QED
        BY <1>1, <2>0, <3>5, <3>6, <3>7, <4>1, <4>2, LinkStage
    <3>10. CASE ~first
      <4>1. verifier \in Verifiers /\ Latches(prover, verifier, "none", fault) => Latches(prover', verifier, "GCM_VERIFY", fault')
        <5> SUFFICES ASSUME verifier \in Verifiers, Latches(prover, verifier, "none", fault)
                     PROVE  Latches(prover', verifier, "GCM_VERIFY", fault')
          OBVIOUS
        <5>0. prover.idx # 0
          BY <3>1, <3>10, Zenon
        <5>1. prover.idx > 0 /\ prover'.idx > 0 /\ prover'.idx # 0
          BY <1>2, <3>5, <5>0
        <5>2. verifier.key_committed /\ ~verifier.key_released
          BY <1>1, <1>2, <5>1 DEF Latches
        <5> QED
          BY <1>2, <3>5, <5>1, <5>2 DEF Latches, HsStages
      <4>2. Dual(Says(prover', fault'), prover'.todo, Pend("GCM_VERIFY", "none"))
        BY <3>5, <3>8, <3>10
      <4> QED
        BY <1>1, <2>0, <3>5, <3>6, <3>7, <4>1, <4>2, LinkStage
    <3> QED
      BY <3>9, <3>10
  <2>2. CASE ~(prover.idx < Len(prover.recs))
    <3>1. prover' = [prover EXCEPT !.stage = "open", !.idx = 0, !.todo = <<Send("KEY_RELEASE"), Recv({"KEY"})>>]
      BY <1>4, <2>2 DEF SubmitRecord
    <3>2. /\ prover'.stage = "open" /\ prover'.todo = <<Send("KEY_RELEASE"), Recv({"KEY"})>>
          /\ prover'.offer = prover.offer /\ prover'.resuming = prover.resuming
          /\ prover'.reused = prover.reused /\ prover'.psk_circuit = prover.psk_circuit
      BY <1>1, <3>1 DEF Provers
    <3>3. prover'.stage \in Later /\ prover.stage \in (Later \ {"psk"}) \cup {"established"}
      BY <1>1, <3>2 DEF Later
    <3>4. /\ Pending(prover', "KEY_RELEASE", "none") /\ "KEY_RELEASE" \in Ops /\ "none" \in Ops
          /\ "KEY_RELEASE" \notin PskHeaders \cup {"PSK_SKIP", "STOP"}
      BY <3>2 DEF Pending, Ops, OpHeaders, RecordOps, PskHeaders
    <3>5. Dual(Says(prover', fault'), prover'.todo, Pend("KEY_RELEASE", "none"))
      BY <3>2, TalkRelease
    <3>6. prover.idx = 0 => fault
      <4>1. prover.idx = 0 => Len(prover.recs) = 0
        BY <1>2, <2>2
      <4> QED
        BY <1>2, <4>1
    <3>7. verifier \in Verifiers /\ Latches(prover, verifier, "none", fault) => Latches(prover', verifier, "KEY_RELEASE", fault')
      BY <1>1, <1>2, <3>2, <3>6 DEF Latches, HsStages, Verifiers
    <3> QED
      BY <1>1, <2>0, <3>2, <3>3, <3>4, <3>5, <3>7, LinkStage
  <2> QED
    BY <2>1, <2>2
<1> QED
  BY <1>3, <1>4

LEMMA LinkOpenRecords ==
    ASSUME LinkInv, OwnInv', OpenRecords
    PROVE  ~mixed' /\ NoSpuriousFailure' /\ \E g : Linked(g)'
<1>1. OwnInv /\ popen /\ prover \in Provers /\ prover.stage = "open" /\ prover.todo = <<>>
      /\ NetUnchanged /\ (fault => fault')
  BY StageOpen DEF LinkInv, OpenRecords, At, InRound, HsStages
<1>2. CASE EndsWithClose(prover.recs)
  <2>1. PICK d : prover' = [prover EXCEPT !.stage = "replay", !.delivered = d] /\ popen' = popen
    BY <1>2 DEF OpenRecords
  <2>2. /\ prover'.stage = "replay" /\ prover'.todo = <<>> /\ prover'.offer = prover.offer
        /\ prover'.resuming = prover.resuming /\ prover'.reused = prover.reused
        /\ prover'.psk_circuit = prover.psk_circuit
    BY <1>1, <2>1 DEF Provers
  <2> QED
    BY <1>1, <2>1, <2>2, LinkSilent DEF Later
<1>3. CASE ~EndsWithClose(prover.recs)
  <2>1. /\ EndRound(FALSE) /\ fault' /\ verifier' = verifier /\ vopen' = vopen /\ mixed' = mixed
        /\ p2v' = p2v /\ v2p' = v2p
    BY <1>1, <1>3 DEF OpenRecords, NetUnchanged
  <2> QED
    BY <1>1, <2>1, LinkEndRound
<1> QED
  BY <1>2, <1>3

\* The opened records go back to the handshake layer.
LEMMA LinkReplayRecord ==
    ASSUME LinkInv, OwnInv', ReplayRecord
    PROVE  ~mixed' /\ NoSpuriousFailure' /\ \E g : Linked(g)'
<1>1. OwnInv /\ popen /\ prover \in Provers /\ prover.stage = "replay" /\ prover.todo = <<>>
      /\ NetUnchanged /\ fault' = fault
  BY StageOpen DEF LinkInv, ReplayRecord, At, InRound, HsStages
<1>2. /\ prover.recs \in Seq(Records) /\ prover.idx \in Nat /\ prover.idx <= Len(prover.recs)
      /\ \A i \in 1 .. Len(prover.recs) : prover.recs[i].kind = "nstX" => fault
  BY <1>1 DEF OwnInv, Own, OwnRecords, Provers
<1>3. CASE prover.idx = Len(prover.recs)
  <2>1. prover' = [prover EXCEPT !.stage = "psk", !.todo = <<>>] /\ popen' = popen
    BY <1>3 DEF ReplayRecord, Start
  <2>2. /\ prover'.stage = "psk" /\ prover'.todo = <<>> /\ prover'.offer = prover.offer
        /\ prover'.resuming = prover.resuming /\ prover'.reused = prover.reused
        /\ prover'.psk_circuit = prover.psk_circuit
    BY <1>1, <2>1 DEF Provers
  <2> QED
    BY <1>1, <2>1, <2>2, LinkSilent DEF Later
<1>4. CASE prover.idx # Len(prover.recs)
  <2>1. PICK rec : rec = prover.recs[prover.idx + 1]
    OBVIOUS
  <2>2. rec \in Records /\ (rec.kind = "nstX" => fault)
    <3>1. prover.idx + 1 \in 1 .. Len(prover.recs)
      BY <1>2, <1>4
    <3> QED
      BY <1>2, <2>1, <3>1
  <2>3. CASE IsHandshake(rec) /\ rec.kind = "nstX" /\ prover.psk_circuit
    <3>1. EndRound(FALSE) /\ verifier' = verifier /\ vopen' = vopen /\ mixed' = mixed /\ p2v' = p2v /\ v2p' = v2p
      BY <1>1, <1>4, <2>1, <2>3 DEF ReplayRecord, NetUnchanged
    <3>2. fault
      BY <2>2, <2>3
    <3> QED
      BY <1>1, <3>1, <3>2, LinkEndRound
  <2>4. CASE ~(IsHandshake(rec) /\ rec.kind = "nstX" /\ prover.psk_circuit)
    <3>1. popen' = popen
      BY <1>4, <2>1, <2>4 DEF ReplayRecord
    <3>2. CASE IsHandshake(rec) /\ rec.kind # "nstX" /\ prover.psk_circuit
      <4>1. rec.kind \in {"nst0", "nst1", "nst8"}
        BY <3>2 DEF IsHandshake, IsTicket
      <4>2. prover.ticket = NoPsk
        BY <1>1, <3>2 DEF OwnInv, Own, OwnTicket
      <4>3. prover' = [ProcessTicket(rec.kind) EXCEPT !.idx = ProcessTicket(rec.kind).idx + 1]
        BY <1>4, <2>1, <2>4, <3>2 DEF ReplayRecord
      <4>4. prover' = [prover EXCEPT !.todo = derive_psk_keys(rec.kind), !.psk_circuit = FALSE,
                                     !.ticket = round, !.idx = prover.idx + 1]
        BY <1>1, <3>2, <4>2, <4>3 DEF ProcessTicket, Provers
      <4> QED
        BY <1>1, <3>1, <3>2, <4>1, <4>4, LinkTicket
    <3>3. CASE ~(IsHandshake(rec) /\ rec.kind # "nstX" /\ prover.psk_circuit)
      <4>1. prover' = [prover EXCEPT !.idx = prover.idx + 1]
        BY <1>4, <2>1, <2>4, <3>3 DEF ReplayRecord, ProcessTicket
      <4>2. /\ prover'.stage = "replay" /\ prover'.todo = <<>> /\ prover'.offer = prover.offer
            /\ prover'.resuming = prover.resuming /\ prover'.reused = prover.reused
            /\ prover'.psk_circuit = prover.psk_circuit
        BY <1>1, <4>1 DEF Provers
      <4> QED
        BY <1>1, <3>1, <4>2, LinkSilent DEF Later
    <3> QED
      BY <3>2, <3>3
  <2> QED
    BY <2>3, <2>4
<1> QED
  BY <1>3, <1>4

LEMMA LinkOriginFails ==
    ASSUME LinkInv, OwnInv', OriginFails
    PROVE  ~mixed' /\ NoSpuriousFailure' /\ \E g : Linked(g)'
<1>1. OwnInv /\ popen /\ prover \in Provers /\ prover.stage \in {"hello", "server_hello", "finished"}
      /\ prover.todo = <<>> /\ NetUnchanged /\ fault'
  BY StageOpen DEF LinkInv, OriginFails, At, InRound, HsStages
<1>2. EndRound(FALSE) /\ verifier' = verifier /\ vopen' = vopen /\ mixed' = mixed /\ p2v' = p2v /\ v2p' = v2p
  BY <1>1 DEF OriginFails, ProverError, NetUnchanged
<1>3. vopen => ~(prover.stage = "finished" /\ Stray(prover))
  <2>1. PICK g : Linked(g)
    BY DEF LinkInv
  <2>2. SUFFICES ASSUME vopen PROVE ~(prover.stage = "finished" /\ Stray(prover))
    OBVIOUS
  <2>3. Together(prover, verifier, fault, popen, round, p2v, v2p)
    BY <1>1, <2>1, <2>2 DEF Linked
  <2>4. PICK P, T, V : Speaks(prover, fault, p2v, v2p, P, T, V)
    BY <2>3 DEF Together, Talk
  <2> QED
    BY <1>1, <2>4, Quiet
<1> QED
  BY <1>1, <1>2, <1>3, LinkEndRound

\* Once the prover has read PSK_DONE the verifier has left its first loop for good.
LEMMA TicketTaken ==
    ASSUME NEW p \in Provers, NEW v \in Verifiers, NEW U \in Scripts, Agrees(p, v, <<>>, "B", v.todo, U), AllRecv(U),
           p.stage \notin {"hello", "server_hello", "finished"}, ~v.psk_skipped
    PROVE  v.state # "DERIVE_PSK"
<1> SUFFICES ASSUME v.state = "DERIVE_PSK" PROVE FALSE
  OBVIOUS
<1>1. PICK e : e \in Futures(p, v)
  BY FutureTypes
<1>2. Rem(v, e, "B") = <<Send("PSK_DONE")>> \o Serve
  BY DEF Rem, write_completed_psk
<1>3. Point(p, <<>>, e, "B") = Serve
  BY DEF Point
<1>4. v.todo \o (<<Send("PSK_DONE")>> \o Serve) = U \o Serve
  BY <1>1, <1>2, <1>3 DEF Agrees
<1>5. <<Send("PSK_DONE")>> \in Scripts /\ v.todo \in Scripts /\ Send("PSK_DONE") \in Instrs /\ Send("PSK_DONE").op = "send"
  <2>1. "PSK_DONE" \in Words
    BY DEF Words
  <2> QED
    BY <2>1, OneHeader, HeaderTypes DEF Verifiers
<1>6. (v.todo \o <<Send("PSK_DONE")>>) \o Serve = U \o Serve
  BY <1>4, <1>5, ServeTypes, Assoc3
<1>7. v.todo \o <<Send("PSK_DONE")>> = U
  BY <1>5, <1>6, ServeTypes, Cat, CancelRight
<1> QED
  BY <1>5, <1>7, SendIsNotRecv

LEMMA MeetsPskPhase ==
    ASSUME NEW p \in Provers, NEW v, NEW f, NEW r, NEW U \in Scripts, NEW ph, NEW po, po,
           Meets(p, v, f, po, r, <<>>, <<>>, U, "none", ph), p.stage = "psk", ~Stray(p), AllRecv(U),
           NEW q \in Provers, q.stage = "stop", q.offer = p.offer, q.resuming = p.resuming, q.reused = p.reused,
           q.psk_circuit = p.psk_circuit, ~p.psk_circuit => q.ticket = r, NEW k, NEW S,
           NEW a, a = IF p.psk_circuit THEN "PSK_SKIP" ELSE "STOP"
    PROVE  Meets(q, v, k, po, r, S, <<>>, U \o <<>>, a, ph)
<1>1. /\ v \in Verifiers /\ ph \in {"A", "B", "C"} /\ Agrees(p, v, <<>>, ph, v.todo, U)
      /\ Phase(p, v, <<>>, U, "none", ph) /\ Walk(p, v, <<>>) /\ Shares(p, v, po, r, ph)
  BY DEF Meets
<1>2. ~Stray(q)
  BY DEF Stray
<1>3. Agrees(q, v, <<>>, ph, v.todo, U \o <<>>)
  BY <1>1, AgreesStage
<1>4. Walk(q, v, <<>>)
  BY <1>1, <1>2 DEF Walk, Hello, HsStages
<1>5. Latches(q, v, a, k)
  BY DEF Latches, HsStages
<1>6. CASE p.psk_circuit
  <2>1. ph = "A" /\ v.state \in HsStates
    BY <1>1, <1>6 DEF Phase
  <2>2. Phase(q, v, S, U \o <<>>, a, ph)
    BY <1>6, <2>1 DEF Phase, PskHeaders
  <2>3. Shares(q, v, po, r, ph)
    BY <1>1, <1>6, <2>1 DEF Shares
  <2> QED
    BY <1>1, <1>3, <1>4, <1>5, <2>2, <2>3 DEF Meets
<1>7. CASE ~p.psk_circuit
  <2>1. /\ ph = "B" /\ v.state \in {"DERIVE_PSK", "PSK_DONE", "SHUTDOWN"} /\ v.psk_skipped = p.psk_circuit
    BY <1>1, <1>7 DEF Phase, PskHeaders
  <2>2. v.state # "DERIVE_PSK"
    BY <1>1, <1>7, <2>1, TicketTaken
  <2>3. Phase(q, v, S, U \o <<>>, a, ph)
    BY <1>7, <2>1 DEF Phase, PskHeaders, HsStages
  <2>4. v.psk_shares = r /\ Silent(v.todo)
    BY <1>1, <1>7, <2>1, <2>2 DEF Shares
  <2>5. Shares(q, v, po, r, ph)
    BY <1>7, <2>1, <2>2, <2>4 DEF Shares
  <2> QED
    BY <1>1, <1>3, <1>4, <1>5, <2>3, <2>5 DEF Meets
<1> QED
  BY <1>6, <1>7

\* The prover says STOP, and before that whether there was a ticket.
LEMMA LinkPskPhase ==
    ASSUME LinkInv, OwnInv', PskPhase
    PROVE  ~mixed' /\ NoSpuriousFailure' /\ \E g : Linked(g)'
<1>1. OwnInv /\ popen /\ prover \in Provers /\ prover.stage = "psk" /\ prover.todo = <<>>
      /\ NetUnchanged /\ fault' = fault /\ popen' = popen /\ prover' \in Provers
  <2>1. prover' \in Provers
    BY DEF OwnInv, PTypes
  <2> QED
    BY <2>1, StageOpen DEF LinkInv, PskPhase, At, InRound, HsStages
<1>2. ~Stray(prover) /\ (~prover.psk_circuit => prover.ticket = round)
  BY <1>1, NotStray DEF Hello, HsStages, OwnInv, Own, OwnTicket
<1>3. PICK s, t : prover' = [prover EXCEPT !.stage = "stop", !.session = s, !.todo = t]
                  /\ t = (IF prover.psk_circuit THEN <<Send("PSK_SKIP")>> ELSE <<>>) \o <<Send("STOP")>>
  BY DEF PskPhase
<1>4. /\ prover'.stage = "stop" /\ prover'.todo = t /\ prover'.offer = prover.offer
      /\ prover'.resuming = prover.resuming /\ prover'.reused = prover.reused
      /\ prover'.psk_circuit = prover.psk_circuit /\ prover'.ticket = prover.ticket
  BY <1>1, <1>3 DEF Provers
<1>5. ~Stray(prover')
  BY <1>2, <1>4 DEF Stray
<1>6. PICK a, b : a = (IF prover.psk_circuit THEN "PSK_SKIP" ELSE "STOP")
                  /\ b = (IF prover.psk_circuit THEN "STOP" ELSE "none")
  OBVIOUS
<1>7. Dual(Says(prover', fault'), t, Pend(a, b)) /\ AllSend(t)
  <2>1. "PSK_SKIP" \in Words /\ "STOP" \in Words
    BY DEF Words
  <2>2. Send("PSK_SKIP") \in Instrs /\ Send("STOP") \in Instrs /\ <<Send("STOP")>> \in Scripts
        /\ Send("PSK_SKIP").op = "send" /\ Send("STOP").op = "send"
    BY <2>1, HeaderTypes, OneHeader
  <2>3. CASE prover.psk_circuit
    <3>1. t = <<Send("PSK_SKIP")>> \o <<Send("STOP")>> /\ a = "PSK_SKIP" /\ b = "STOP"
      BY <1>3, <1>6, <2>3
    <3>2. t = <<Send("PSK_SKIP"), Send("STOP")>>
      BY <2>2, <3>1, PairOf
    <3>3. AllSend(t)
      BY <2>2, <3>2 DEF AllSend
    <3> QED
      BY <3>1, <3>3, TalkStop
  <2>4. CASE ~prover.psk_circuit
    <3>1. t = <<>> \o <<Send("STOP")>> /\ a = "STOP" /\ b = "none"
      BY <1>3, <1>6, <2>4
    <3>2. t = <<Send("STOP")>>
      BY <2>2, <3>1, Nil
    <3>3. AllSend(t)
      BY <2>2, <3>2 DEF AllSend
    <3> QED
      BY <3>1, <3>3, TalkStop
  <2> QED
    BY <2>3, <2>4
<1>8. a \in Ops /\ b \in Ops /\ Pending(prover', a, b)
  BY <1>4, <1>6 DEF Ops, OpHeaders, Pending
<1>9. Opens(prover, fault, prover', fault', t, <<>>, <<>>, a, b)
  <2>1. Says(prover, fault) \subseteq Says(prover', fault')
    <3>1. /\ fault => fault'
          /\ prover'.resuming = prover.resuming /\ prover'.reused = prover.reused
          /\ prover.stage \notin Hello => prover'.stage \notin Hello
          /\ ~prover.psk_circuit => ~prover'.psk_circuit
      BY <1>1, <1>4 DEF Hello
    <3> QED
      BY ONLY <3>1, SaysMore
  <2>2. Pend(a, b) \in Scripts /\ t \in Scripts
    BY <1>1, <1>4, <1>8, PendTypes DEF Provers
  <2>3. <<>> \o Pend(a, b) = Pend(a, b) /\ t \o <<>> = t /\ <<>> \in Scripts
    BY <2>2, Nil
  <2>4. Parts(prover', t, <<>>)
    BY <1>4, <2>3 DEF Parts
  <2>5. Dual(Says(prover', fault'), t, <<>> \o Pend(a, b))
    BY <1>7, <2>3
  <2> QED
    BY <1>1, <1>4, <1>5, <1>7, <1>8, <2>1, <2>3, <2>4, <2>5 DEF Opens
<1>10. Follows(prover, fault, prover', fault', verifier, popen, round, t, <<>>, <<>>, a)
  <2> SUFFICES ASSUME NEW U \in Scripts, NEW ph, Meets(prover, verifier, fault, popen, round, <<>>, <<>>, U, "none", ph),
                      AllRecv(U)
               PROVE  Meets(prover', verifier, fault', popen, round, t, <<>>, U \o <<>>, a, ph)
    BY DEF Follows
  <2>1. ~prover.psk_circuit => prover'.ticket = round
    BY <1>2, <1>4
  <2> QED
    BY <1>1, <1>2, <1>4, <1>6, <2>1, MeetsPskPhase
<1>11. Lost(prover') /\ prover'.stage \in InRound
  BY <1>4, <1>7 DEF Lost, InRound
<1> QED
  BY <1>1, <1>9, <1>10, <1>11, LinkOpens

\* The round is over.
LEMMA LinkStopSent ==
    ASSUME LinkInv, StopSent
    PROVE  ~mixed' /\ NoSpuriousFailure' /\ \E g : Linked(g)'
<1>1. OwnInv /\ popen /\ prover \in Provers /\ prover.stage = "stop" /\ prover.todo = <<>> /\ fault' = fault /\ ~mixed
      /\ verifier' = verifier /\ vopen' = vopen /\ mixed' = mixed /\ p2v' = p2v /\ v2p' = v2p /\ NoSpuriousFailure
  BY StageOpen DEF LinkInv, StopSent, At, InRound, HsStages, NetUnchanged
<1>2. PICK g : Linked(g)
  BY DEF LinkInv
<1>3. /\ popen' = FALSE /\ prover'.stage = "idle" /\ prover'.ok /\ prover'.session = prover.session
  BY DEF StopSent, EndRound, ProverIdle
<1>4. /\ prover.session = prover.ticket /\ (prover.psk_circuit => prover.ticket = NoPsk)
  BY <1>1 DEF OwnInv, Own, OwnTicket
<1>5. NoSpuriousFailure' /\ \E h : Linked(h)'
  BY <1>1, <1>2, <1>3, <1>4, LinkProverEnds
<1> QED
  BY <1>1, <1>5

-----------------------------------------------------------------------------
(* During the handshake *)

LEMMA FollowsHandshake ==
    ASSUME NEW p \in Provers, NEW f, NEW q, NEW k, NEW v, NEW po, NEW r, NEW S, NEW T, NEW W \in Scripts, NEW a,
           p.stage \in HsStages, q.stage \in HsStages, q.psk_circuit = p.psk_circuit, q.resuming = p.resuming,
           p.stage \notin Hello => q.stage \notin Hello /\ q.reused = p.reused, a \notin PskHeaders,
           \A e \in Expects : e.is_resumption_run = p.resuming /\ (q.stage \notin Hello => e.resumed_handshake = q.reused)
                              /\ (p.offer # NoPsk => e.psk_shares = p.offer)
                     => Point(p, <<>>, e, "A") = W \o Point(q, T, e, "A"),
           Walk(p, v, <<>>) => Walk(q, v, T)
    PROVE  Follows(p, f, q, k, v, po, r, S, T, W, a)
<1> SUFFICES ASSUME NEW U \in Scripts, NEW ph, Meets(p, v, f, po, r, <<>>, <<>>, U, "none", ph)
             PROVE  Meets(q, v, k, po, r, S, T, U \o W, a, ph)
  BY DEF Follows
<1>1. /\ v \in Verifiers /\ ph \in {"A", "B", "C"} /\ Agrees(p, v, <<>>, ph, v.todo, U)
      /\ Phase(p, v, <<>>, U, "none", ph) /\ Walk(p, v, <<>>) /\ Latches(p, v, "none", f) /\ Shares(p, v, po, r, ph)
  BY DEF Meets
<1>2. p.stage # "stop" /\ q.stage # "stop"
  BY DEF HsStages
<1>3. ph = "A" /\ v.state \in HsStates /\ p.psk_circuit
  BY <1>1, <1>2 DEF Phase, PskHeaders
<1>4. Phase(q, v, S, U \o W, a, ph)
  BY <1>2, <1>3 DEF Phase
<1>5. Futures(q, v) \subseteq Futures(p, v)
  BY DEF Futures
<1>6. \A e \in Futures(q, v) : Point(p, <<>>, e, ph) = W \o Point(q, T, e, ph)
  <2> SUFFICES ASSUME NEW e \in Futures(q, v) PROVE Point(p, <<>>, e, "A") = W \o Point(q, T, e, "A")
    BY <1>3
  <2>1. e \in Expects /\ e.is_resumption_run = q.resuming /\ e.psk_shares = v.psk_shares
        /\ (q.stage \notin Hello => e.resumed_handshake = q.reused)
    BY DEF Futures
  <2>2. p.offer # NoPsk => p.offer = v.psk_shares
    BY <1>1 DEF Walk
  <2>3. p.offer # NoPsk => e.psk_shares = p.offer
    BY <2>1, <2>2
  <2> QED
    BY <2>1, <2>3
<1>7. Agrees(q, v, T, ph, v.todo, U \o W)
  BY <1>1, <1>5, <1>6, AgreesNext
<1>8. Latches(q, v, a, k)
  BY <1>1 DEF Latches, HsStages
<1>9. Shares(q, v, po, r, ph)
  BY <1>1, <1>2, <1>3 DEF Shares
<1> QED
  BY <1>1, <1>4, <1>7, <1>8, <1>9 DEF Meets

\* A prover that has run its script to the Finished has offered its ticket.
LEMMA FinishedQuiet ==
    ASSUME LinkInv, popen, prover.stage = "finished", prover.todo = <<>>
    PROVE  ~Stray(prover)
<1>1. PICK g : Linked(g)
  BY DEF LinkInv
<1>2. g = prover
  BY <1>1 DEF Linked
<1>3. Together(prover, verifier, fault, popen, round, p2v, v2p) \/ Heard(prover, fault, p2v, v2p)
  BY <1>1, <1>2 DEF Linked, Lost
<1>4. PICK P, T, V : Speaks(prover, fault, p2v, v2p, P, T, V)
  BY <1>3 DEF Together, Talk, Heard
<1> QED
  BY <1>4, Quiet

LEMMA LinkFinished ==
    ASSUME LinkInv, OwnInv', Finished
    PROVE  ~mixed' /\ NoSpuriousFailure' /\ \E g : Linked(g)'
<1>1. OwnInv /\ popen /\ prover \in Provers /\ prover.stage = "finished" /\ prover.todo = <<>>
      /\ NetUnchanged /\ fault' = fault /\ popen' = popen /\ prover' \in Provers
  <2>1. prover' \in Provers
    BY DEF OwnInv, PTypes
  <2> QED
    BY <2>1, StageOpen DEF LinkInv, Finished, At, InRound, HsStages
<1>2. PICK t : t = derive_traffic_keys \o derive_gcm_shares \o derive_resumption_keys
  OBVIOUS
<1>3. prover' = [prover EXCEPT !.stage = "established", !.todo = t]
  BY <1>2 DEF Finished, Start
<1>4. /\ prover'.stage = "established" /\ prover'.todo = t /\ prover'.offer = prover.offer
      /\ prover'.resuming = prover.resuming /\ prover'.reused = prover.reused
      /\ prover'.psk_circuit = prover.psk_circuit
  BY <1>1, <1>3 DEF Provers
<1>5. ~Stray(prover) /\ ~Stray(prover')
  <2>1. ~Stray(prover)
    BY <1>1, FinishedQuiet
  <2> QED
    BY <1>4, <2>1 DEF Stray
<1>6. Dual(Says(prover', fault'), t, Establish) /\ t \in Scripts /\ Establish \in Scripts
  <2>1. Dual(Says(prover', fault'), t, Establish)
    BY <1>2, TalkEstablish
  <2> QED
    BY <2>1, MatchTypes DEF Dual
<1>7. "none" \in Ops /\ Pend("none", "none") = <<>>
  <2>1. "none" \in Ops
    BY NoneIn
  <2> QED
    BY <2>1, PendTypes
<1>8. Opens(prover, fault, prover', fault', t, <<>>, Establish, "none", "none")
  <2>1. Says(prover, fault) \subseteq Says(prover', fault')
    <3>1. /\ fault => fault'
          /\ prover'.resuming = prover.resuming /\ prover'.reused = prover.reused
          /\ prover.stage \notin Hello => prover'.stage \notin Hello
          /\ ~prover.psk_circuit => ~prover'.psk_circuit
      BY <1>1, <1>4 DEF Hello
    <3> QED
      BY ONLY <3>1, SaysMore
  <2>2. Establish \o Pend("none", "none") = Establish /\ t \o <<>> = t /\ <<>> \in Scripts
    BY <1>6, <1>7, Nil
  <2>3. Parts(prover', t, <<>>)
    BY <1>4, <2>2 DEF Parts
  <2>4. Dual(Says(prover', fault'), t, Establish \o Pend("none", "none"))
    BY <1>6, <2>2
  <2>5. Pending(prover', "none", "none")
    BY <1>4 DEF Pending
  <2> QED
    BY <1>1, <1>4, <1>5, <1>6, <1>7, <2>1, <2>2, <2>3, <2>4, <2>5 DEF Opens
<1>9. Follows(prover, fault, prover', fault', verifier, popen, round, t, <<>>, Establish, "none")
  <2>1. \A e \in Expects : Point(prover, <<>>, e, "A") = Establish \o Point(prover', <<>>, e, "A")
    <3> SUFFICES ASSUME NEW e \in Expects PROVE Point(prover, <<>>, e, "A") = Establish \o Point(prover', <<>>, e, "A")
      OBVIOUS
    <3>1. From_DERIVE_TS = Establish \o Serve
      BY Points DEF Expects
    <3>2. Point(prover, <<>>, e, "A") = From_DERIVE_TS
      BY <1>1, <1>5 DEF Point
    <3>3. Point(prover', <<>>, e, "A") = Serve
      BY <1>4 DEF Point
    <3> QED
      BY <3>1, <3>2, <3>3
  <2>2. Walk(prover, verifier, <<>>) => Walk(prover', verifier, <<>>)
    BY <1>1, <1>4, <1>5 DEF Walk, Hello, HsStages
  <2>3. "none" \notin PskHeaders /\ prover.stage \in HsStages /\ prover'.stage \in HsStages /\ prover'.stage \notin Hello
    BY <1>1, <1>4 DEF PskHeaders, HsStages, Hello
  <2> QED
    BY <1>1, <1>4, <1>6, <2>1, <2>2, <2>3, FollowsHandshake
<1>10. prover'.stage \in InRound /\ prover.stage # "psk"
  BY <1>1, <1>4 DEF InRound, HsStages
<1> QED
  BY <1>1, <1>8, <1>9, <1>10, LinkOpens

\* The origin answers, and takes the ticket or does not.
LEMMA LinkServerHello ==
    ASSUME LinkInv, OwnInv', ServerHello
    PROVE  ~mixed' /\ NoSpuriousFailure' /\ \E g : Linked(g)'
<1>1. OwnInv /\ popen /\ prover \in Provers /\ prover.stage = "server_hello" /\ prover.todo = <<>>
      /\ NetUnchanged /\ popen' = popen /\ prover' \in Provers
  <2>1. prover' \in Provers
    BY DEF OwnInv, PTypes
  <2> QED
    BY <2>1, StageOpen DEF LinkInv, ServerHello, At, InRound, HsStages
<1>2. PICK reused \in IF prover.offer # NoPsk /\ ~mixed THEN BOOLEAN ELSE {FALSE} :
        /\ prover' = [prover EXCEPT
              !.stage = "finished", !.reused = reused,
              !.todo = send_received_key_shares \o derive_handshake_secret(reused)
                       \o derive_handshake_keys(prover, reused)
                       \o (IF reused THEN combine_handshake_secret_shares ELSE commit_to_server_certificate)]
        /\ fault' = (fault \/ (prover.resuming /\ ~reused))
  BY DEF ServerHello
<1>3. PICK t : t = send_received_key_shares \o derive_handshake_secret(reused)
                   \o derive_handshake_keys(prover, reused)
                   \o (IF reused THEN combine_handshake_secret_shares ELSE commit_to_server_certificate)
  OBVIOUS
<1>4. /\ prover'.stage = "finished" /\ prover'.todo = t /\ prover'.offer = prover.offer /\ prover'.reused = reused
      /\ prover'.resuming = prover.resuming /\ prover'.psk_circuit = prover.psk_circuit
  BY <1>1, <1>2, <1>3 DEF Provers
<1>5. /\ reused \in BOOLEAN /\ (reused => prover.offer # NoPsk) /\ (fault => fault')
      /\ (prover.resuming /\ ~reused => fault')
  BY <1>2
<1>6. Stray(prover') = Stray(prover) /\ (Stray(prover') => fault')
  BY <1>4, <1>5 DEF Stray
<1>7. Rest(prover') \in Scripts /\ Rest(prover') # <<>> /\ t = send_received_key_shares \o Rest(prover')
  <2>1. Rest(prover') \in Scripts /\ Rest(prover') # <<>>
    BY <1>1, RestTypes, RestNotEmpty
  <2>2. PICK b, c, d : /\ b = derive_handshake_secret(reused) /\ c = derive_handshake_keys(prover, reused)
                       /\ d = IF reused THEN combine_handshake_secret_shares ELSE commit_to_server_certificate
    OBVIOUS
  <2>3. send_received_key_shares \in Scripts /\ b \in Scripts /\ c \in Scripts /\ d \in Scripts
    <3>1. prover.offer \in Int
      BY <1>1, RoundPsks DEF Provers
    <3> QED
      BY <1>5, <2>2, <3>1, CallbackTypes, CallbackChoices
  <2>4. Rest(prover') = (b \o c) \o d
    BY <1>4, <2>2, Zenon DEF Rest, derive_handshake_keys
  <2>5. t = ((send_received_key_shares \o b) \o c) \o d
    BY <1>3, <2>2, Zenon
  <2>6. (send_received_key_shares \o b) \o c = send_received_key_shares \o (b \o c) /\ b \o c \in Scripts
    <3>1. b \o c \in Scripts
      BY ONLY <2>3, Cat
    <3>2. PICK s : s = send_received_key_shares
      OBVIOUS
    <3>3. s \in Scripts /\ b \in Scripts /\ c \in Scripts
      BY ONLY <2>3, <3>2
    <3>4. (s \o b) \o c = s \o (b \o c)
      BY ONLY <3>3, Assoc3
    <3> QED
      BY ONLY <3>1, <3>2, <3>4
  <2>7. (send_received_key_shares \o (b \o c)) \o d = send_received_key_shares \o ((b \o c) \o d)
    <3>1. PICK s, u : s = send_received_key_shares /\ u = b \o c
      OBVIOUS
    <3>2. s \in Scripts /\ u \in Scripts /\ d \in Scripts
      BY ONLY <2>3, <2>6, <3>1
    <3>3. (s \o u) \o d = s \o (u \o d)
      BY ONLY <3>2, Assoc3
    <3> QED
      BY ONLY <3>1, <3>3
  <2> QED
    BY <2>1, <2>4, <2>5, <2>6, <2>7
<1>8. Says(prover, fault) \subseteq Says(prover', fault')
  <2>1. /\ fault => fault'
        /\ prover'.resuming = prover.resuming /\ prover.stage \in Hello
        /\ prover.stage \notin Hello => prover'.stage \notin Hello
        /\ ~prover.psk_circuit => ~prover'.psk_circuit
    BY <1>1, <1>4, <1>5 DEF Hello
  <2> QED
    BY ONLY <2>1, SaysMore
<1>9. /\ prover'.stage \in InRound /\ prover.stage # "psk" /\ prover.stage \in HsStages /\ prover'.stage \in HsStages
      /\ prover.stage \in Hello /\ "none" \in Ops
  BY <1>1, <1>4, NoneIn DEF InRound, HsStages, Hello
<1>10. CASE ~Stray(prover')
  <2>1. PICK W : W = read_sks_keyshare \o write_hs_recv
    OBVIOUS
  <2>2. Dual(Says(prover', fault'), send_received_key_shares, W)
    BY <2>1, TalkShares
  <2>3. send_received_key_shares \in Scripts /\ W \in Scripts
    BY <2>2, MatchTypes DEF Dual
  <2>4. W \o Pend("none", "none") = W
    BY <1>9, <2>3, PendTypes, Nil
  <2>5. Opens(prover, fault, prover', fault', send_received_key_shares, Rest(prover'), W, "none", "none")
    <3>1. send_received_key_shares # <<>>
      BY DEF send_received_key_shares
    <3>2. Parts(prover', send_received_key_shares, Rest(prover'))
      BY <1>4, <1>7, <1>10, <3>1 DEF Parts
    <3>3. Pending(prover', "none", "none")
      BY <1>10 DEF Pending
    <3>4. Dual(Says(prover', fault'), send_received_key_shares, W \o Pend("none", "none"))
      BY <2>2, <2>4
    <3> QED
      BY <1>1, <1>4, <1>7, <1>8, <1>9, <1>10, <2>3, <3>2, <3>3, <3>4 DEF Opens
  <2>6. Follows(prover, fault, prover', fault', verifier, popen, round, send_received_key_shares, Rest(prover'), W, "none")
    <3>1. \A e \in Expects : Point(prover, <<>>, e, "A") = W \o Point(prover', Rest(prover'), e, "A")
      <4> SUFFICES ASSUME NEW e \in Expects
                   PROVE  Point(prover, <<>>, e, "A") = W \o Point(prover', Rest(prover'), e, "A")
        OBVIOUS
      <4>1. From_READING_SKS(e) = W \o From_ECTF_WAIT(e)
        BY <2>1, Points DEF Expects
      <4>2. Point(prover, <<>>, e, "A") = From_READING_SKS(e)
        BY <1>1, <1>6, <1>10 DEF Point
      <4>3. Point(prover', Rest(prover'), e, "A") = From_ECTF_WAIT(e)
        BY <1>4, <1>7, <1>10 DEF Point
      <4> QED
        BY <4>1, <4>2, <4>3
    <3>2. Walk(prover, verifier, <<>>) => Walk(prover', verifier, Rest(prover'))
      BY <1>1, <1>4, <1>6, <1>7, <1>9, <1>10 DEF Walk, Hello, EarlyStates
    <3>3. "none" \notin PskHeaders
      BY DEF PskHeaders
    <3> QED
      BY <1>1, <1>4, <1>9, <2>3, <3>1, <3>2, <3>3, FollowsHandshake
  <2> QED
    BY <1>1, <1>5, <1>9, <2>5, <2>6, LinkOpens
<1>11. CASE Stray(prover')
  <2>1. PICK S, T : S = <<Send("SERVER_KEY_SHARE")>> /\ T = <<Recv({"HS_RECV"})>> \o Rest(prover')
    OBVIOUS
  <2>2. "SERVER_KEY_SHARE" \in Ops /\ "SERVER_KEY_SHARE" \in Words /\ {"SERVER_KEY_SHARE"} \subseteq Words
        /\ "HS_RECV" \in Words /\ {"HS_RECV"} \subseteq Words /\ "SERVER_KEY_SHARE" \notin PskHeaders
    BY DEF Ops, OpHeaders, Words, PskHeaders
  <2>3. S \in Scripts /\ <<Recv({"HS_RECV"})>> \in Scripts /\ <<Recv({"SERVER_KEY_SHARE"})>> \in Scripts
    BY <2>1, <2>2, OneHeader
  <2>4. T \in Scripts
    BY <1>7, <2>1, <2>3, Cat
  <2>5. Pend("SERVER_KEY_SHARE", "none") = <<Recv({"SERVER_KEY_SHARE"})>>
    <3>1. Pend("SERVER_KEY_SHARE", "none") = VOp("SERVER_KEY_SHARE")
      BY <1>9, <2>2, PendTypes
    <3>2. VOp("SERVER_KEY_SHARE") = <<Recv({"SERVER_KEY_SHARE"})>> \o <<>>
      BY OpBodies DEF VOp
    <3> QED
      BY <2>3, <3>1, <3>2, Nil
  <2>6. Opens(prover, fault, prover', fault', S, T, <<>>, "SERVER_KEY_SHARE", "none")
    <3>1. send_received_key_shares = S \o <<Recv({"HS_RECV"})>>
      <4>1. Send("SERVER_KEY_SHARE") \in Instrs /\ Recv({"HS_RECV"}) \in Instrs
        BY <2>2, HeaderTypes, RecvTypes
      <4> QED
        BY <2>1, <4>1, PairOf DEF send_received_key_shares
    <3>2. t = S \o T
      BY <1>7, <2>1, <2>3, <3>1, Assoc3
    <3>3. Parts(prover', S, T)
      BY <1>4, <1>11, <2>1, <3>2 DEF Parts
    <3>4. Pending(prover', "SERVER_KEY_SHARE", "none")
      BY <1>4, <1>11 DEF Pending
    <3>5. Dual(Says(prover', fault'), S, <<>> \o Pend("SERVER_KEY_SHARE", "none")) /\ <<>> \in Scripts
      BY <2>1, <2>3, <2>5, Nil, TalkShares
    <3> QED
      BY <1>1, <1>4, <1>6, <1>8, <1>9, <1>11, <2>2, <2>4, <3>3, <3>4, <3>5 DEF Opens
  <2>7. Follows(prover, fault, prover', fault', verifier, popen, round, S, T, <<>>, "SERVER_KEY_SHARE")
    <3>1. \A e \in Expects : Point(prover, <<>>, e, "A") = <<>> \o Point(prover', T, e, "A")
      <4> SUFFICES ASSUME NEW e \in Expects
                   PROVE  Point(prover, <<>>, e, "A") = <<>> \o Point(prover', T, e, "A")
        OBVIOUS
      <4>1. Point(prover, <<>>, e, "A") = From_PSK_BINDER(e)
        BY <1>1, <1>6, <1>11 DEF Point
      <4>2. Point(prover', T, e, "A") = From_PSK_BINDER(e)
        BY <1>4, <1>11 DEF Point
      <4>3. From_PSK_BINDER(e) \in Scripts
        BY FromTypes DEF Expects
      <4> QED
        BY <4>1, <4>2, <4>3, Nil
    <3>2. Walk(prover, verifier, <<>>) => Walk(prover', verifier, T)
      BY <1>1, <1>4, <1>6, <1>9, <1>11 DEF Walk, Hello, EarlyStates
    <3>3. <<>> \in Scripts
      BY Nil
    <3> QED
      BY <1>1, <1>4, <1>9, <2>2, <3>1, <3>2, <3>3, FollowsHandshake
  <2> QED
    BY <1>1, <1>5, <1>9, <2>6, <2>7, LinkOpens
<1> QED
  BY <1>10, <1>11

\* The ClientHello is on its way: q is the prover after it, with the ticket or
\* without.
LEMMA LinkHello ==
    ASSUME LinkInv, OwnInv', popen, popen' = popen, NetUnchanged, fault => fault', prover.todo = <<>>,
           prover.stage = "hello", prover'.stage = "server_hello", prover'.resuming = prover.resuming,
           prover'.psk_circuit = prover.psk_circuit, prover'.offer = prover.offer \/ prover'.offer = NoPsk,
           Stray(prover') => fault', NEW W, Dual(Says(prover', fault'), prover'.todo, W),
           \A e \in Expects : e.is_resumption_run = prover.resuming /\ (prover.offer # NoPsk => e.psk_shares = prover.offer)
                                => Point(prover, <<>>, e, "A") = W \o Point(prover', <<>>, e, "A")
    PROVE  ~mixed' /\ NoSpuriousFailure' /\ \E g : Linked(g)'
<1>1. prover \in Provers /\ prover' \in Provers
  BY DEF LinkInv, OwnInv, PTypes
<1>2. prover'.todo \in Scripts /\ W \in Scripts
  BY MatchTypes DEF Dual
<1>3. "none" \in Ops /\ Pend("none", "none") = <<>>
  <2>1. "none" \in Ops
    BY NoneIn
  <2> QED
    BY <2>1, PendTypes
<1>4. Opens(prover, fault, prover', fault', prover'.todo, <<>>, W, "none", "none")
  <2>1. Says(prover, fault) \subseteq Says(prover', fault')
    <3>1. /\ fault => fault'
          /\ prover'.resuming = prover.resuming /\ prover.stage \in Hello
          /\ prover.stage \notin Hello => prover'.stage \notin Hello
          /\ ~prover.psk_circuit => ~prover'.psk_circuit
      BY DEF Hello
    <3> QED
      BY ONLY <3>1, SaysMore
  <2>2. W \o Pend("none", "none") = W /\ prover'.todo \o <<>> = prover'.todo /\ <<>> \in Scripts
    BY <1>2, <1>3, Nil
  <2>3. Parts(prover', prover'.todo, <<>>)
    BY <2>2 DEF Parts
  <2>4. Dual(Says(prover', fault'), prover'.todo, W \o Pend("none", "none"))
    BY <2>2
  <2>5. Pending(prover', "none", "none")
    BY DEF Pending
  <2> QED
    BY <1>1, <1>2, <1>3, <2>1, <2>2, <2>3, <2>4, <2>5 DEF Opens
<1>5. Follows(prover, fault, prover', fault', verifier, popen, round, prover'.todo, <<>>, W, "none")
  <2>1. Walk(prover, verifier, <<>>) => Walk(prover', verifier, <<>>)
    BY DEF Walk, Hello, HsStages, EarlyStates
  <2>2. "none" \notin PskHeaders /\ prover.stage \in HsStages /\ prover'.stage \in HsStages /\ prover.stage \in Hello
    BY DEF PskHeaders, HsStages, Hello
  <2>3. \A e \in Expects : e.is_resumption_run = prover.resuming
                              /\ (prover'.stage \notin Hello => e.resumed_handshake = prover'.reused)
                              /\ (prover.offer # NoPsk => e.psk_shares = prover.offer)
                     => Point(prover, <<>>, e, "A") = W \o Point(prover', <<>>, e, "A")
    OBVIOUS
  <2> QED
    BY <1>1, <1>2, <2>1, <2>2, <2>3, FollowsHandshake
<1>6. prover'.stage \in InRound /\ prover.stage # "psk"
  BY DEF InRound, HsStages
<1> QED
  BY <1>4, <1>5, <1>6, LinkOpens

LEMMA LinkClientHello ==
    ASSUME Offline = TRUE, LinkInv, OwnInv', ClientHello
    PROVE  ~mixed' /\ NoSpuriousFailure' /\ \E g : Linked(g)'
<1>1. OwnInv /\ popen /\ prover \in Provers /\ prover.stage = "hello" /\ prover.todo = <<>>
      /\ NetUnchanged /\ popen' = popen
  BY StageOpen DEF LinkInv, ClientHello, At, InRound, HsStages
<1>2. PICK offered \in IF prover.resuming THEN BOOLEAN ELSE {FALSE} :
        /\ prover' = [prover EXCEPT
              !.stage = "server_hello", !.offer = IF offered THEN prover.offer ELSE NoPsk,
              !.todo = three_party_handshake_comm \o (IF offered THEN derive_binder(prover) ELSE <<>>)]
        /\ fault' = (fault \/ (prover.resuming /\ ~offered))
  BY DEF ClientHello
<1>3. /\ prover'.stage = "server_hello" /\ prover'.offer = (IF offered THEN prover.offer ELSE NoPsk)
      /\ prover'.todo = three_party_handshake_comm \o (IF offered THEN derive_binder(prover) ELSE <<>>)
      /\ prover'.resuming = prover.resuming /\ prover'.psk_circuit = prover.psk_circuit
  BY <1>1, <1>2 DEF Provers
<1>4. /\ offered \in BOOLEAN /\ (offered => prover.resuming) /\ (fault => fault')
      /\ (prover.resuming /\ ~offered => fault') /\ (prover.resuming => prover.offer # NoPsk)
  BY <1>1, <1>2 DEF OwnInv, Own, OwnTicket
<1>5. Stray(prover') <=> prover.resuming /\ ~offered
  BY <1>3, <1>4 DEF Stray
<1>6. Stray(prover') => fault'
  BY <1>4, <1>5
<1>7. prover'.offer = prover.offer \/ prover'.offer = NoPsk
  BY <1>3
<1>8. PICK K : K = read_keyshare_after_handshake \o send_additive_share
  OBVIOUS
<1>9. Dual(Says(prover', fault'), three_party_handshake_comm, K)
  BY <1>8, TalkCollect
<1>10. three_party_handshake_comm \in Scripts /\ K \in Scripts
  BY <1>9, MatchTypes DEF Dual
<1>11. \A e \in Expects : /\ Point(prover, <<>>, e, "A") = K \o From_PSK_BINDER(e)
                          /\ From_PSK_BINDER(e) = do_psk_binder(e) \o From_READING_SKS(e)
                          /\ From_PSK_BINDER(e) \in Scripts /\ From_READING_SKS(e) \in Scripts
  <2> SUFFICES ASSUME NEW e \in Expects
               PROVE  /\ Point(prover, <<>>, e, "A") = K \o From_PSK_BINDER(e)
                      /\ From_PSK_BINDER(e) = do_psk_binder(e) \o From_READING_SKS(e)
                      /\ From_PSK_BINDER(e) \in Scripts /\ From_READING_SKS(e) \in Scripts
    OBVIOUS
  <2>1. e.psk_shares \in Int
    BY DEF Expects
  <2>2. Point(prover, <<>>, e, "A") = From_READING_KS(e)
    BY <1>1 DEF Point
  <2>3. /\ From_READING_KS(e) = K \o From_PSK_BINDER(e)
        /\ From_PSK_BINDER(e) = do_psk_binder(e) \o From_READING_SKS(e)
    BY <1>8, <2>1, Points
  <2> QED
    BY <2>1, <2>2, <2>3, FromTypes
<1>12. CASE offered
  <2>1. PICK B : B = <<Recv({"DERIVE_BINDER"})>> \o Circuit("binder", prover.offer)
    OBVIOUS
  <2>2. Dual(Says(prover', fault'), derive_binder(prover), B)
    <3>1. prover'.offer = prover.offer /\ prover'.offer \in Int
      BY <1>1, <1>3, <1>12, RoundPsks DEF Provers
    <3>2. Dual(Says(prover', fault'), derive_binder(prover'), B)
      BY <2>1, <3>1, TalkBinder
    <3>3. derive_binder(prover') = derive_binder(prover)
      BY <3>1 DEF derive_binder
    <3> QED
      BY <3>2, <3>3
  <2>3. B \in Scripts
    BY <2>2, MatchTypes DEF Dual
  <2>4. Dual(Says(prover', fault'), prover'.todo, K \o B)
    BY <1>3, <1>9, <1>12, <2>2, DualConcat
  <2>5. ASSUME NEW e \in Expects, e.is_resumption_run = prover.resuming, prover.offer # NoPsk => e.psk_shares = prover.offer
        PROVE  Point(prover, <<>>, e, "A") = (K \o B) \o Point(prover', <<>>, e, "A")
    <3>1. do_psk_binder(e) = B
      BY <1>4, <1>12, <2>1, <2>5 DEF do_psk_binder
    <3>2. Point(prover', <<>>, e, "A") = From_READING_SKS(e)
      BY <1>3, <1>5, <1>12 DEF Point
    <3>3. (K \o B) \o From_READING_SKS(e) = K \o (B \o From_READING_SKS(e))
      BY <1>10, <1>11, <2>3, Assoc3
    <3> QED
      BY <1>11, <3>1, <3>2, <3>3
  <2> QED
    BY <1>1, <1>3, <1>4, <1>6, <1>7, <2>4, <2>5, LinkHello
<1>13. CASE ~offered
  <2>1. Dual(Says(prover', fault'), prover'.todo, K)
    BY <1>3, <1>9, <1>10, <1>13, Nil
  <2>2. ASSUME NEW e \in Expects, e.is_resumption_run = prover.resuming
        PROVE  Point(prover, <<>>, e, "A") = K \o Point(prover', <<>>, e, "A")
    <3>1. CASE prover.resuming
      <4>1. Point(prover', <<>>, e, "A") = From_PSK_BINDER(e)
        BY <1>3, <1>5, <1>13, <3>1 DEF Point
      <4> QED
        BY <1>11, <4>1
    <3>2. CASE ~prover.resuming
      <4>1. Point(prover', <<>>, e, "A") = From_READING_SKS(e)
        BY <1>3, <1>5, <3>2 DEF Point
      <4>2. do_psk_binder(e) = <<>>
        BY <2>2, <3>2 DEF do_psk_binder
      <4>3. From_PSK_BINDER(e) = From_READING_SKS(e)
        BY <1>11, <4>2, Nil
      <4> QED
        BY <1>11, <4>1, <4>3
    <3> QED
      BY <3>1, <3>2
  <2> QED
    BY <1>1, <1>3, <1>4, <1>6, <1>7, <2>1, <2>2, LinkHello
<1> QED
  BY <1>4, <1>12, <1>13

-----------------------------------------------------------------------------
(* Between the rounds *)

\* With its end closed the prover can only begin another round, or leave.
LEMMA LinkAway ==
    ASSUME LinkInv, popen = FALSE, popen' = FALSE, verifier' = verifier, vopen' = vopen, mixed' = mixed, p2v' = p2v,
           v2p' = v2p, fault => fault', prover.stage # "quit",
           prover'.stage \in {"idle", "connect"} /\ prover'.session # NoPsk =>
              prover.stage \in {"idle", "connect"} /\ prover.session = prover'.session,
           prover'.stage = "idle" /\ round' > 0 /\ ~prover'.ok => fault'
    PROVE  ~mixed' /\ NoSpuriousFailure' /\ \E g : Linked(g)'
<1>1. PICK g : Linked(g)
  BY DEF LinkInv
<1>2. ~mixed' /\ NoSpuriousFailure'
  BY DEF LinkInv, NoSpuriousFailure
<1>3. vopen => Together(g, verifier', fault', popen', round', p2v', v2p')
  <2> SUFFICES ASSUME vopen PROVE Together(g, verifier', fault', popen', round', p2v', v2p')
    OBVIOUS
  <2>1. Together(g, verifier, fault, popen, round, p2v, v2p)
    BY <1>1 DEF Linked
  <2>2. Together(g, verifier, fault', FALSE, round', p2v, v2p)
    BY <2>1, TogetherClosed
  <2> QED
    BY <2>2
<1>4. vopen /\ ~fault' => g.stage = "stop" /\ g.todo = <<>>
  BY <1>1 DEF Linked
<1>5. vopen => ~(g.stage = "finished" /\ Stray(g))
  BY <1>1 DEF Linked
<1>6. prover'.stage \in {"idle", "connect"} /\ prover'.session # NoPsk =>
         \/ verifier.state = "EXITED"
         \/ verifier.state \in {"DONE", "ACCEPT"} /\ verifier.psk_shares = prover'.session
         \/ vopen /\ g.stage = "stop" /\ ~g.psk_circuit /\ g.ticket = prover'.session
  BY <1>1 DEF Linked
<1>7. Linked(g)'
  BY <1>3, <1>4, <1>5, <1>6 DEF Linked
<1> QED
  BY <1>2, <1>7

LEMMA LinkBetween ==
    ASSUME LinkInv, StartRound \/ Quit \/ ConnectFails
    PROVE  ~mixed' /\ NoSpuriousFailure' /\ \E g : Linked(g)'
<1>1. prover.stage \in {"idle", "connect"} /\ OwnInv /\ NoSpuriousFailure /\ prover \in Provers
  BY DEF LinkInv, StartRound, Quit, ConnectFails, OwnInv, PTypes
<1>2. popen = FALSE /\ round \in Nat
  BY <1>1 DEF OwnInv, Own, OwnStage, PTypes, InRound, HsStages
<1>3. /\ verifier' = verifier /\ vopen' = vopen /\ mixed' = mixed /\ p2v' = p2v /\ v2p' = v2p /\ fault' = fault
  BY DEF StartRound, Quit, ConnectFails
<1>4. CASE StartRound
  <2>1. popen' = FALSE /\ prover'.stage = "connect" /\ prover'.session = prover.session
    BY <1>2, <1>4 DEF StartRound, ProverIdle
  <2> QED
    BY <1>1, <1>2, <1>3, <2>1, LinkAway
<1>5. CASE Quit
  <2>1. popen' = FALSE /\ prover'.stage = "quit"
    BY <1>1, <1>2, <1>5 DEF Quit, Provers
  <2> QED
    BY <1>1, <1>2, <1>3, <2>1, LinkAway
<1>6. CASE ConnectFails
  <2>1. popen' = FALSE /\ prover'.stage = "idle" /\ prover'.session = NoPsk
    BY <1>6 DEF ConnectFails, EndRound, ProverIdle
  <2>2. fault
    BY <1>1, <1>6 DEF ConnectFails, NoSpuriousFailure
  <2> QED
    BY <1>1, <1>2, <1>3, <2>1, <2>2, LinkAway
<1> QED
  BY <1>4, <1>5, <1>6

LEMMA LinkProverCrash ==
    ASSUME LinkInv, ProverCrash
    PROVE  ~mixed' /\ NoSpuriousFailure' /\ \E g : Linked(g)'
<1>1. OwnInv /\ NoSpuriousFailure /\ prover \in Provers /\ popen \in BOOLEAN /\ ~mixed /\ prover.stage # "quit"
  BY DEF LinkInv, ProverCrash, OwnInv, PTypes
<1>2. /\ verifier' = verifier /\ vopen' = vopen /\ mixed' = mixed /\ p2v' = p2v /\ v2p' = v2p /\ fault' /\ popen' = FALSE
      /\ round' = round
  BY DEF ProverCrash
<1>3. /\ prover'.stage = "quit" /\ prover'.resuming = prover.resuming /\ prover'.offer = prover.offer
  BY <1>1 DEF ProverCrash, Provers
<1>4. Stray(prover') = Stray(prover)
  BY <1>3 DEF Stray
<1>5. CASE popen
  <2>1. PICK g : Linked(g)
    BY DEF LinkInv
  <2>2. NoSpuriousFailure' /\ \E h : Linked(h)'
    BY <1>1, <1>2, <1>3, <1>4, <1>5, <2>1, LinkProverEnds
  <2> QED
    BY <1>1, <1>2, <2>2
<1>6. CASE popen = FALSE
  BY <1>1, <1>2, <1>3, <1>6, LinkAway
<1> QED
  BY <1>1, <1>5, <1>6

\* The two meet: the ticket, if there is one, is one whose other half the
\* verifier holds.
LEMMA LinkConnect ==
    ASSUME Offline = TRUE, LinkInv, OwnInv', Connect
    PROVE  ~mixed' /\ NoSpuriousFailure' /\ \E g : Linked(g)'
<1>1. /\ OwnInv /\ prover \in Provers /\ prover' \in Provers /\ verifier \in Verifiers /\ verifier' \in Verifiers
      /\ prover.stage = "connect" /\ verifier.state = "ACCEPT" /\ ~mixed /\ prover.session \in Int
  <2>1. prover' \in Provers /\ verifier' \in Verifiers
    BY DEF OwnInv, PTypes, VInv, VTypes
  <2>2. OwnInv /\ prover \in Provers /\ verifier \in Verifiers
    BY DEF LinkInv, OwnInv, PTypes, VInv, VTypes
  <2>3. prover.session \in Int
    BY <2>2, RoundPsks DEF Provers
  <2> QED
    BY <2>1, <2>2, <2>3 DEF LinkInv, Connect
<1>2. /\ ~vopen /\ prover.psk_circuit
  BY <1>1 DEF OwnInv, VInv, VOwn, Away, Own, OwnTicket
<1>3. prover.session # NoPsk => verifier.psk_shares = prover.session
  <2>1. PICK g : Linked(g)
    BY DEF LinkInv
  <2> QED
    BY <1>1, <1>2, <2>1 DEF Linked
<1>4. PICK resuming : resuming = (prover.session # NoPsk)
  OBVIOUS
<1>5. PICK t : t = <<Recv({"DONE_HS"}), Send(IF resuming THEN "RUN_RESUMED" ELSE "RUN_FULL")>> \o preprocess_circuits
  OBVIOUS
<1>6. prover' = [prover EXCEPT !.stage = "hello", !.resuming = resuming, !.offer = prover.session,
                               !.session = NoPsk, !.todo = t]
  BY <1>4, <1>5, Zenon DEF Connect
<1>7. /\ prover'.stage = "hello" /\ prover'.resuming = resuming /\ prover'.offer = prover.session /\ prover'.todo = t
      /\ prover'.psk_circuit = prover.psk_circuit
  BY <1>1, <1>6 DEF Provers
<1>8. /\ verifier'.state = "HANDSHAKE_DONE" /\ verifier'.todo = write_handshake_done
      /\ verifier'.psk_shares = verifier.psk_shares /\ ~verifier'.key_committed /\ ~verifier'.key_released
  BY <1>1 DEF Connect, Enter, ResetLatches, Handler, Verifiers
<1>9. p2v' = <<>> /\ v2p' = <<>> /\ popen' = TRUE /\ vopen' = TRUE /\ round' = round /\ fault' = fault /\ mixed' = mixed
  BY DEF Connect
<1>10. ~Stray(prover')
  BY <1>4, <1>7 DEF Stray
<1>11. PICK q, v : q = prover' /\ v = verifier'
  OBVIOUS
<1>12. PICK U : U = write_handshake_done \o (do_preproc \o read_mask_commitments)
  OBVIOUS
<1>13. "none" \in Ops /\ Pend("none", "none") = <<>>
  <2>1. "none" \in Ops
    BY NoneIn
  <2> QED
    BY <2>1, PendTypes
<1>14. Talk(q, fault, <<>>, <<>>, t, <<>>, U, "none", "none")
  <2>1. q.resuming \in BOOLEAN /\ q.resuming = resuming
    BY <1>1, <1>7, <1>11 DEF Provers
  <2>2. Dual(Says(q, fault), t, U)
    BY <1>5, <1>12, <2>1, TalkHello
  <2>3. t \in Scripts /\ U \in Scripts
    BY <2>2, MatchTypes DEF Dual
  <2>4. U \o Pend("none", "none") = U /\ t \o <<>> = t /\ <<>> \in Scripts
    BY <1>13, <2>3, Nil
  <2>5. Parts(q, t, <<>>)
    BY <1>7, <1>11, <2>4 DEF Parts
  <2>6. Pending(q, "none", "none")
    BY <1>7, <1>11 DEF Pending
  <2>7. Speaks(q, fault, <<>>, <<>>, t, <<>>, U)
    BY <1>1, <1>7, <1>10, <1>11, <2>2, <2>3, <2>4, <2>5 DEF Speaks, Dual
  <2> QED
    BY <1>13, <2>3, <2>4, <2>6, <2>7 DEF Talk
<1>15. ASSUME NEW po, NEW r PROVE Meets(q, v, fault, po, r, t, <<>>, U, "none", "A")
  <2>1. Agrees(q, v, <<>>, "A", v.todo, U)
    <3> SUFFICES ASSUME NEW e \in Futures(q, v) PROVE v.todo \o Rem(v, e, "A") = U \o Point(q, <<>>, e, "A")
      BY DEF Agrees
    <3>1. e.psk_shares \in Int
      BY DEF Futures, Expects
    <3>2. Rem(v, e, "A") = From_CIRCUIT_PREPROC(e)
      BY <1>8, <1>11 DEF Rem, After
    <3>3. Point(q, <<>>, e, "A") = From_READING_KS(e)
      BY <1>7, <1>11 DEF Point
    <3>4. write_handshake_done \o From_CIRCUIT_PREPROC(e) = U \o From_READING_KS(e)
      BY <1>12, <3>1, Points
    <3> QED
      BY <1>8, <1>11, <3>2, <3>3, <3>4
  <2>2. Phase(q, v, t, U, "none", "A")
    <3>1. v.state \in HsStates
      BY <1>8, <1>11, HsStatesAre
    <3> QED
      BY <1>2, <1>7, <1>11, <3>1 DEF Phase, PskHeaders
  <2>3. Walk(q, v, <<>>)
    <3>1. write_handshake_done # <<>>
      BY DEF write_handshake_done
    <3> QED
      BY <1>3, <1>7, <1>8, <1>10, <1>11, <3>1 DEF Walk, Hello, EarlyStates
  <2>4. Latches(q, v, "none", fault)
    BY <1>7, <1>8, <1>11 DEF Latches, HsStages
  <2>5. Shares(q, v, po, r, "A")
    <3>1. Handler("HANDSHAKE_DONE", verifier) = write_handshake_done
      BY DEF Handler
    <3>2. Silent(write_handshake_done)
      BY <1>1, <3>1, HandlerSilent
    <3> QED
      BY <1>7, <1>8, <1>11, <3>2 DEF Shares
  <2> QED
    BY <1>1, <1>11, <2>1, <2>2, <2>3, <2>4, <2>5 DEF Meets
<1>16. Together(q, verifier', fault', popen', round', p2v', v2p')
  BY <1>9, <1>11, <1>14, <1>15, Zenon DEF Together
<1>17. NoSpuriousFailure'
  BY <1>7, <1>8 DEF NoSpuriousFailure
<1>18. Linked(q)'
  BY <1>7, <1>9, <1>11, <1>16 DEF Linked
<1> QED
  BY <1>1, <1>9, <1>17, <1>18

-----------------------------------------------------------------------------
(* All of it together *)

LEMMA LinkInit ==
    ASSUME Init
    PROVE  LinkInv
<1>1. OwnInv
  BY OwnInit
<1>2. PICK psk : /\ prover = [ProverIdle EXCEPT !.session = psk]
                 /\ verifier = [state |-> "ACCEPT", todo |-> <<>>, psk_shares |-> psk,
                                is_resumption_run |-> FALSE, resumed_handshake |-> FALSE,
                                psk_skipped |-> FALSE, key_committed |-> FALSE, key_released |-> FALSE]
  BY DEF Init
<1>3. /\ prover.stage = "idle" /\ prover.session = psk /\ verifier.state = "ACCEPT" /\ verifier.psk_shares = psk
  BY <1>2 DEF ProverIdle
<1>4. ~mixed /\ popen = FALSE /\ vopen = FALSE /\ round = 0
  BY DEF Init
<1>5. NoSpuriousFailure
  BY <1>3, <1>4 DEF NoSpuriousFailure
<1>6. PICK g : g = prover
  OBVIOUS
<1>7. Linked(g)
  BY <1>3, <1>4, <1>6 DEF Linked
<1> QED
  BY <1>1, <1>4, <1>5, <1>7 DEF LinkInv

LEMMA LinkStutter ==
    ASSUME LinkInv, UNCHANGED vars
    PROVE  ~mixed' /\ NoSpuriousFailure' /\ \E g : Linked(g)'
<1>1. PICK g : Linked(g)
  BY DEF LinkInv
<1>2. /\ prover' = prover /\ verifier' = verifier /\ p2v' = p2v /\ v2p' = v2p /\ popen' = popen /\ vopen' = vopen
      /\ round' = round /\ fault' = fault /\ mixed' = mixed
  BY DEF vars
<1>3. Linked(g)'
  BY <1>1, <1>2 DEF Linked
<1>4. ~mixed' /\ NoSpuriousFailure'
  BY <1>2 DEF LinkInv, NoSpuriousFailure
<1> QED
  BY <1>3, <1>4

LEMMA LinkStep ==
    ASSUME Offline = TRUE, LinkInv, [Next]_vars
    PROVE  LinkInv'
<1>1. OwnInv'
  BY OwnStep DEF LinkInv
<1>2. SUFFICES ~mixed' /\ NoSpuriousFailure' /\ \E g : Linked(g)'
  BY <1>1 DEF LinkInv
<1>3. CASE ClientHello
  BY <1>1, <1>3, LinkClientHello
<1>4. CASE Connect
  BY <1>1, <1>4, LinkConnect
<1>5. CASE ServerHello \/ Finished
  BY <1>1, <1>5, LinkServerHello, LinkFinished
<1>6. CASE Established \/ RequestWritten
  BY <1>1, <1>6, LinkEstablished, LinkRequestWritten
<1>7. CASE OpenRecord \/ EndOfStream
  BY <1>1, <1>7, LinkOpenRecord, LinkEndOfStream
<1>8. CASE \E rec \in Records : ReadRecord(rec)
  BY <1>1, <1>8, LinkReadRecord
<1>9. CASE SubmitRecord \/ OpenRecords \/ ReplayRecord
  BY <1>1, <1>9, LinkSubmitRecord, LinkOpenRecords, LinkReplayRecord
<1>10. CASE PskPhase \/ StopSent
  BY <1>1, <1>10, LinkPskPhase, LinkStopSent
<1>11. CASE ProverSend \/ ProverRecv
  BY <1>11, LinkProverSend, LinkProverRecv
<1>12. CASE OriginFails
  BY <1>1, <1>12, LinkOriginFails
<1>13. CASE StartRound \/ Quit \/ ConnectFails
  BY <1>13, LinkBetween
<1>14. CASE ProverCrash
  BY <1>14, LinkProverCrash
<1>15. CASE VerifierStep
  BY <1>15, LinkAdvance, LinkAcceptAgain, LinkVerifierSend, LinkVerifierRecv, LinkVerifierServe DEF VerifierStep
<1>16. CASE AcceptTimesOut \/ VerifierCrash
  BY <1>16, LinkVerifierGone
<1>17. CASE Terminated \/ UNCHANGED vars
  BY <1>17, LinkStutter DEF Terminated
<1> QED
  BY <1>3, <1>4, <1>5, <1>6, <1>7, <1>8, <1>9, <1>10, <1>11, <1>12, <1>13, <1>14, <1>15, <1>16, <1>17
     DEF Next, ProverStep

\* With the circuits preprocessed before the origin is contacted, the two
\* programs are always at corresponding points of one conversation.
LEMMA LinkAlways ==
    ASSUME Offline = TRUE
    PROVE  Spec => []LinkInv
<1>1. Init => LinkInv
  BY LinkInit
<1>2. LinkInv /\ [Next]_vars => LinkInv'
  BY LinkStep
<1> QED
  BY <1>1, <1>2, PTL DEF Spec

\* The prover reads what it waits for.
LEMMA ProverInStep ==
    ASSUME LinkInv, Op(prover, "recv"), v2p # <<>>
    PROVE  Head(v2p).m \in Head(prover.todo).m
<1>1. prover.todo # <<>> /\ Head(prover.todo).op = "recv" /\ OwnInv
  BY DEF Op, LinkInv
<1>2. popen /\ prover \in Provers /\ (prover.reused => prover.offer # NoPsk)
  BY <1>1, ProverOpen
<1>3. PICK g : Linked(g)
  BY DEF LinkInv
<1>4. g = prover
  BY <1>2, <1>3 DEF Linked
<1>5. ~Lost(prover)
  BY <1>1, <1>2, LostMove
<1>6. Together(prover, verifier, fault, popen, round, p2v, v2p) \/ Heard(prover, fault, p2v, v2p)
  BY <1>1, <1>2, <1>3, <1>4, <1>5 DEF Linked
<1>7. PICK P, T, V : Speaks(prover, fault, p2v, v2p, P, T, V)
  BY <1>6 DEF Together, Talk, Heard
<1>8. PICK y2 : y2 = Tail(v2p)
  OBVIOUS
<1>9. Moves(prover, p2v, v2p, p2v, y2)
  BY <1>1, <1>8 DEF Moves
<1>10. Fit(Head(v2p), Head(prover.todo))
  BY <1>1, <1>7, <1>9, SpeaksMove
<1> QED
  BY <1>10 DEF Fit

\* The verifier reads what it waits for, and serves what it gets.
LEMMA VerifierInStep ==
    ASSUME LinkInv, verifier.todo # <<>>, p2v # <<>>, ~Stray(prover)
    PROVE  /\ Head(verifier.todo).op = "recv" => Head(p2v).m \in Head(verifier.todo).m
           /\ Head(verifier.todo).op = "serve" => Served(verifier, Head(p2v))
<1>1. vopen
  BY VerifierBusy DEF LinkInv, OwnInv
<1>2. PICK g : Linked(g)
  BY DEF LinkInv
<1>3. ~(g.stage = "finished" /\ Stray(g))
  BY <1>1, <1>2 DEF Linked
<1>4. Together(g, verifier, fault, popen, round, p2v, v2p)
  BY <1>1, <1>2 DEF Linked
<1>5. PICK P, T, U, a, b, ph : /\ Talk(g, fault, p2v, v2p, P, T, U, a, b)
                               /\ Meets(g, verifier, fault, popen, round, P, T, U, a, ph)
  BY <1>4 DEF Together
<1>6. g \in Provers /\ U \in Scripts /\ a \in Ops /\ b \in Ops /\ Pending(g, a, b)
  BY <1>5, TalkTypes
<1>7. ASSUME Head(verifier.todo).op = "recv" PROVE Head(p2v).m \in Head(verifier.todo).m
  <2>1. CASE U # <<>>
    <3>1. Head(U) = Head(verifier.todo)
      BY <1>5, <1>6, <2>1, MeetHead
    <3>2. Head(U).op # "send"
      BY <1>7, <3>1
    <3>3. Fit(Head(p2v), Head(U))
      BY <1>5, <2>1, <3>2, TalkVerifierReads
    <3> QED
      BY <3>1, <3>3 DEF Fit
  <2>2. CASE U = <<>>
    <3>1. g.stage \in {"hello", "server_hello", "finished"}
      BY <1>5, <1>6, <1>7, <2>2, MeetPoint
    <3>2. a # "none"
      BY <1>5, <2>2, TalkServes
    <3> QED
      BY <1>3, <1>6, <3>1, <3>2 DEF Pending
  <2> QED
    BY <2>1, <2>2
<1>8. ASSUME Head(verifier.todo).op = "serve" PROVE Served(verifier, Head(p2v))
  <2>1. /\ U = <<>> /\ a # "SERVER_KEY_SHARE"
        /\ (ph = "A" /\ verifier.state = "DERIVE_PSK") \/ (ph = "B" /\ verifier.state = "SHUTDOWN")
    BY <1>5, <1>8, ServeHead
  <2>2. a # "none" /\ Head(p2v).m = Hdr(a)
    BY <1>5, <2>1, TalkServes
  <2>3. Phase(g, verifier, P, U, a, ph)
    BY <1>5 DEF Meets
  <2>4. a = "STOP" => g.stage = "stop"
    BY <1>6 DEF Pending, PskHeaders
  <2>5. a \in RecordOps \cup LastHeaders(verifier.state)
    BY <1>6, <2>1, <2>2, <2>3, <2>4 DEF Phase, LastHeaders, Ops, OpHeaders, PskHeaders
  <2>6. Head(p2v).m[1] = "header" /\ Head(p2v).m[2] = a
    BY <2>2 DEF Hdr
  <2> QED
    BY <2>5, <2>6 DEF Served
<1> QED
  BY <1>7, <1>8

LEMMA LinkLockStep == LinkInv => LockStep
<1> SUFFICES ASSUME LinkInv, ~Stray(prover)
             PROVE  /\ Op(prover, "recv") /\ v2p # <<>> => Head(v2p).m \in Head(prover.todo).m
                    /\ Op(verifier, "recv") /\ p2v # <<>> => Head(p2v).m \in Head(verifier.todo).m
                    /\ Op(verifier, "serve") /\ p2v # <<>> => Served(verifier, Head(p2v))
  BY DEF LockStep, Stray
<1> QED
  BY ProverInStep, VerifierInStep DEF Op

LEMMA LinkTicketMatches == LinkInv => TicketMatches
<1> SUFFICES ASSUME LinkInv, prover.stage \in {"idle", "connect"}, prover.session # NoPsk, verifier.state = "ACCEPT"
             PROVE  prover.session = verifier.psk_shares
  BY DEF TicketMatches
<1>1. ~vopen
  BY DEF LinkInv, OwnInv, VInv, VOwn, Away
<1>2. PICK g : Linked(g)
  BY DEF LinkInv
<1> QED
  BY <1>1, <1>2 DEF Linked

\* Lock-step (ThreePartyHandshake.cpp against Server.cpp): whoever is about to
\* read finds, as the next thing on the wire, something it can read, whatever
\* mix of tickets, records, declined resumptions and failures the origin and the
\* network produce, over any number of rounds.
THEOREM InStep == Offline = TRUE => (Spec => []LockStep)
<1> SUFFICES ASSUME Offline = TRUE PROVE Spec => []LockStep
  OBVIOUS
<1>1. Spec => []LinkInv
  BY LinkAlways
<1> QED
  BY <1>1, LinkLockStep, PTL

\* No circuit that takes the PSK (derive_binder, derive_handshake_keys) ever runs
\* on halves of two different PSKs.
THEOREM SharesAlwaysAgree == Offline = TRUE => (Spec => []SharesAgree)
<1> SUFFICES ASSUME Offline = TRUE PROVE Spec => []SharesAgree
  OBVIOUS
<1>1. Spec => []LinkInv
  BY LinkAlways
<1>2. LinkInv => SharesAgree
  BY DEF LinkInv, SharesAgree
<1> QED
  BY <1>1, <1>2, PTL

\* A ticket the prover would resume with (g_session) is one whose other half the
\* verifier still holds, however the earlier rounds ended.
THEOREM TicketsMatch == Offline = TRUE => (Spec => []TicketMatches)
<1> SUFFICES ASSUME Offline = TRUE PROVE Spec => []TicketMatches
  OBVIOUS
<1>1. Spec => []LinkInv
  BY LinkAlways
<1> QED
  BY <1>1, LinkTicketMatches, PTL

\* Neither program gives up on the other of itself: a round fails, or the
\* verifier's loop (run_verifier) exits, only after the origin, the network, a
\* timer or a crash has done something.
THEOREM NeverRefused == Offline = TRUE => (Spec => []NoSpuriousFailure)
<1> SUFFICES ASSUME Offline = TRUE PROVE Spec => []NoSpuriousFailure
  OBVIOUS
<1>1. Spec => []LinkInv
  BY LinkAlways
<1>2. LinkInv => NoSpuriousFailure
  BY DEF LinkInv
<1> QED
  BY <1>1, <1>2, PTL
=============================================================================
