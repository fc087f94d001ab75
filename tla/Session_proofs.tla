--------------------------- MODULE Session_proofs ---------------------------
(***************************************************************************)
(* Proofs about one prover and one verifier over a series of rounds, for   *)
(* every number of rounds and records, whatever the origin sends and       *)
(* declines and whoever dies.                                              *)
(*                                                                         *)
(* The argument is about the conversation: what is in flight in one        *)
(* direction, followed by what this party's script still sends, is what    *)
(* the other party's script still receives, message by message, and the    *)
(* same the other way round.  Neither reading nor writing disturbs that,   *)
(* and a callback and the handlers that answer it are put together so that *)
(* it holds of them.                                                       *)
(***************************************************************************)
EXTENDS Session, SequenceTheorems, FiniteSetTheorems, TLAPS

-----------------------------------------------------------------------------
(* What a script sends and what it receives *)

Words ==
    {"DONE_HS", "RUN_FULL", "RUN_RESUMED", "MASK_COMMITMENTS", "COLLECT", "OK",
     "DERIVE_BINDER", "SERVER_KEY_SHARE", "HS_RECV", "HS_MODE_RESUMED", "HS_MODE_FULL",
     "DO_ECTF", "ECTF_DONE", "KS_DONE", "CERTIFICATE_CTX_SEND", "CERTIFICATE_CTX_RECV",
     "DERIVE_TS", "GCM_SHARE_START", "GCM_SHARE_DONE", "DERIVE_RES", "RES_DONE", "AES_ENC",
     "GCM_TAG", "KEY_COMMIT", "GCM_VERIFY", "KS_DERIVE", "KEY_RELEASE", "KEY",
     "DERIVE_PSK_0", "DERIVE_PSK", "DERIVE_PSK_8", "PSK_DONE", "PSK_SKIP", "STOP"}
    \cup {"binder", "ectf", "hs", "traffic", "gcm", "res", "aes", "tag", "vfy",
          "vfy_commit", "ks", "psk0", "psk1", "psk8"}

AnyInstr == [op : {"send", "recv", "serve"}, m : SUBSET (Names \X Words), x : Int]
Instrs == {e \in AnyInstr : e.op = "send" => e.m # {}}
Scripts == Seq(Instrs)
Messages == [m : Names \X Words, x : Int]

\* c[i] of the first i instructions of a script are sends.
Counts(s, c) ==
    /\ c \in [0 .. Len(s) -> Nat] /\ c[0] = 0
    /\ \A i \in 1 .. Len(s) : c[i] = IF s[i].op = "send" THEN c[i - 1] + 1 ELSE c[i - 1]
    /\ \A i, j \in 0 .. Len(s) : i <= j => c[i] <= c[j] /\ c[j] - c[i] <= j - i

\* The script sends the messages out and receives with the instructions in.
TraceBy(s, out, in, c) ==
    /\ Counts(s, c)
    /\ Len(out) = c[Len(s)] /\ Len(in) = Len(s) - c[Len(s)]
    /\ \A i \in 1 .. Len(s) :
          /\ s[i].op = "send" => out[c[i]] = Message(s[i])
          /\ s[i].op # "send" => s[i].op = "recv" /\ in[i - c[i]] = s[i]

Trace(s, out, in) ==
    /\ s \in Scripts /\ out \in Seq(Messages) /\ in \in Scripts
    /\ \E c : TraceBy(s, out, in, c)

\* A message that an instruction can read, and that carries the PSK it expects.
Fit(msg, instr) == msg.m \in instr.m /\ ~Mixes(instr, msg)

\* Message by message, and all of them among those in Q.
Fits(Q, ms, is) ==
    /\ Len(ms) = Len(is)
    /\ \A k \in 1 .. Len(is) : ms[k] \in Q /\ Fit(ms[k], is[k])

\* With a and b in flight the scripts P of the prover and V of the verifier run
\* to their ends, and then nothing is in flight.  The prover says only what is in
\* Q meanwhile.
Matches(Q, P, V, a, b) ==
    /\ a \in Seq(Messages) /\ b \in Seq(Messages)
    /\ \E po, pi, vo, vi :
          /\ Trace(P, po, pi) /\ Trace(V, vo, vi)
          /\ Fits(Q, a \o po, vi) /\ Fits(Messages, b \o vo, pi)

Dual(Q, P, V) == Matches(Q, P, V, <<>>, <<>>)

LEMMA TraceEmpty == Trace(<<>>, <<>>, <<>>)
<1> DEFINE c == [i \in 0 .. 0 |-> 0]
<1>1. TraceBy(<<>>, <<>>, <<>>, c)
  BY DEF TraceBy, Counts
<1> QED
  BY <1>1 DEF Trace, Scripts

LEMMA TraceOfEmpty ==
    ASSUME NEW out, NEW in, Trace(<<>>, out, in)
    PROVE  out = <<>> /\ in = <<>>
<1>1. PICK c : TraceBy(<<>>, out, in, c)
  BY DEF Trace
<1>2. Len(out) = 0 /\ Len(in) = 0
  BY <1>1 DEF TraceBy, Counts
<1> QED
  BY <1>2, EmptySeq DEF Trace, Scripts

\* The first instruction is a send.
LEMMA TraceSend ==
    ASSUME NEW s, NEW out, NEW in, Trace(s, out, in), s # <<>>, Head(s).op = "send"
    PROVE  /\ out # <<>> /\ Head(out) = Message(Head(s))
           /\ Trace(Tail(s), Tail(out), in)
<1>1. PICK c : TraceBy(s, out, in, c)
  BY DEF Trace
<1>2. s \in Scripts /\ out \in Seq(Messages) /\ in \in Scripts
  BY DEF Trace
<1>3. Len(s) \in Nat /\ Len(s) >= 1 /\ Head(s) = s[1] /\ 1 \in 1 .. Len(s)
  BY <1>2, LenProperties, EmptySeq DEF Scripts
<1>4. c[1] = 1 /\ c[1] <= c[Len(s)] /\ c \in [0 .. Len(s) -> Nat]
  BY <1>1, <1>3 DEF TraceBy, Counts
<1>5. Len(out) \in Nat /\ Len(out) >= 1
  BY <1>1, <1>3, <1>4 DEF TraceBy
<1>6. out # <<>> /\ Head(out) = out[1]
  BY <1>2, <1>5
<1>7. Head(out) = Message(Head(s))
  BY <1>1, <1>3, <1>4, <1>6 DEF TraceBy
<1>8. /\ Tail(s) \in Scripts /\ Len(Tail(s)) = Len(s) - 1
      /\ \A i \in 1 .. Len(s) - 1 : Tail(s)[i] = s[i + 1]
  BY <1>2, HeadTailProperties DEF Scripts
<1>9. /\ Tail(out) \in Seq(Messages) /\ Len(Tail(out)) = Len(out) - 1
      /\ \A i \in 1 .. Len(out) - 1 : Tail(out)[i] = out[i + 1]
  BY <1>2, <1>6, HeadTailProperties
<1> DEFINE d == [i \in 0 .. Len(s) - 1 |-> c[i + 1] - 1]
<1>10. \A i \in 0 .. Len(s) - 1 : i + 1 \in 0 .. Len(s) /\ c[i + 1] \in Nat /\ c[i + 1] >= 1
  <2> TAKE i \in 0 .. Len(s) - 1
  <2>1. i + 1 \in 0 .. Len(s) /\ 1 \in 0 .. Len(s) /\ 1 <= i + 1
    BY <1>3
  <2>2. c[1] <= c[i + 1] /\ c[i + 1] \in Nat
    BY <1>1, <1>4, <2>1 DEF TraceBy, Counts
  <2> QED
    BY <1>4, <2>1, <2>2
<1>11. Counts(Tail(s), d)
  <2>1. d \in [0 .. Len(Tail(s)) -> Nat] /\ d[0] = 0
    BY <1>3, <1>4, <1>8, <1>10
  <2>2. ASSUME NEW i \in 1 .. Len(Tail(s))
        PROVE  d[i] = IF Tail(s)[i].op = "send" THEN d[i - 1] + 1 ELSE d[i - 1]
    <3>1. i + 1 \in 1 .. Len(s) /\ i \in 0 .. Len(s) - 1 /\ i - 1 \in 0 .. Len(s) - 1
      BY <1>3, <1>8
    <3>2. c[i + 1] = IF s[i + 1].op = "send" THEN c[i] + 1 ELSE c[i]
      BY <1>1, <3>1 DEF TraceBy, Counts
    <3>3. d[i] = c[i + 1] - 1 /\ d[i - 1] = c[i] - 1 /\ c[i] \in Nat /\ c[i + 1] \in Nat
      BY <1>3, <1>10, <3>1
    <3> QED
      BY <1>8, <3>2, <3>3
  <2>3. ASSUME NEW i \in 0 .. Len(Tail(s)), NEW j \in 0 .. Len(Tail(s)), i <= j
        PROVE  d[i] <= d[j] /\ d[j] - d[i] <= j - i
    <3>1. i + 1 \in 0 .. Len(s) /\ j + 1 \in 0 .. Len(s) /\ i + 1 <= j + 1
      BY <1>3, <1>8, <2>3
    <3>2. c[i + 1] <= c[j + 1] /\ c[j + 1] - c[i + 1] <= (j + 1) - (i + 1)
      BY <1>1, <3>1 DEF TraceBy, Counts
    <3> QED
      BY <1>8, <1>10, <3>2
  <2> QED
    BY <2>1, <2>2, <2>3 DEF Counts
<1>12. /\ Len(Tail(out)) = d[Len(Tail(s))]
       /\ Len(in) = Len(Tail(s)) - d[Len(Tail(s))]
  BY <1>1, <1>3, <1>4, <1>8, <1>9 DEF TraceBy
<1>13. ASSUME NEW i \in 1 .. Len(Tail(s))
       PROVE  /\ Tail(s)[i].op = "send" => Tail(out)[d[i]] = Message(Tail(s)[i])
              /\ Tail(s)[i].op # "send" => Tail(s)[i].op = "recv" /\ in[i - d[i]] = Tail(s)[i]
  <2>1. i + 1 \in 1 .. Len(s) /\ i \in 0 .. Len(s) - 1 /\ i \in 0 .. Len(s) /\ Tail(s)[i] = s[i + 1]
    BY <1>3, <1>8
  <2>2. d[i] = c[i + 1] - 1 /\ c[i + 1] \in Nat /\ c[i] \in Nat
    BY <1>3, <1>4, <1>10, <2>1
  <2>3. CASE s[i + 1].op = "send"
    <3>1. c[i + 1] = c[i] + 1 /\ c[i] >= 1 /\ c[i + 1] <= c[Len(s)]
      <4>1. i + 1 <= Len(s) /\ i + 1 \in 0 .. Len(s) /\ Len(s) \in 0 .. Len(s) /\ 1 \in 0 .. Len(s) /\ 1 <= i
        BY <1>3, <2>1
      <4>2. c[i + 1] <= c[Len(s)] /\ c[1] <= c[i]
        BY <1>1, <2>1, <4>1 DEF TraceBy, Counts
      <4>3. c[i + 1] = c[i + 1 - 1] + 1
        BY <1>1, <2>1, <2>3 DEF TraceBy, Counts
      <4>4. i + 1 - 1 = i
        BY <2>1
      <4> QED
        BY <1>4, <2>2, <4>2, <4>3, <4>4
    <3>2. d[i] \in 1 .. Len(out) - 1
      BY <1>1, <1>4, <1>5, <2>2, <3>1 DEF TraceBy
    <3>3. Tail(out)[d[i]] = out[c[i + 1]]
      BY <1>9, <2>2, <3>2
    <3> QED
      BY <1>1, <2>1, <2>3, <3>3 DEF TraceBy
  <2>4. CASE s[i + 1].op # "send"
    <3>a. i \in Int
      BY <1>3, <2>1
    <3>b. \A k \in Int, u \in Nat : k - (u - 1) = (k + 1) - u
      OBVIOUS
    <3>1. i - d[i] = (i + 1) - c[i + 1]
      BY <2>2, <3>a, <3>b, Zenon
    <3>2. s[i + 1].op = "recv" /\ in[(i + 1) - c[i + 1]] = s[i + 1]
      BY <1>1, <2>1, <2>4 DEF TraceBy
    <3> HIDE DEF d
    <3> QED
      BY <2>1, <2>4, <3>1, <3>2
  <2> QED
    BY <2>3, <2>4
<1>14. TraceBy(Tail(s), Tail(out), in, d)
  BY <1>11, <1>12, <1>13 DEF TraceBy
<1> QED
  BY <1>2, <1>6, <1>7, <1>8, <1>9, <1>14 DEF Trace

\* The first instruction is a receive.
LEMMA TraceRecv ==
    ASSUME NEW s, NEW out, NEW in, Trace(s, out, in), s # <<>>, Head(s).op # "send"
    PROVE  /\ in # <<>> /\ Head(in) = Head(s) /\ Head(s).op = "recv"
           /\ Trace(Tail(s), out, Tail(in))
<1>1. PICK c : TraceBy(s, out, in, c)
  BY DEF Trace
<1>2. s \in Scripts /\ out \in Seq(Messages) /\ in \in Scripts
  BY DEF Trace
<1>3. Len(s) \in Nat /\ Len(s) >= 1 /\ Head(s) = s[1] /\ 1 \in 1 .. Len(s)
  BY <1>2, LenProperties, EmptySeq DEF Scripts
<1>4. c[1] = 0 /\ c[Len(s)] - c[1] <= Len(s) - 1 /\ c \in [0 .. Len(s) -> Nat]
  BY <1>1, <1>3 DEF TraceBy, Counts
<1>5. Len(in) \in Nat /\ Len(in) >= 1
  BY <1>1, <1>3, <1>4 DEF TraceBy
<1>6. in # <<>> /\ Head(in) = in[1]
  BY <1>2, <1>5
<1>7. Head(in) = Head(s) /\ Head(s).op = "recv"
  <2>1. s[1].op = "recv" /\ in[1 - c[1]] = s[1]
    BY <1>1, <1>3 DEF TraceBy
  <2>2. 1 - c[1] = 1
    BY <1>4
  <2> QED
    BY <1>3, <1>6, <2>1, <2>2
<1>8. /\ Tail(s) \in Scripts /\ Len(Tail(s)) = Len(s) - 1
      /\ \A i \in 1 .. Len(s) - 1 : Tail(s)[i] = s[i + 1]
  BY <1>2, HeadTailProperties DEF Scripts
<1>9. /\ Tail(in) \in Scripts /\ Len(Tail(in)) = Len(in) - 1
      /\ \A i \in 1 .. Len(in) - 1 : Tail(in)[i] = in[i + 1]
  BY <1>2, <1>6, HeadTailProperties DEF Scripts
<1> DEFINE d == [i \in 0 .. Len(s) - 1 |-> c[i + 1]]
<1>10. \A i \in 0 .. Len(s) - 1 : i + 1 \in 0 .. Len(s) /\ c[i + 1] \in Nat
  BY <1>3, <1>4
<1>11. Counts(Tail(s), d)
  <2>1. d \in [0 .. Len(Tail(s)) -> Nat] /\ d[0] = 0
    BY <1>3, <1>4, <1>8, <1>10
  <2>2. ASSUME NEW i \in 1 .. Len(Tail(s))
        PROVE  d[i] = IF Tail(s)[i].op = "send" THEN d[i - 1] + 1 ELSE d[i - 1]
    <3>1. i + 1 \in 1 .. Len(s) /\ i \in 0 .. Len(s) - 1 /\ i - 1 \in 0 .. Len(s) - 1
      BY <1>3, <1>8
    <3>2. c[i + 1] = IF s[i + 1].op = "send" THEN c[i] + 1 ELSE c[i]
      BY <1>1, <3>1 DEF TraceBy, Counts
    <3>3. d[i] = c[i + 1] /\ d[i - 1] = c[i]
      BY <1>3, <1>10, <3>1
    <3> QED
      BY <1>8, <3>2, <3>3
  <2>3. ASSUME NEW i \in 0 .. Len(Tail(s)), NEW j \in 0 .. Len(Tail(s)), i <= j
        PROVE  d[i] <= d[j] /\ d[j] - d[i] <= j - i
    <3>1. i + 1 \in 0 .. Len(s) /\ j + 1 \in 0 .. Len(s) /\ i + 1 <= j + 1
      BY <1>3, <1>8, <2>3
    <3>2. c[i + 1] <= c[j + 1] /\ c[j + 1] - c[i + 1] <= (j + 1) - (i + 1)
      BY <1>1, <3>1 DEF TraceBy, Counts
    <3> QED
      BY <1>8, <1>10, <3>2
  <2> QED
    BY <2>1, <2>2, <2>3 DEF Counts
<1>12. /\ Len(out) = d[Len(Tail(s))]
       /\ Len(Tail(in)) = Len(Tail(s)) - d[Len(Tail(s))]
  BY <1>1, <1>3, <1>4, <1>8, <1>9 DEF TraceBy
<1>13. ASSUME NEW i \in 1 .. Len(Tail(s))
       PROVE  /\ Tail(s)[i].op = "send" => out[d[i]] = Message(Tail(s)[i])
              /\ Tail(s)[i].op # "send" => Tail(s)[i].op = "recv" /\ Tail(in)[i - d[i]] = Tail(s)[i]
  <2>1. i + 1 \in 1 .. Len(s) /\ i \in 0 .. Len(s) - 1 /\ i \in 0 .. Len(s) /\ Tail(s)[i] = s[i + 1]
    BY <1>3, <1>8
  <2>2. d[i] = c[i + 1] /\ c[i + 1] \in Nat /\ c[i] \in Nat
    BY <1>3, <1>4, <1>10, <2>1
  <2>3. CASE s[i + 1].op = "send"
    BY <1>1, <2>1, <2>2, <2>3 DEF TraceBy
  <2>4. CASE s[i + 1].op # "send"
    <3>1. c[i + 1] <= i /\ c[Len(s)] - c[i + 1] <= Len(s) - (i + 1)
      <4>1. i + 1 <= Len(s) /\ i + 1 \in 0 .. Len(s) /\ Len(s) \in 0 .. Len(s) /\ 1 \in 0 .. Len(s) /\ 1 <= i + 1
        BY <1>3, <2>1
      <4>2. c[Len(s)] - c[i + 1] <= Len(s) - (i + 1) /\ c[i + 1] - c[1] <= (i + 1) - 1
        BY <1>1, <2>1, <4>1 DEF TraceBy, Counts
      <4> QED
        BY <1>3, <1>4, <2>1, <2>2, <4>2
    <3>2. i - c[i + 1] \in 1 .. Len(in) - 1 \/ i = c[i + 1]
      <4>1. Len(in) = Len(s) - c[Len(s)]
        BY <1>1 DEF TraceBy
      <4>2. PICK k, m, n : k = c[i + 1] /\ m = c[Len(s)] /\ n = Len(s)
        OBVIOUS
      <4>3. k \in Nat /\ m \in Nat /\ n \in Nat /\ i \in Nat /\ k <= i /\ m - k <= n - (i + 1)
        BY <1>3, <1>4, <2>1, <2>2, <3>1, <4>2
      <4>4. i - k \in 1 .. (n - m) - 1 \/ i = k
        BY ONLY <4>3
      <4> QED
        BY ONLY <4>1, <4>2, <4>4
    <3>3. in[(i + 1) - c[i + 1]] = s[i + 1] /\ s[i + 1].op = "recv"
      BY <1>1, <2>1, <2>4 DEF TraceBy
    <3>4. i # c[i + 1]
      <4>1. c[i + 1] = c[i] /\ c[i] - c[1] <= i - 1
        <5>1. 1 \in 0 .. Len(s) /\ 1 <= i
          BY <1>3, <2>1
        <5>2. c[i] - c[1] <= i - 1
          BY <1>1, <2>1, <5>1 DEF TraceBy, Counts
        <5>3. c[i + 1] = c[(i + 1) - 1]
          BY <1>1, <2>1, <2>4 DEF TraceBy, Counts
        <5>4. (i + 1) - 1 = i
          BY <1>3, <2>1
        <5> QED
          BY ONLY <5>2, <5>3, <5>4
      <4> QED
        BY <1>3, <1>4, <2>1, <2>2, <4>1
    <3>5. Tail(in)[i - c[i + 1]] = in[(i - c[i + 1]) + 1]
      BY <1>9, <3>2, <3>4
    <3>6. (i - c[i + 1]) + 1 = (i + 1) - c[i + 1]
      BY <1>3, <2>1, <2>2
    <3> HIDE DEF d
    <3> QED
      BY <2>1, <2>2, <2>4, <3>3, <3>5, <3>6
  <2> QED
    BY <2>3, <2>4
<1>14. TraceBy(Tail(s), out, Tail(in), d)
  BY <1>11, <1>12, <1>13 DEF TraceBy
<1> QED
  BY <1>2, <1>6, <1>7, <1>8, <1>9, <1>14 DEF Trace

\* Scripts one after the other.
LEMMA TraceConcat ==
    ASSUME NEW s1, NEW o1, NEW i1, NEW s2, NEW o2, NEW i2,
           Trace(s1, o1, i1), Trace(s2, o2, i2)
    PROVE  Trace(s1 \o s2, o1 \o o2, i1 \o i2)
<1>1. PICK c1 : TraceBy(s1, o1, i1, c1)
  BY DEF Trace
<1>2. PICK c2 : TraceBy(s2, o2, i2, c2)
  BY DEF Trace
<1>3. /\ s1 \in Scripts /\ o1 \in Seq(Messages) /\ i1 \in Scripts
      /\ s2 \in Scripts /\ o2 \in Seq(Messages) /\ i2 \in Scripts
  BY DEF Trace
<1>4. PICK n1, n2 : /\ n1 = Len(s1) /\ n2 = Len(s2) /\ n1 \in Nat /\ n2 \in Nat
  BY <1>3, LenProperties DEF Scripts
<1>5. /\ s1 \o s2 \in Scripts /\ Len(s1 \o s2) = n1 + n2
      /\ \A i \in 1 .. n1 + n2 : (s1 \o s2)[i] = IF i <= n1 THEN s1[i] ELSE s2[i - n1]
  BY <1>3, <1>4, ConcatProperties DEF Scripts
<1>6. PICK a1, a2 : /\ a1 = c1[n1] /\ a2 = c2[n2] /\ a1 \in Nat /\ a2 \in Nat
                    /\ Len(o1) = a1 /\ Len(o2) = a2
                    /\ Len(i1) = n1 - a1 /\ Len(i2) = n2 - a2
  BY <1>1, <1>2, <1>4 DEF TraceBy, Counts
<1>n. n1 \in Nat /\ n2 \in Nat /\ a1 \in Nat /\ a2 \in Nat
  BY <1>4, <1>6
<1>7. /\ o1 \o o2 \in Seq(Messages) /\ Len(o1 \o o2) = a1 + a2
      /\ \A i \in 1 .. a1 + a2 : (o1 \o o2)[i] = IF i <= a1 THEN o1[i] ELSE o2[i - a1]
  <2>1. /\ o1 \o o2 \in Seq(Messages) /\ Len(o1 \o o2) = Len(o1) + Len(o2)
        /\ \A i \in 1 .. Len(o1) + Len(o2) :
              (o1 \o o2)[i] = IF i <= Len(o1) THEN o1[i] ELSE o2[i - Len(o1)]
    BY <1>3, ConcatProperties
  <2> QED
    BY <1>6, <2>1, Zenon
<1>8. /\ i1 \o i2 \in Scripts /\ Len(i1 \o i2) = (n1 - a1) + (n2 - a2)
      /\ \A i \in 1 .. (n1 - a1) + (n2 - a2) :
            (i1 \o i2)[i] = IF i <= n1 - a1 THEN i1[i] ELSE i2[i - (n1 - a1)]
  <2>1. /\ i1 \o i2 \in Scripts /\ Len(i1 \o i2) = Len(i1) + Len(i2)
        /\ \A i \in 1 .. Len(i1) + Len(i2) :
              (i1 \o i2)[i] = IF i <= Len(i1) THEN i1[i] ELSE i2[i - Len(i1)]
    BY <1>3, ConcatProperties DEF Scripts
  <2> QED
    BY <1>6, <2>1, Zenon
<1>9. /\ c1 \in [0 .. n1 -> Nat] /\ c1[0] = 0 /\ c2 \in [0 .. n2 -> Nat] /\ c2[0] = 0
      /\ \A i \in 1 .. n1 : c1[i] = IF s1[i].op = "send" THEN c1[i - 1] + 1 ELSE c1[i - 1]
      /\ \A i \in 1 .. n2 : c2[i] = IF s2[i].op = "send" THEN c2[i - 1] + 1 ELSE c2[i - 1]
      /\ \A i, j \in 0 .. n1 : i <= j => c1[i] <= c1[j] /\ c1[j] - c1[i] <= j - i
      /\ \A i, j \in 0 .. n2 : i <= j => c2[i] <= c2[j] /\ c2[j] - c2[i] <= j - i
  BY <1>1, <1>2, <1>4 DEF TraceBy, Counts
<1> DEFINE d == [i \in 0 .. n1 + n2 |-> IF i <= n1 THEN c1[i] ELSE a1 + c2[i - n1]]
<1>10. \A i \in 0 .. n1 : /\ i \in 0 .. n1 + n2 /\ i <= n1 /\ d[i] = c1[i]
                          /\ c1[i] \in Nat /\ c1[i] <= a1 /\ a1 - c1[i] <= n1 - i /\ c1[i] <= i
  <2> TAKE i \in 0 .. n1
  <2>1. n1 \in 0 .. n1 /\ i <= n1 /\ 0 \in 0 .. n1 /\ 0 <= i /\ i \in 0 .. n1 + n2
    BY <1>n
  <2>2. c1[i] <= c1[n1] /\ c1[n1] - c1[i] <= n1 - i /\ c1[i] - c1[0] <= i - 0 /\ c1[i] \in Nat
    BY <1>9, <2>1
  <2>3. d[i] = c1[i] /\ c1[n1] = a1
    BY <1>6, <2>1
  <2>4. c1[i] <= a1 /\ a1 - c1[i] <= n1 - i /\ c1[i] <= i
    BY <1>n, <1>9, <2>2, <2>3
  <2> QED
    BY <2>1, <2>2, <2>3, <2>4
<1>11. \A i \in 0 .. n2 : /\ n1 + i \in 0 .. n1 + n2 /\ d[n1 + i] = a1 + c2[i]
                          /\ c2[i] \in Nat /\ c2[i] <= a2 /\ a2 - c2[i] <= n2 - i /\ c2[i] <= i
  <2> TAKE i \in 0 .. n2
  <2>1. n2 \in 0 .. n2 /\ i <= n2 /\ 0 \in 0 .. n2 /\ 0 <= i /\ n1 + i \in 0 .. n1 + n2
    BY <1>n
  <2>2. c2[i] <= c2[n2] /\ c2[n2] - c2[i] <= n2 - i /\ c2[i] - c2[0] <= i - 0 /\ c2[i] \in Nat
    BY <1>9, <2>1
  <2>3. d[n1 + i] = a1 + c2[i]
    <3>1. CASE i = 0
      <4>1. n1 + i = n1 /\ n1 <= n1
        BY <1>n, <3>1
      <4>2. d[n1 + i] = c1[n1]
        BY <2>1, <4>1
      <4>3. c2[i] = 0 /\ c1[n1] = a1
        BY <1>6, <1>9, <3>1
      <4> QED
        BY <1>n, <4>2, <4>3
    <3>2. CASE i # 0
      <4>1. ~(n1 + i <= n1) /\ (n1 + i) - n1 = i
        BY <1>n, <2>1, <3>2
      <4> QED
        BY <2>1, <4>1
    <3> QED
      BY <3>1, <3>2
  <2>4. c2[n2] = a2
    BY <1>6
  <2>5. c2[i] <= a2 /\ a2 - c2[i] <= n2 - i /\ c2[i] <= i
    BY <1>n, <1>9, <2>2, <2>4
  <2> QED
    BY <2>1, <2>2, <2>3, <2>5
<1>12. d \in [0 .. n1 + n2 -> Nat]
  <2>1. ASSUME NEW i \in 0 .. n1 + n2 PROVE (IF i <= n1 THEN c1[i] ELSE a1 + c2[i - n1]) \in Nat
    <3>1. CASE i <= n1
      <4>1. i \in 0 .. n1
        BY <1>n, <3>1
      <4> QED
        BY <1>10, <3>1, <4>1
    <3>2. CASE ~(i <= n1)
      <4>1. i - n1 \in 0 .. n2
        BY <1>4, <3>2
      <4>2. c2[i - n1] \in Nat
        BY <1>11, <4>1
      <4> QED
        BY <1>n, <3>2, <4>2
    <3> QED
      BY <3>1, <3>2
  <2> QED
    BY <2>1
<1>13. \A i \in 0 .. n1 + n2 : i \in 0 .. n1 \/ \E k \in 1 .. n2 : i = n1 + k
  <2> TAKE i \in 0 .. n1 + n2
  <2>1. CASE i <= n1
    BY <1>4, <2>1
  <2>2. CASE ~(i <= n1)
    <3>1. i - n1 \in 1 .. n2 /\ i = n1 + (i - n1)
      BY <1>4, <2>2
    <3> QED
      BY <3>1
  <2> QED
    BY <2>1, <2>2
<1> HIDE DEF d
<1>14. Counts(s1 \o s2, d)
  <2>1. d[0] = 0
    BY <1>4, <1>9, <1>10
  <2>2. ASSUME NEW i \in 1 .. n1 + n2
        PROVE  d[i] = IF (s1 \o s2)[i].op = "send" THEN d[i - 1] + 1 ELSE d[i - 1]
    <3>1. CASE i \in 0 .. n1
      <4>1. i \in 1 .. n1 /\ i - 1 \in 0 .. n1 /\ (s1 \o s2)[i] = s1[i]
        BY <1>4, <1>5, <3>1
      <4>2. c1[i] = IF s1[i].op = "send" THEN c1[i - 1] + 1 ELSE c1[i - 1]
        BY <1>9, <4>1
      <4>3. d[i] = c1[i] /\ d[i - 1] = c1[i - 1]
        BY <1>10, <3>1, <4>1
      <4> QED
        BY <4>1, <4>2, <4>3
    <3>2. ASSUME NEW k \in 1 .. n2, i = n1 + k
          PROVE  d[i] = IF (s1 \o s2)[i].op = "send" THEN d[i - 1] + 1 ELSE d[i - 1]
      <4>1. k \in 0 .. n2 /\ k - 1 \in 0 .. n2 /\ (s1 \o s2)[i] = s2[k] /\ i - 1 = n1 + (k - 1)
        BY <1>4, <1>5, <3>2
      <4>2. c2[k] = IF s2[k].op = "send" THEN c2[k - 1] + 1 ELSE c2[k - 1]
        BY <1>9
      <4>3. /\ d[i] = a1 + c2[k] /\ d[i - 1] = a1 + c2[k - 1]
            /\ c2[k] \in Nat /\ c2[k - 1] \in Nat
        BY <1>11, <3>2, <4>1
      <4> QED
        BY <1>n, <4>1, <4>2, <4>3
    <3>3. i \in 0 .. n1 + n2
      BY <1>n
    <3> QED
      BY <1>13, <3>1, <3>2, <3>3, Zenon
  <2>3. ASSUME NEW i \in 0 .. n1 + n2, NEW j \in 0 .. n1 + n2, i <= j
        PROVE  d[i] <= d[j] /\ d[j] - d[i] <= j - i
    <3>1. CASE i \in 0 .. n1 /\ j \in 0 .. n1
      BY <1>9, <1>10, <2>3, <3>1
    <3>2. ASSUME i \in 0 .. n1, NEW k \in 1 .. n2, j = n1 + k
          PROVE  d[i] <= d[j] /\ d[j] - d[i] <= j - i
      <4>1. /\ d[i] = c1[i] /\ c1[i] \in Nat /\ c1[i] <= a1 /\ a1 - c1[i] <= n1 - i
        BY <1>10, <3>2
      <4>2. k \in 0 .. n2
        BY <1>n
      <4>3. d[j] = a1 + c2[k] /\ c2[k] \in Nat /\ c2[k] <= k
        BY <1>11, <3>2, <4>2
      <4> QED
        BY <1>n, <3>2, <4>1, <4>3
    <3>3. ASSUME NEW h \in 1 .. n2, i = n1 + h, NEW k \in 1 .. n2, j = n1 + k
          PROVE  d[i] <= d[j] /\ d[j] - d[i] <= j - i
      <4>1. h \in 0 .. n2 /\ k \in 0 .. n2 /\ h <= k
        BY <1>4, <2>3, <3>3
      <4>2. c2[h] <= c2[k] /\ c2[k] - c2[h] <= k - h
        BY <1>9, <4>1
      <4>3. d[i] = a1 + c2[h] /\ c2[h] \in Nat /\ d[j] = a1 + c2[k] /\ c2[k] \in Nat
        BY <1>11, <3>3, <4>1
      <4> QED
        BY <1>n, <3>3, <4>2, <4>3
    <3>4. ASSUME NEW h \in 1 .. n2, i = n1 + h, j \in 0 .. n1
          PROVE  FALSE
      BY <1>4, <2>3, <3>4
    <3> QED
      BY <1>13, <3>1, <3>2, <3>3, <3>4
  <2> QED
    BY <1>5, <1>12, <2>1, <2>2, <2>3 DEF Counts
<1>15. d[n1 + n2] = a1 + a2
  <2>1. n2 \in 0 .. n2
    BY <1>n
  <2> QED
    BY <1>6, <1>11, <2>1
<1>16. ASSUME NEW i \in 1 .. n1 + n2
       PROVE  LET e == (s1 \o s2)[i] IN
              /\ e.op = "send" => (o1 \o o2)[d[i]] = Message(e)
              /\ e.op # "send" => e.op = "recv" /\ (i1 \o i2)[i - d[i]] = e
  <2>1. CASE i \in 0 .. n1
    <3>1. i \in 1 .. n1 /\ i - 1 \in 0 .. n1 /\ (s1 \o s2)[i] = s1[i]
      BY <1>4, <1>5, <2>1
    <3>2. /\ d[i] = c1[i] /\ c1[i] \in Nat /\ c1[i] <= a1 /\ a1 - c1[i] <= n1 - i /\ c1[i] <= i
      BY <1>10, <2>1
    <3>3. /\ s1[i].op = "send" => o1[c1[i]] = Message(s1[i])
          /\ s1[i].op # "send" => s1[i].op = "recv" /\ i1[i - c1[i]] = s1[i]
      BY <1>1, <1>4, <3>1 DEF TraceBy
    <3>4. c1[i - 1] \in Nat /\ c1[i - 1] <= i - 1
      BY <1>10, <3>1
    <3>5. CASE s1[i].op = "send"
      <4>1. c1[i] = c1[i - 1] + 1
        BY <1>9, <3>1, <3>5
      <4>2. d[i] \in 1 .. a1 + a2 /\ d[i] <= a1
        BY <1>n, <3>2, <3>4, <4>1
      <4>3. (o1 \o o2)[d[i]] = o1[d[i]]
        BY <1>7, <4>2
      <4> QED
        BY <3>1, <3>2, <3>3, <3>5, <4>3
    <3>6. CASE s1[i].op # "send"
      <4>1. c1[i] = c1[i - 1]
        BY <1>9, <3>1, <3>6
      <4>a. a2 <= n2
        <5>1. 0 \in 0 .. n2
          BY <1>n
        <5> QED
          BY <1>n, <1>9, <1>11, <5>1
      <4>2. i - d[i] \in 1 .. (n1 - a1) + (n2 - a2) /\ i - d[i] <= n1 - a1
        BY <1>n, <3>1, <3>2, <3>4, <4>1, <4>a
      <4>3. (i1 \o i2)[i - d[i]] = i1[i - d[i]]
        BY <1>8, <4>2
      <4> QED
        BY <3>1, <3>2, <3>3, <3>6, <4>3
    <3> QED
      BY <3>5, <3>6
  <2>2. ASSUME NEW k \in 1 .. n2, i = n1 + k
        PROVE  LET e == (s1 \o s2)[i] IN
               /\ e.op = "send" => (o1 \o o2)[d[i]] = Message(e)
               /\ e.op # "send" => e.op = "recv" /\ (i1 \o i2)[i - d[i]] = e
    <3>1. k \in 0 .. n2 /\ k - 1 \in 0 .. n2 /\ (s1 \o s2)[i] = s2[k]
      BY <1>4, <1>5, <2>2
    <3>2. /\ d[i] = a1 + c2[k] /\ c2[k] \in Nat /\ c2[k] <= a2 /\ a2 - c2[k] <= n2 - k
      BY <1>11, <2>2, <3>1
    <3>3. /\ s2[k].op = "send" => o2[c2[k]] = Message(s2[k])
          /\ s2[k].op # "send" => s2[k].op = "recv" /\ i2[k - c2[k]] = s2[k]
      BY <1>2, <1>4 DEF TraceBy
    <3>4. c2[k - 1] \in Nat /\ c2[k - 1] <= k - 1
      BY <1>11, <3>1
    <3>5. CASE s2[k].op = "send"
      <4>1. c2[k] = c2[k - 1] + 1
        BY <1>9, <3>5
      <4>2. d[i] \in 1 .. a1 + a2 /\ ~(d[i] <= a1) /\ d[i] - a1 = c2[k]
        BY <1>n, <3>2, <3>4, <4>1
      <4>3. (o1 \o o2)[d[i]] = o2[d[i] - a1]
        BY <1>7, <4>2
      <4> QED
        BY <3>1, <3>3, <3>5, <4>2, <4>3
    <3>6. CASE s2[k].op # "send"
      <4>1. c2[k] = c2[k - 1]
        BY <1>9, <3>6
      <4>a. a1 <= n1
        <5>1. n1 \in 0 .. n1
          BY <1>n
        <5> QED
          BY <1>6, <1>10, <5>1
      <4>2. /\ i - d[i] \in 1 .. (n1 - a1) + (n2 - a2) /\ ~(i - d[i] <= n1 - a1)
            /\ (i - d[i]) - (n1 - a1) = k - c2[k]
        BY <1>n, <2>2, <3>2, <3>4, <4>1, <4>a
      <4>3. (i1 \o i2)[i - d[i]] = i2[(i - d[i]) - (n1 - a1)]
        BY <1>8, <4>2
      <4> QED
        BY <3>1, <3>3, <3>6, <4>2, <4>3
    <3> QED
      BY <3>5, <3>6
  <2>3. i \in 0 .. n1 + n2
    BY <1>n
  <2> QED
    BY <1>13, <2>1, <2>2, <2>3, Zenon
<1>17. TraceBy(s1 \o s2, o1 \o o2, i1 \o i2, d)
  <2>1. /\ Len(o1 \o o2) = d[Len(s1 \o s2)]
        /\ Len(i1 \o i2) = Len(s1 \o s2) - d[Len(s1 \o s2)]
    BY <1>n, <1>5, <1>7, <1>8, <1>15
  <2> QED
    BY <1>5, <1>14, <1>16, <2>1 DEF TraceBy
<1> QED
  BY <1>5, <1>7, <1>8, <1>17 DEF Trace

LEMMA TraceOneSend ==
    ASSUME NEW e \in Instrs, e.op = "send", Message(e) \in Messages
    PROVE  Trace(<<e>>, <<Message(e)>>, <<>>)
<1> DEFINE c == [i \in 0 .. 1 |-> i]
<1>1. <<e>> \in Scripts /\ Len(<<e>>) = 1 /\ <<e>>[1] = e
  BY DEF Scripts
<1>2. Counts(<<e>>, c)
  BY <1>1 DEF Counts
<1>3. TraceBy(<<e>>, <<Message(e)>>, <<>>, c)
  BY <1>1, <1>2 DEF TraceBy
<1> QED
  BY <1>1, <1>3 DEF Trace, Scripts

LEMMA TraceOneRecv ==
    ASSUME NEW e \in Instrs, e.op = "recv"
    PROVE  Trace(<<e>>, <<>>, <<e>>)
<1> DEFINE c == [i \in 0 .. 1 |-> 0]
<1>1. <<e>> \in Scripts /\ Len(<<e>>) = 1 /\ <<e>>[1] = e
  BY DEF Scripts
<1>2. Counts(<<e>>, c)
  BY <1>1 DEF Counts
<1>3. TraceBy(<<e>>, <<>>, <<e>>, c)
  BY <1>1, <1>2 DEF TraceBy
<1> QED
  BY <1>1, <1>3 DEF Trace, Scripts

\* A script that sends nothing receives all the time.
LEMMA TraceSilent ==
    ASSUME NEW s, NEW in, Trace(s, <<>>, in)
    PROVE  Len(in) = Len(s) /\ \A i \in 1 .. Len(s) : s[i].op = "recv"
<1>1. PICK c : TraceBy(s, <<>>, in, c)
  BY DEF Trace
<1>2. Len(s) \in Nat /\ c \in [0 .. Len(s) -> Nat] /\ c[Len(s)] = 0
  BY <1>1, LenProperties DEF Trace, Scripts, TraceBy, Counts
<1>3. ASSUME NEW i \in 1 .. Len(s), s[i].op = "send" PROVE FALSE
  <2>1. i \in 0 .. Len(s) /\ i - 1 \in 0 .. Len(s) /\ Len(s) \in 0 .. Len(s) /\ i <= Len(s)
    BY <1>2
  <2>2. c[i] = c[i - 1] + 1 /\ c[i] <= c[Len(s)] /\ c[i - 1] \in Nat
    BY <1>1, <1>2, <1>3, <2>1 DEF TraceBy, Counts
  <2> QED
    BY <1>2, <2>2
<1> QED
  BY <1>1, <1>2, <1>3 DEF TraceBy

-----------------------------------------------------------------------------
(* What may happen to two scripts that match *)

LEMMA FitsHead ==
    ASSUME NEW Q, NEW ms \in Seq(Messages), NEW is \in Scripts, Fits(Q, ms, is),
           ms # <<>> \/ is # <<>>
    PROVE  /\ ms # <<>> /\ is # <<>> /\ Head(ms) \in Q /\ Fit(Head(ms), Head(is))
           /\ Fits(Q, Tail(ms), Tail(is))
<1>1. Len(ms) = Len(is) /\ Len(ms) \in Nat
  BY LenProperties DEF Fits
<1>2. ms # <<>> /\ is # <<>> /\ Len(ms) >= 1
  BY <1>1, EmptySeq DEF Scripts
<1>3. Head(ms) = ms[1] /\ Head(is) = is[1]
  BY <1>2 DEF Scripts
<1>4. ms[1] \in Q /\ Fit(ms[1], is[1])
  BY <1>1, <1>2 DEF Fits
<1>5. /\ Len(Tail(ms)) = Len(ms) - 1 /\ \A i \in 1 .. Len(Tail(ms)) : Tail(ms)[i] = ms[i + 1]
      /\ Len(Tail(is)) = Len(is) - 1 /\ \A i \in 1 .. Len(Tail(is)) : Tail(is)[i] = is[i + 1]
  BY <1>2, HeadTailProperties DEF Scripts
<1>6. ASSUME NEW k \in 1 .. Len(Tail(is)) PROVE Tail(ms)[k] \in Q /\ Fit(Tail(ms)[k], Tail(is)[k])
  <2>1. k + 1 \in 1 .. Len(is) /\ k \in 1 .. Len(Tail(ms))
    BY <1>1, <1>5
  <2>2. ms[k + 1] \in Q /\ Fit(ms[k + 1], is[k + 1])
    BY <2>1 DEF Fits
  <2> QED
    BY <1>5, <2>1, <2>2
<1> QED
  BY <1>1, <1>2, <1>3, <1>4, <1>5, <1>6 DEF Fits

LEMMA FitsConcat ==
    ASSUME NEW Q, NEW m1 \in Seq(Messages), NEW i1 \in Scripts, Fits(Q, m1, i1),
           NEW m2 \in Seq(Messages), NEW i2 \in Scripts, Fits(Q, m2, i2)
    PROVE  Fits(Q, m1 \o m2, i1 \o i2)
<1>1. PICK n1, n2 : /\ n1 \in Nat /\ n2 \in Nat /\ Len(m1) = n1 /\ Len(i1) = n1
                    /\ Len(m2) = n2 /\ Len(i2) = n2
  BY LenProperties DEF Fits, Scripts
<1>2. /\ Len(m1 \o m2) = n1 + n2
      /\ \A i \in 1 .. n1 + n2 : (m1 \o m2)[i] = IF i <= n1 THEN m1[i] ELSE m2[i - n1]
  <2>1. /\ Len(m1 \o m2) = Len(m1) + Len(m2)
        /\ \A i \in 1 .. Len(m1) + Len(m2) :
              (m1 \o m2)[i] = IF i <= Len(m1) THEN m1[i] ELSE m2[i - Len(m1)]
    BY ConcatProperties DEF Scripts
  <2> QED
    BY <1>1, <2>1, Zenon
<1>3. /\ Len(i1 \o i2) = n1 + n2
      /\ \A i \in 1 .. n1 + n2 : (i1 \o i2)[i] = IF i <= n1 THEN i1[i] ELSE i2[i - n1]
  <2>1. /\ Len(i1 \o i2) = Len(i1) + Len(i2)
        /\ \A i \in 1 .. Len(i1) + Len(i2) :
              (i1 \o i2)[i] = IF i <= Len(i1) THEN i1[i] ELSE i2[i - Len(i1)]
    BY ConcatProperties DEF Scripts
  <2> QED
    BY <1>1, <2>1, Zenon
<1>n. n1 \in Nat /\ n2 \in Nat
  BY <1>1
<1>4. ASSUME NEW k \in 1 .. n1 + n2 PROVE (m1 \o m2)[k] \in Q /\ Fit((m1 \o m2)[k], (i1 \o i2)[k])
  <2>1. CASE k <= n1
    <3>1. k \in 1 .. n1
      BY <1>n, <2>1
    <3> QED
      BY <1>1, <1>2, <1>3, <2>1, <3>1 DEF Fits
  <2>2. CASE ~(k <= n1)
    <3>1. k - n1 \in 1 .. n2
      BY <1>n, <2>2
    <3> QED
      BY <1>1, <1>2, <1>3, <2>2, <3>1 DEF Fits
  <2> QED
    BY <2>1, <2>2
<1> QED
  BY <1>2, <1>3, <1>4 DEF Fits

LEMMA MatchTypes ==
    ASSUME NEW Q, NEW P, NEW V, NEW a, NEW b, Matches(Q, P, V, a, b)
    PROVE  P \in Scripts /\ V \in Scripts /\ a \in Seq(Messages) /\ b \in Seq(Messages)
BY DEF Matches, Trace

\* The prover writes.
LEMMA MatchProverSend ==
    ASSUME NEW Q, NEW P, NEW V, NEW a, NEW b, Matches(Q, P, V, a, b), P # <<>>, Head(P).op = "send"
    PROVE  Matches(Q, Tail(P), V, Append(a, Message(Head(P))), b) /\ Message(Head(P)) \in Messages
<1>1. PICK po, pi, vo, vi : /\ Trace(P, po, pi) /\ Trace(V, vo, vi)
                            /\ Fits(Q, a \o po, vi) /\ Fits(Messages, b \o vo, pi)
  BY DEF Matches
<1>2. /\ po # <<>> /\ Head(po) = Message(Head(P)) /\ Trace(Tail(P), Tail(po), pi)
  BY <1>1, TraceSend
<1>3. po \in Seq(Messages) /\ a \in Seq(Messages) /\ b \in Seq(Messages)
  BY <1>1 DEF Matches, Trace
<1>4. Head(po) \in Messages /\ Tail(po) \in Seq(Messages)
  BY <1>2, <1>3, HeadTailProperties
<1>5. /\ Append(a, Head(po)) \in Seq(Messages)
      /\ Append(a, Head(po)) \o Tail(po) = a \o po
  BY <1>2, <1>3, <1>4
<1> QED
  BY <1>1, <1>2, <1>3, <1>4, <1>5 DEF Matches

LEMMA MatchVerifierSend ==
    ASSUME NEW Q, NEW P, NEW V, NEW a, NEW b, Matches(Q, P, V, a, b), V # <<>>, Head(V).op = "send"
    PROVE  Matches(Q, P, Tail(V), a, Append(b, Message(Head(V)))) /\ Message(Head(V)) \in Messages
<1>1. PICK po, pi, vo, vi : /\ Trace(P, po, pi) /\ Trace(V, vo, vi)
                            /\ Fits(Q, a \o po, vi) /\ Fits(Messages, b \o vo, pi)
  BY DEF Matches
<1>2. /\ vo # <<>> /\ Head(vo) = Message(Head(V)) /\ Trace(Tail(V), Tail(vo), vi)
  BY <1>1, TraceSend
<1>3. vo \in Seq(Messages) /\ a \in Seq(Messages) /\ b \in Seq(Messages)
  BY <1>1 DEF Matches, Trace
<1>4. Head(vo) \in Messages /\ Tail(vo) \in Seq(Messages)
  BY <1>2, <1>3, HeadTailProperties
<1>5. /\ Append(b, Head(vo)) \in Seq(Messages)
      /\ Append(b, Head(vo)) \o Tail(vo) = b \o vo
  BY <1>2, <1>3, <1>4
<1> QED
  BY <1>1, <1>2, <1>3, <1>4, <1>5 DEF Matches

\* The prover reads what is there: it can, and it matches on.
LEMMA MatchProverRecv ==
    ASSUME NEW Q, NEW P, NEW V, NEW a, NEW b, Matches(Q, P, V, a, b), P # <<>>, Head(P).op # "send",
           b # <<>>
    PROVE  Matches(Q, Tail(P), V, a, Tail(b)) /\ Fit(Head(b), Head(P)) /\ Head(P).op = "recv"
<1>1. PICK po, pi, vo, vi : /\ Trace(P, po, pi) /\ Trace(V, vo, vi)
                            /\ Fits(Q, a \o po, vi) /\ Fits(Messages, b \o vo, pi)
  BY DEF Matches
<1>2. /\ pi # <<>> /\ Head(pi) = Head(P) /\ Head(P).op = "recv" /\ Trace(Tail(P), po, Tail(pi))
  BY <1>1, TraceRecv
<1>3. /\ vo \in Seq(Messages) /\ a \in Seq(Messages) /\ b \in Seq(Messages) /\ pi \in Scripts
  BY <1>1 DEF Matches, Trace
<1>4. /\ b \o vo \in Seq(Messages) /\ b \o vo # <<>> /\ Head(b \o vo) = Head(b)
      /\ Tail(b \o vo) = Tail(b) \o vo /\ Tail(b) \in Seq(Messages)
  BY <1>3
<1>5. Fit(Head(b), Head(P)) /\ Fits(Messages, Tail(b) \o vo, Tail(pi))
  BY <1>1, <1>2, <1>3, <1>4, FitsHead
<1> QED
  BY <1>1, <1>2, <1>3, <1>4, <1>5 DEF Matches

LEMMA MatchVerifierRecv ==
    ASSUME NEW Q, NEW P, NEW V, NEW a, NEW b, Matches(Q, P, V, a, b), V # <<>>, Head(V).op # "send",
           a # <<>>
    PROVE  Matches(Q, P, Tail(V), Tail(a), b) /\ Head(a) \in Q /\ Fit(Head(a), Head(V)) /\ Head(V).op = "recv"
<1>1. PICK po, pi, vo, vi : /\ Trace(P, po, pi) /\ Trace(V, vo, vi)
                            /\ Fits(Q, a \o po, vi) /\ Fits(Messages, b \o vo, pi)
  BY DEF Matches
<1>2. /\ vi # <<>> /\ Head(vi) = Head(V) /\ Head(V).op = "recv" /\ Trace(Tail(V), vo, Tail(vi))
  BY <1>1, TraceRecv
<1>3. /\ po \in Seq(Messages) /\ a \in Seq(Messages) /\ b \in Seq(Messages) /\ vi \in Scripts
  BY <1>1 DEF Matches, Trace
<1>4. /\ a \o po \in Seq(Messages) /\ a \o po # <<>> /\ Head(a \o po) = Head(a)
      /\ Tail(a \o po) = Tail(a) \o po /\ Tail(a) \in Seq(Messages)
  BY <1>3
<1>5. Head(a) \in Q /\ Fit(Head(a), Head(V)) /\ Fits(Q, Tail(a) \o po, Tail(vi))
  BY <1>1, <1>2, <1>3, <1>4, FitsHead
<1> QED
  BY <1>1, <1>2, <1>3, <1>4, <1>5 DEF Matches

\* Both go on with scripts that match.
LEMMA MatchExtend ==
    ASSUME NEW Q, NEW P, NEW V, NEW a, NEW b, Matches(Q, P, V, a, b), NEW P2, NEW V2, Dual(Q, P2, V2)
    PROVE  Matches(Q, P \o P2, V \o V2, a, b)
<1>1. PICK po, pi, vo, vi : /\ Trace(P, po, pi) /\ Trace(V, vo, vi)
                            /\ Fits(Q, a \o po, vi) /\ Fits(Messages, b \o vo, pi)
  BY DEF Matches
<1>2. PICK po2, pi2, vo2, vi2 : /\ Trace(P2, po2, pi2) /\ Trace(V2, vo2, vi2)
                                /\ Fits(Q, <<>> \o po2, vi2) /\ Fits(Messages, <<>> \o vo2, pi2)
  BY DEF Dual, Matches
<1>3. /\ po \in Seq(Messages) /\ pi \in Scripts /\ vo \in Seq(Messages) /\ vi \in Scripts
      /\ po2 \in Seq(Messages) /\ pi2 \in Scripts /\ vo2 \in Seq(Messages) /\ vi2 \in Scripts
      /\ a \in Seq(Messages) /\ b \in Seq(Messages)
  BY <1>1, <1>2 DEF Matches, Trace
<1>4. Trace(P \o P2, po \o po2, pi \o pi2) /\ Trace(V \o V2, vo \o vo2, vi \o vi2)
  BY <1>1, <1>2, TraceConcat
<1>5. <<>> \o po2 = po2 /\ <<>> \o vo2 = vo2
  BY <1>3, ConcatEmptySeq
<1>6. a \o po \in Seq(Messages) /\ b \o vo \in Seq(Messages)
  BY <1>3, ConcatProperties
<1>7. Fits(Q, (a \o po) \o po2, vi \o vi2) /\ Fits(Messages, (b \o vo) \o vo2, pi \o pi2)
  BY <1>1, <1>2, <1>3, <1>5, <1>6, FitsConcat
<1>8. (a \o po) \o po2 = a \o (po \o po2) /\ (b \o vo) \o vo2 = b \o (vo \o vo2)
  <2>1. a \in Seq(Messages) /\ po \in Seq(Messages) /\ po2 \in Seq(Messages)
    BY <1>3
  <2>2. b \in Seq(Messages) /\ vo \in Seq(Messages) /\ vo2 \in Seq(Messages)
    BY <1>3
  <2>3. (a \o po) \o po2 = a \o (po \o po2)
    BY <2>1, ConcatAssociative
  <2>4. (b \o vo) \o vo2 = b \o (vo \o vo2)
    BY <2>2, ConcatAssociative
  <2> QED
    BY <2>3, <2>4
<1> QED
  BY <1>3, <1>4, <1>7, <1>8 DEF Matches

LEMMA DualConcat ==
    ASSUME NEW Q, NEW P, NEW V, NEW P2, NEW V2, Dual(Q, P, V), Dual(Q, P2, V2)
    PROVE  Dual(Q, P \o P2, V \o V2)
BY MatchExtend DEF Dual

\* The prover has nothing left to do.
LEMMA MatchProverDone ==
    ASSUME NEW Q, NEW V, NEW a, NEW b, Matches(Q, <<>>, V, a, b)
    PROVE  /\ b = <<>> /\ Len(a) = Len(V)
           /\ \A i \in 1 .. Len(V) : V[i].op = "recv"
<1>1. PICK po, pi, vo, vi : /\ Trace(<<>>, po, pi) /\ Trace(V, vo, vi)
                            /\ Fits(Q, a \o po, vi) /\ Fits(Messages, b \o vo, pi)
  BY DEF Matches
<1>2. po = <<>> /\ pi = <<>>
  BY <1>1, TraceOfEmpty
<1>3. /\ vo \in Seq(Messages) /\ vi \in Scripts /\ a \in Seq(Messages) /\ b \in Seq(Messages)
  BY <1>1 DEF Matches, Trace
<1>4. a \o po = a
  BY <1>2, <1>3, ConcatEmptySeq
<1>5. Len(b \o vo) = 0 /\ b \o vo \in Seq(Messages)
  BY <1>1, <1>2, <1>3, ConcatProperties DEF Fits
<1>6. b \o vo = <<>>
  BY <1>5, EmptySeq
<1>7. b = <<>> /\ vo = <<>>
  BY <1>3, <1>6, ConcatEqualIffEmpty
<1>8. Len(vi) = Len(V) /\ \A i \in 1 .. Len(V) : V[i].op = "recv"
  BY <1>1, <1>7, TraceSilent
<1> QED
  BY <1>1, <1>4, <1>7, <1>8 DEF Fits

LEMMA MatchVerifierDone ==
    ASSUME NEW Q, NEW P, NEW a, NEW b, Matches(Q, P, <<>>, a, b)
    PROVE  /\ a = <<>> /\ Len(b) = Len(P)
           /\ \A i \in 1 .. Len(P) : P[i].op = "recv"
<1>1. PICK po, pi, vo, vi : /\ Trace(P, po, pi) /\ Trace(<<>>, vo, vi)
                            /\ Fits(Q, a \o po, vi) /\ Fits(Messages, b \o vo, pi)
  BY DEF Matches
<1>2. vo = <<>> /\ vi = <<>>
  BY <1>1, TraceOfEmpty
<1>3. /\ po \in Seq(Messages) /\ pi \in Scripts /\ a \in Seq(Messages) /\ b \in Seq(Messages)
  BY <1>1 DEF Matches, Trace
<1>4. b \o vo = b
  BY <1>2, <1>3, ConcatEmptySeq
<1>5. Len(a \o po) = 0 /\ a \o po \in Seq(Messages)
  BY <1>1, <1>2, <1>3, ConcatProperties DEF Fits
<1>6. a \o po = <<>>
  BY <1>5, EmptySeq
<1>7. a = <<>> /\ po = <<>>
  BY <1>3, <1>6, ConcatEqualIffEmpty
<1>8. Len(pi) = Len(P) /\ \A i \in 1 .. Len(P) : P[i].op = "recv"
  BY <1>1, <1>7, TraceSilent
<1> QED
  BY <1>1, <1>4, <1>7, <1>8 DEF Fits

\* All that is left to the verifier is to answer: nothing is on its way to it.
LEMMA MatchVerifierAnswers ==
    ASSUME NEW Q, NEW P, NEW e, NEW a, NEW b, Matches(Q, P, <<e>>, a, b), e.op = "send"
    PROVE  a = <<>>
<1>1. PICK po, pi, vo, vi : /\ Trace(P, po, pi) /\ Trace(<<e>>, vo, vi)
                            /\ Fits(Q, a \o po, vi) /\ Fits(Messages, b \o vo, pi)
  BY DEF Matches
<1>2. <<e>> # <<>> /\ Head(<<e>>) = e /\ Tail(<<e>>) = <<>>
  OBVIOUS
<1>a. Head(<<e>>).op = "send"
  BY <1>2
<1>b. Trace(Tail(<<e>>), Tail(vo), vi)
  BY <1>1, <1>2, <1>a, TraceSend
<1>3. Trace(<<>>, Tail(vo), vi)
  BY <1>2, <1>b
<1>4. vi = <<>>
  BY <1>3, TraceOfEmpty
<1>5. po \in Seq(Messages) /\ a \in Seq(Messages)
  BY <1>1 DEF Matches, Trace
<1>6. Len(a \o po) = 0 /\ a \o po \in Seq(Messages)
  BY <1>1, <1>4, <1>5, ConcatProperties DEF Fits
<1>7. a \o po = <<>>
  BY <1>6, EmptySeq
<1> QED
  BY <1>5, <1>7, ConcatEqualIffEmpty

LEMMA MatchMore ==
    ASSUME NEW Q, NEW P, NEW V, NEW a, NEW b, Matches(Q, P, V, a, b), NEW R, Q \subseteq R
    PROVE  Matches(R, P, V, a, b)
<1>1. PICK po, pi, vo, vi : /\ Trace(P, po, pi) /\ Trace(V, vo, vi)
                            /\ Fits(Q, a \o po, vi) /\ Fits(Messages, b \o vo, pi)
  BY DEF Matches
<1>2. Fits(R, a \o po, vi)
  BY <1>1 DEF Fits
<1> QED
  BY <1>1, <1>2 DEF Matches

\* Nothing of a conversation is a serve.
LEMMA MatchNoServe ==
    ASSUME NEW Q, NEW P, NEW V, NEW a, NEW b, Matches(Q, P, V, a, b), V # <<>>
    PROVE  Head(V).op # "serve"
<1>1. PICK vo, vi : Trace(V, vo, vi)
  BY DEF Matches
<1> QED
  BY <1>1, TraceRecv

LEMMA MatchEmpty == \A Q : Matches(Q, <<>>, <<>>, <<>>, <<>>)
<1> TAKE Q
<1>1. Fits(Q, <<>> \o <<>>, <<>>) /\ Fits(Messages, <<>> \o <<>>, <<>>)
  BY DEF Fits
<1> QED
  BY <1>1, TraceEmpty DEF Matches

-----------------------------------------------------------------------------
(* The instructions, and the conversations they make up *)

LEMMA HeaderTypes ==
    ASSUME NEW h \in Words
    PROVE  /\ Hdr(h) \in Names \X Words
           /\ Send(h) \in Instrs /\ Send(h).op = "send" /\ Send(h).m = {Hdr(h)} /\ Send(h).x = 0
           /\ Message(Send(h)) = [m |-> Hdr(h), x |-> 0] /\ Message(Send(h)) \in Messages
<1>1. Hdr(h) \in Names \X Words
  BY DEF Hdr, Names
<1>2. Send(h).op = "send" /\ Send(h).m = {Hdr(h)} /\ Send(h).x = 0
  BY DEF Send
<1>3. Send(h) \in AnyInstr
  BY <1>1 DEF Send, AnyInstr
<1>4. (CHOOSE m \in {Hdr(h)} : TRUE) = Hdr(h)
  OBVIOUS
<1>5. Message(Send(h)) = [m |-> Hdr(h), x |-> 0]
  BY <1>2, <1>4 DEF Message
<1> QED
  BY <1>1, <1>2, <1>3, <1>5 DEF Instrs, Messages

LEMMA RecvTypes ==
    ASSUME NEW hs, hs \subseteq Words
    PROVE  Recv(hs) \in Instrs /\ Recv(hs).op = "recv" /\ Recv(hs).m = {Hdr(h) : h \in hs}
<1>1. {Hdr(h) : h \in hs} \subseteq Names \X Words
  BY HeaderTypes
<1> QED
  BY <1>1 DEF Recv, Instrs, AnyInstr

\* A header from the prover.
LEMMA DualDown ==
    ASSUME NEW Q, NEW h \in Words, NEW hs, hs \subseteq Words, h \in hs,
           [m |-> Hdr(h), x |-> 0] \in Q
    PROVE  Dual(Q, <<Send(h)>>, <<Recv(hs)>>)
<1> DEFINE msg == [m |-> Hdr(h), x |-> 0]
<1>1. Trace(<<Send(h)>>, <<msg>>, <<>>)
  BY HeaderTypes, TraceOneSend
<1>2. Trace(<<Recv(hs)>>, <<>>, <<Recv(hs)>>)
  BY RecvTypes, TraceOneRecv
<1>3. Fit(msg, Recv(hs))
  BY RecvTypes DEF Fit, Mixes, Hdr
<1>4. msg \in Messages
  BY HeaderTypes
<1> HIDE DEF msg
<1>5. Fits(Q, <<>> \o <<msg>>, <<Recv(hs)>>) /\ Fits(Messages, <<>> \o <<>>, <<>>)
  BY <1>3, <1>4 DEF Fits, msg
<1> QED
  BY <1>1, <1>2, <1>5 DEF Dual, Matches, msg

\* A header from the verifier.
LEMMA DualUp ==
    ASSUME NEW Q, NEW h \in Words, NEW hs, hs \subseteq Words, h \in hs
    PROVE  Dual(Q, <<Recv(hs)>>, <<Send(h)>>)
<1> DEFINE msg == [m |-> Hdr(h), x |-> 0]
<1>1. Trace(<<Send(h)>>, <<msg>>, <<>>)
  BY HeaderTypes, TraceOneSend
<1>2. Trace(<<Recv(hs)>>, <<>>, <<Recv(hs)>>)
  BY RecvTypes, TraceOneRecv
<1>3. Fit(msg, Recv(hs))
  BY RecvTypes DEF Fit, Mixes, Hdr
<1>4. msg \in Messages
  BY HeaderTypes
<1> HIDE DEF msg
<1>5. Fits(Messages, <<>> \o <<msg>>, <<Recv(hs)>>) /\ Fits(Q, <<>> \o <<>>, <<>>)
  BY <1>3, <1>4 DEF Fits
<1> QED
  BY <1>1, <1>2, <1>5 DEF Dual, Matches, msg

LEMMA PairOf ==
    ASSUME NEW u \in Instrs, NEW v \in Instrs
    PROVE  <<u>> \o <<v>> = <<u, v>>
<1>1. <<u>> \in Seq(Instrs) /\ <<v>> \in Seq(Instrs) /\ <<u, v>> \in Seq(Instrs)
  OBVIOUS
<1>2. <<u>> \o <<v>> \in Seq(Instrs) /\ Len(<<u>> \o <<v>>) = 2 /\ Len(<<u, v>>) = 2
  BY <1>1
<1>3. (<<u>> \o <<v>>)[1] = u /\ (<<u>> \o <<v>>)[2] = v
  BY <1>1
<1>4. \A i \in 1 .. 2 : (<<u>> \o <<v>>)[i] = <<u, v>>[i]
  BY <1>3
<1> QED
  BY <1>1, <1>2, <1>4, SeqEqual

\* A joint circuit.
LEMMA DualCircuit ==
    ASSUME NEW Q, NEW c \in Words, NEW x \in Int, NEW y \in Int,
           c \in {"binder", "hs"} => x = y,
           [m |-> <<"circuit", c>>, x |-> x] \in Q
    PROVE  Dual(Q, Circuit(c, x), Circuit(c, y))
<1> DEFINE S(z) == [op |-> "send", m |-> {<<"circuit", c>>}, x |-> z]
           R(z) == [op |-> "recv", m |-> {<<"circuit", c>>}, x |-> z]
           M(z) == [m |-> <<"circuit", c>>, x |-> z]
<1>1. ASSUME NEW z \in Int
      PROVE  /\ S(z) \in Instrs /\ R(z) \in Instrs /\ M(z) \in Messages /\ Message(S(z)) = M(z)
  <2>1. <<"circuit", c>> \in Names \X Words
    BY DEF Names
  <2>2. S(z) \in AnyInstr /\ R(z) \in AnyInstr /\ M(z) \in Messages
    BY <2>1 DEF AnyInstr, Messages
  <2>3. (CHOOSE m \in {<<"circuit", c>>} : TRUE) = <<"circuit", c>>
    OBVIOUS
  <2> QED
    BY <2>2, <2>3 DEF Instrs, Message
<1>2. ASSUME NEW z \in Int
      PROVE  Trace(Circuit(c, z), <<M(z)>>, <<R(z)>>)
  <2>1. Trace(<<S(z)>>, <<M(z)>>, <<>>)
    BY <1>1, TraceOneSend
  <2>2. Trace(<<R(z)>>, <<>>, <<R(z)>>)
    BY <1>1, TraceOneRecv
  <2>3. Trace(<<S(z)>> \o <<R(z)>>, <<M(z)>> \o <<>>, <<>> \o <<R(z)>>)
    BY <2>1, <2>2, TraceConcat
  <2>b. Circuit(c, z) = <<S(z), R(z)>>
    BY DEF Circuit
  <2>4. <<S(z)>> \o <<R(z)>> = Circuit(c, z)
    BY <1>1, <2>b, PairOf, Zenon
  <2>5. <<M(z)>> \o <<>> = <<M(z)>> /\ <<>> \o <<R(z)>> = <<R(z)>>
    OBVIOUS
  <2> QED
    BY <2>3, <2>4, <2>5
<1>3. Fit(M(x), R(y)) /\ Fit(M(y), R(x))
  BY DEF Fit, Mixes
<1>4. Fits(Q, <<>> \o <<M(x)>>, <<R(y)>>) /\ Fits(Messages, <<>> \o <<M(y)>>, <<R(x)>>)
  <2>1. M(x) \in Q /\ M(y) \in Messages
    BY <1>1
  <2> HIDE DEF M, R
  <2> QED
    BY <1>3, <2>1 DEF Fits
<1>5. Trace(Circuit(c, x), <<M(x)>>, <<R(x)>>) /\ Trace(Circuit(c, y), <<M(y)>>, <<R(y)>>)
  BY <1>2
<1> HIDE DEF M, R
<1> QED
  BY <1>4, <1>5 DEF Dual, Matches

\* The preprocessing of the same circuits on both sides.
LEMMA DualPreprocess ==
    ASSUME NEW Q, NEW cs \in Seq(Words),
           \A c \in Words : [m |-> <<"preproc", c>>, x |-> 0] \in Q
    PROVE  Dual(Q, Preprocess(cs), Preprocess(cs))
<1> DEFINE n == Len(cs)
           s == Preprocess(cs)
           k(i) == (i + 1) \div 2
           S(j) == [op |-> "send", m |-> {<<"preproc", cs[j]>>}, x |-> 0]
           R(j) == [op |-> "recv", m |-> {<<"preproc", cs[j]>>}, x |-> 0]
           M(j) == [m |-> <<"preproc", cs[j]>>, x |-> 0]
           out == [j \in 1 .. n |-> M(j)]
           in == [j \in 1 .. n |-> R(j)]
           c == [i \in 0 .. 2 * n |-> k(i)]
<1>1. n \in Nat /\ \A j \in 1 .. n : cs[j] \in Words
  BY LenProperties, ElementOfSeq
<1>2. ASSUME NEW j \in 1 .. n
      PROVE  S(j) \in Instrs /\ R(j) \in Instrs /\ M(j) \in Messages /\ Message(S(j)) = M(j)
  <2>1. <<"preproc", cs[j]>> \in Names \X Words
    BY <1>1 DEF Names
  <2>2. S(j) \in AnyInstr /\ R(j) \in AnyInstr /\ M(j) \in Messages
    BY <2>1 DEF AnyInstr, Messages
  <2>3. (CHOOSE m \in {<<"preproc", cs[j]>>} : TRUE) = <<"preproc", cs[j]>>
    OBVIOUS
  <2> QED
    BY <2>2, <2>3 DEF Instrs, Message
<1>3. \A i \in 1 .. 2 * n : /\ k(i) \in 1 .. n
                            /\ i % 2 = 1 => i = 2 * k(i) - 1
                            /\ i % 2 # 1 => i = 2 * k(i)
                            /\ s[i] = IF i % 2 = 1 THEN S(k(i)) ELSE R(k(i))
  <2>1. \A i \in 1 .. 2 * n : /\ k(i) \in 1 .. n
                              /\ i % 2 = 1 => i = 2 * k(i) - 1
                              /\ i % 2 # 1 => i = 2 * k(i)
    BY <1>1
  <2>2. \A i \in 1 .. 2 * n : s[i] = IF i % 2 = 1 THEN S(k(i)) ELSE R(k(i))
    BY <1>1 DEF Preprocess
  <2> QED
    BY <2>1, <2>2
<1>4. s \in Scripts /\ Len(s) = 2 * n
  <2>1. s = [i \in 1 .. 2 * n |-> IF i % 2 = 1 THEN S(k(i)) ELSE R(k(i))]
    BY <1>1 DEF Preprocess
  <2>2. \A i \in 1 .. 2 * n : (IF i % 2 = 1 THEN S(k(i)) ELSE R(k(i))) \in Instrs
    BY <1>2, <1>3
  <2>3. 2 * n \in Nat
    BY <1>1
  <2> HIDE DEF S, R, k, s
  <2> QED
    BY <2>1, <2>2, <2>3 DEF Scripts
<1>5. out \in Seq(Messages) /\ Len(out) = n /\ in \in Scripts /\ Len(in) = n
  <2>1. \A j \in 1 .. n : M(j) \in Messages /\ R(j) \in Instrs
    BY <1>2
  <2> HIDE DEF M, R, n
  <2>2. out \in [1 .. n -> Messages] /\ in \in [1 .. n -> Instrs]
    BY <2>1
  <2> HIDE DEF out, in
  <2> QED
    BY <1>1, <2>2 DEF Scripts
<1>6. Counts(s, c)
  <2>1. c \in [0 .. 2 * n -> Nat] /\ c[0] = 0
    BY <1>1
  <2>2. ASSUME NEW i \in 1 .. 2 * n
        PROVE  c[i] = IF s[i].op = "send" THEN c[i - 1] + 1 ELSE c[i - 1]
    <3>1. s[i].op = "send" <=> i % 2 = 1
      <4>1. s[i] = IF i % 2 = 1 THEN S(k(i)) ELSE R(k(i))
        BY <1>3
      <4>2. S(k(i)).op = "send" /\ R(k(i)).op = "recv"
        OBVIOUS
      <4> HIDE DEF s, S, R, k
      <4> QED
        BY <4>1, <4>2
    <3>2. k(i) = IF i % 2 = 1 THEN k(i - 1) + 1 ELSE k(i - 1)
      BY <1>1
    <3>3. c[i] = k(i) /\ c[i - 1] = k(i - 1)
      BY <1>1
    <3> HIDE DEF k, c, s
    <3> QED
      BY <3>1, <3>2, <3>3
  <2>3. ASSUME NEW i \in 0 .. 2 * n, NEW j \in 0 .. 2 * n, i <= j
        PROVE  c[i] <= c[j] /\ c[j] - c[i] <= j - i
    BY <1>1, <2>3
  <2> HIDE DEF c, s, n
  <2> QED
    BY <1>4, <2>1, <2>2, <2>3 DEF Counts
<1>7. TraceBy(s, out, in, c)
  <2>1. c[2 * n] = n
    BY <1>1
  <2>2. ASSUME NEW i \in 1 .. 2 * n
        PROVE  /\ s[i].op = "send" => out[c[i]] = Message(s[i])
               /\ s[i].op # "send" => s[i].op = "recv" /\ in[i - c[i]] = s[i]
    <3>1. CASE i % 2 = 1
      <4>a. c[i] = k(i)
        BY <1>1
      <4>b. k(i) \in 1 .. n /\ s[i] = IF i % 2 = 1 THEN S(k(i)) ELSE R(k(i))
        BY <1>3
      <4>1. s[i] = S(k(i)) /\ k(i) \in 1 .. n /\ c[i] = k(i)
        <5> HIDE DEF s, S, R, k, c, n
        <5> QED
          BY <3>1, <4>a, <4>b
      <4>2. out[k(i)] = M(k(i)) /\ Message(S(k(i))) = M(k(i))
        BY <1>2, <4>1
      <4>3. S(k(i)).op = "send"
        OBVIOUS
      <4> HIDE DEF s, S, M, k, c, out
      <4> QED
        BY <4>1, <4>2, <4>3
    <3>2. CASE i % 2 # 1
      <4>a. c[i] = k(i)
        BY <1>1
      <4>b. /\ k(i) \in 1 .. n /\ s[i] = IF i % 2 = 1 THEN S(k(i)) ELSE R(k(i))
            /\ i % 2 # 1 => i = 2 * k(i)
        BY <1>3
      <4>1. s[i] = R(k(i)) /\ k(i) \in 1 .. n /\ c[i] = k(i) /\ i = 2 * k(i)
        <5> HIDE DEF s, S, R, k, c, n
        <5> QED
          BY <3>2, <4>a, <4>b
      <4>2. i - c[i] = k(i)
        <5> HIDE DEF k, c
        <5> QED
          BY <1>1, <4>1
      <4>3. in[k(i)] = R(k(i)) /\ R(k(i)).op = "recv"
        BY <4>1
      <4> HIDE DEF s, R, k, c, in
      <4> QED
        BY <4>1, <4>2, <4>3
    <3> QED
      BY <3>1, <3>2
  <2>3. 2 * n - n = n
    BY <1>1
  <2> HIDE DEF s, c, out, in, n
  <2> QED
    BY <1>4, <1>5, <1>6, <2>1, <2>2, <2>3 DEF TraceBy
<1>8. Trace(s, out, in)
  <2> HIDE DEF s, out, in, c
  <2> QED
    BY <1>4, <1>5, <1>7 DEF Trace
<1>9. Fits(Q, <<>> \o out, in) /\ Fits(Messages, <<>> \o out, in)
  <2>1. \A j \in 1 .. n : out[j] \in Q /\ out[j] \in Messages /\ Fit(out[j], in[j])
    <3> TAKE j \in 1 .. n
    <3>1. out[j] = M(j) /\ in[j] = R(j) /\ cs[j] \in Words
      BY <1>1
    <3>2. M(j) \in Q /\ M(j) \in Messages
      BY <1>1, <1>2, <3>1
    <3>3. Fit(M(j), R(j))
      BY DEF Fit, Mixes
    <3> HIDE DEF M, R, out, in
    <3> QED
      BY <3>1, <3>2, <3>3
  <2>2. <<>> \o out = out
    <3> HIDE DEF out
    <3> QED
      BY <1>5, ConcatEmptySeq
  <2> HIDE DEF out, in, n
  <2> QED
    BY <1>5, <2>1, <2>2 DEF Fits
<1> HIDE DEF s, out, in
<1> QED
  BY <1>8, <1>9 DEF Dual, Matches, s

-----------------------------------------------------------------------------
(* What the verifier still does before it serves records *)

\* What the handlers need to know of the round.
Expect(r, h, k) == [is_resumption_run |-> r, resumed_handshake |-> h, psk_shares |-> k]

\* The handlers from a state on, up to the loop of derive_psk.
From_RES_DONE == write_completed_res \o Serve
From_DERIVE_RES == derive_res \o From_RES_DONE
From_GCM_SHARE_DONE == write_completed_derivation \o From_DERIVE_RES
From_GCM_SHARE_DERIVE == server_derive_gcm_shares \o From_GCM_SHARE_DONE
From_DERIVE_TS == derive_ts \o From_GCM_SHARE_DERIVE
From_CERT_RECV == write_cert_recv \o From_DERIVE_TS
From_CERT_WAIT(e) == do_cert_wait(e) \o From_CERT_RECV
From_KS_DONE(e) == write_ks_done \o From_CERT_WAIT(e)
From_KS_WAIT(e) == do_ks(e) \o From_KS_DONE(e)
From_ECTF_DONE(e) == finish_ectf \o From_KS_WAIT(e)
From_ECTF_WAIT(e) == do_ectf \o From_ECTF_DONE(e)
From_WRITING_HS_RECV(e) == write_hs_recv \o From_ECTF_WAIT(e)
From_READING_SKS(e) == read_sks_keyshare \o From_WRITING_HS_RECV(e)
From_PSK_BINDER(e) == do_psk_binder(e) \o From_READING_SKS(e)
From_WRITING_KS(e) == send_additive_share \o From_PSK_BINDER(e)
From_READING_KS(e) == read_keyshare_after_handshake \o From_WRITING_KS(e)
From_MASK_COMMIT(e) == read_mask_commitments \o From_READING_KS(e)
From_CIRCUIT_PREPROC(e) == do_preproc \o From_MASK_COMMIT(e)

\* What is left once the handler of state s is through.
After(s, e) ==
    CASE s = "HANDSHAKE_DONE"    -> From_CIRCUIT_PREPROC(e)
      [] s = "CIRCUIT_PREPROC"   -> From_MASK_COMMIT(e)
      [] s = "MASK_COMMIT"       -> From_READING_KS(e)
      [] s = "READING_KS"        -> From_WRITING_KS(e)
      [] s = "MAKING_KS"         -> From_WRITING_KS(e)
      [] s = "WRITING_KS"        -> From_PSK_BINDER(e)
      [] s = "PSK_BINDER"        -> From_READING_SKS(e)
      [] s = "READING_SKS"       -> From_WRITING_HS_RECV(e)
      [] s = "FINISHING_TPH"     -> From_WRITING_HS_RECV(e)
      [] s = "WRITING_HS_RECV"   -> From_ECTF_WAIT(e)
      [] s = "ECTF_WAIT"         -> From_ECTF_DONE(e)
      [] s = "ECTF_DONE"         -> From_KS_WAIT(e)
      [] s = "KS_WAIT"           -> From_KS_DONE(e)
      [] s = "KS_DONE"           -> From_CERT_WAIT(e)
      [] s = "CERT_WAIT"         -> From_CERT_RECV
      [] s = "CERT_RECV"         -> From_DERIVE_TS
      [] s = "DERIVE_TS"         -> From_GCM_SHARE_DERIVE
      [] s = "GCM_SHARE_DERIVE"  -> From_GCM_SHARE_DONE
      [] s = "GCM_SHARE_DONE"    -> From_DERIVE_RES
      [] s = "DERIVE_RES"        -> From_RES_DONE
      [] s = "RES_DONE"          -> Serve
      [] OTHER                  -> <<>>

\* The states of the handshake, and the loop of derive_psk.
Handshaking == {States[i] : i \in 1 .. 21}
HsStates == Handshaking \cup {"DERIVE_PSK"}

LEMMA StatesDomain == Len(States) = 25 /\ DOMAIN States = 1 .. 25
BY DEF States

LEMMA NextState ==
    /\ next_state("HANDSHAKE_DONE") = "CIRCUIT_PREPROC"
    /\ next_state("CIRCUIT_PREPROC") = "MASK_COMMIT"
    /\ next_state("MASK_COMMIT") = "READING_KS"
    /\ next_state("READING_KS") = "MAKING_KS"
    /\ next_state("MAKING_KS") = "WRITING_KS"
    /\ next_state("WRITING_KS") = "PSK_BINDER"
    /\ next_state("PSK_BINDER") = "READING_SKS"
    /\ next_state("READING_SKS") = "FINISHING_TPH"
    /\ next_state("FINISHING_TPH") = "WRITING_HS_RECV"
    /\ next_state("WRITING_HS_RECV") = "ECTF_WAIT"
    /\ next_state("ECTF_WAIT") = "ECTF_DONE"
    /\ next_state("ECTF_DONE") = "KS_WAIT"
    /\ next_state("KS_WAIT") = "KS_DONE"
    /\ next_state("KS_DONE") = "CERT_WAIT"
    /\ next_state("CERT_WAIT") = "CERT_RECV"
    /\ next_state("CERT_RECV") = "DERIVE_TS"
    /\ next_state("DERIVE_TS") = "GCM_SHARE_DERIVE"
    /\ next_state("GCM_SHARE_DERIVE") = "GCM_SHARE_DONE"
    /\ next_state("GCM_SHARE_DONE") = "DERIVE_RES"
    /\ next_state("DERIVE_RES") = "RES_DONE"
    /\ next_state("RES_DONE") = "DERIVE_PSK"
    /\ next_state("DERIVE_PSK") = "PSK_DONE"
    /\ next_state("PSK_DONE") = "SHUTDOWN"
    /\ next_state("SHUTDOWN") = "DONE"
<1>1. next_state("HANDSHAKE_DONE") = "CIRCUIT_PREPROC"
  <2>1. \A j \in 1 .. 25 : States[j] = "HANDSHAKE_DONE" <=> j = 1
    BY DEF States
  <2>2. (CHOOSE j \in DOMAIN States : States[j] = "HANDSHAKE_DONE") = 1
    BY <2>1, StatesDomain
  <2>3. States[1 + 1] = "CIRCUIT_PREPROC"
    BY DEF States
  <2> QED
    BY <2>2, <2>3 DEF next_state
<1>2. next_state("CIRCUIT_PREPROC") = "MASK_COMMIT"
  <2>1. \A j \in 1 .. 25 : States[j] = "CIRCUIT_PREPROC" <=> j = 2
    BY DEF States
  <2>2. (CHOOSE j \in DOMAIN States : States[j] = "CIRCUIT_PREPROC") = 2
    BY <2>1, StatesDomain
  <2>3. States[2 + 1] = "MASK_COMMIT"
    BY DEF States
  <2> QED
    BY <2>2, <2>3 DEF next_state
<1>3. next_state("MASK_COMMIT") = "READING_KS"
  <2>1. \A j \in 1 .. 25 : States[j] = "MASK_COMMIT" <=> j = 3
    BY DEF States
  <2>2. (CHOOSE j \in DOMAIN States : States[j] = "MASK_COMMIT") = 3
    BY <2>1, StatesDomain
  <2>3. States[3 + 1] = "READING_KS"
    BY DEF States
  <2> QED
    BY <2>2, <2>3 DEF next_state
<1>4. next_state("READING_KS") = "MAKING_KS"
  <2>1. \A j \in 1 .. 25 : States[j] = "READING_KS" <=> j = 4
    BY DEF States
  <2>2. (CHOOSE j \in DOMAIN States : States[j] = "READING_KS") = 4
    BY <2>1, StatesDomain
  <2>3. States[4 + 1] = "MAKING_KS"
    BY DEF States
  <2> QED
    BY <2>2, <2>3 DEF next_state
<1>5. next_state("MAKING_KS") = "WRITING_KS"
  <2>1. \A j \in 1 .. 25 : States[j] = "MAKING_KS" <=> j = 5
    BY DEF States
  <2>2. (CHOOSE j \in DOMAIN States : States[j] = "MAKING_KS") = 5
    BY <2>1, StatesDomain
  <2>3. States[5 + 1] = "WRITING_KS"
    BY DEF States
  <2> QED
    BY <2>2, <2>3 DEF next_state
<1>6. next_state("WRITING_KS") = "PSK_BINDER"
  <2>1. \A j \in 1 .. 25 : States[j] = "WRITING_KS" <=> j = 6
    BY DEF States
  <2>2. (CHOOSE j \in DOMAIN States : States[j] = "WRITING_KS") = 6
    BY <2>1, StatesDomain
  <2>3. States[6 + 1] = "PSK_BINDER"
    BY DEF States
  <2> QED
    BY <2>2, <2>3 DEF next_state
<1>7. next_state("PSK_BINDER") = "READING_SKS"
  <2>1. \A j \in 1 .. 25 : States[j] = "PSK_BINDER" <=> j = 7
    BY DEF States
  <2>2. (CHOOSE j \in DOMAIN States : States[j] = "PSK_BINDER") = 7
    BY <2>1, StatesDomain
  <2>3. States[7 + 1] = "READING_SKS"
    BY DEF States
  <2> QED
    BY <2>2, <2>3 DEF next_state
<1>8. next_state("READING_SKS") = "FINISHING_TPH"
  <2>1. \A j \in 1 .. 25 : States[j] = "READING_SKS" <=> j = 8
    BY DEF States
  <2>2. (CHOOSE j \in DOMAIN States : States[j] = "READING_SKS") = 8
    BY <2>1, StatesDomain
  <2>3. States[8 + 1] = "FINISHING_TPH"
    BY DEF States
  <2> QED
    BY <2>2, <2>3 DEF next_state
<1>9. next_state("FINISHING_TPH") = "WRITING_HS_RECV"
  <2>1. \A j \in 1 .. 25 : States[j] = "FINISHING_TPH" <=> j = 9
    BY DEF States
  <2>2. (CHOOSE j \in DOMAIN States : States[j] = "FINISHING_TPH") = 9
    BY <2>1, StatesDomain
  <2>3. States[9 + 1] = "WRITING_HS_RECV"
    BY DEF States
  <2> QED
    BY <2>2, <2>3 DEF next_state
<1>10. next_state("WRITING_HS_RECV") = "ECTF_WAIT"
  <2>1. \A j \in 1 .. 25 : States[j] = "WRITING_HS_RECV" <=> j = 10
    BY DEF States
  <2>2. (CHOOSE j \in DOMAIN States : States[j] = "WRITING_HS_RECV") = 10
    BY <2>1, StatesDomain
  <2>3. States[10 + 1] = "ECTF_WAIT"
    BY DEF States
  <2> QED
    BY <2>2, <2>3 DEF next_state
<1>11. next_state("ECTF_WAIT") = "ECTF_DONE"
  <2>1. \A j \in 1 .. 25 : States[j] = "ECTF_WAIT" <=> j = 11
    BY DEF States
  <2>2. (CHOOSE j \in DOMAIN States : States[j] = "ECTF_WAIT") = 11
    BY <2>1, StatesDomain
  <2>3. States[11 + 1] = "ECTF_DONE"
    BY DEF States
  <2> QED
    BY <2>2, <2>3 DEF next_state
<1>12. next_state("ECTF_DONE") = "KS_WAIT"
  <2>1. \A j \in 1 .. 25 : States[j] = "ECTF_DONE" <=> j = 12
    BY DEF States
  <2>2. (CHOOSE j \in DOMAIN States : States[j] = "ECTF_DONE") = 12
    BY <2>1, StatesDomain
  <2>3. States[12 + 1] = "KS_WAIT"
    BY DEF States
  <2> QED
    BY <2>2, <2>3 DEF next_state
<1>13. next_state("KS_WAIT") = "KS_DONE"
  <2>1. \A j \in 1 .. 25 : States[j] = "KS_WAIT" <=> j = 13
    BY DEF States
  <2>2. (CHOOSE j \in DOMAIN States : States[j] = "KS_WAIT") = 13
    BY <2>1, StatesDomain
  <2>3. States[13 + 1] = "KS_DONE"
    BY DEF States
  <2> QED
    BY <2>2, <2>3 DEF next_state
<1>14. next_state("KS_DONE") = "CERT_WAIT"
  <2>1. \A j \in 1 .. 25 : States[j] = "KS_DONE" <=> j = 14
    BY DEF States
  <2>2. (CHOOSE j \in DOMAIN States : States[j] = "KS_DONE") = 14
    BY <2>1, StatesDomain
  <2>3. States[14 + 1] = "CERT_WAIT"
    BY DEF States
  <2> QED
    BY <2>2, <2>3 DEF next_state
<1>15. next_state("CERT_WAIT") = "CERT_RECV"
  <2>1. \A j \in 1 .. 25 : States[j] = "CERT_WAIT" <=> j = 15
    BY DEF States
  <2>2. (CHOOSE j \in DOMAIN States : States[j] = "CERT_WAIT") = 15
    BY <2>1, StatesDomain
  <2>3. States[15 + 1] = "CERT_RECV"
    BY DEF States
  <2> QED
    BY <2>2, <2>3 DEF next_state
<1>16. next_state("CERT_RECV") = "DERIVE_TS"
  <2>1. \A j \in 1 .. 25 : States[j] = "CERT_RECV" <=> j = 16
    BY DEF States
  <2>2. (CHOOSE j \in DOMAIN States : States[j] = "CERT_RECV") = 16
    BY <2>1, StatesDomain
  <2>3. States[16 + 1] = "DERIVE_TS"
    BY DEF States
  <2> QED
    BY <2>2, <2>3 DEF next_state
<1>17. next_state("DERIVE_TS") = "GCM_SHARE_DERIVE"
  <2>1. \A j \in 1 .. 25 : States[j] = "DERIVE_TS" <=> j = 17
    BY DEF States
  <2>2. (CHOOSE j \in DOMAIN States : States[j] = "DERIVE_TS") = 17
    BY <2>1, StatesDomain
  <2>3. States[17 + 1] = "GCM_SHARE_DERIVE"
    BY DEF States
  <2> QED
    BY <2>2, <2>3 DEF next_state
<1>18. next_state("GCM_SHARE_DERIVE") = "GCM_SHARE_DONE"
  <2>1. \A j \in 1 .. 25 : States[j] = "GCM_SHARE_DERIVE" <=> j = 18
    BY DEF States
  <2>2. (CHOOSE j \in DOMAIN States : States[j] = "GCM_SHARE_DERIVE") = 18
    BY <2>1, StatesDomain
  <2>3. States[18 + 1] = "GCM_SHARE_DONE"
    BY DEF States
  <2> QED
    BY <2>2, <2>3 DEF next_state
<1>19. next_state("GCM_SHARE_DONE") = "DERIVE_RES"
  <2>1. \A j \in 1 .. 25 : States[j] = "GCM_SHARE_DONE" <=> j = 19
    BY DEF States
  <2>2. (CHOOSE j \in DOMAIN States : States[j] = "GCM_SHARE_DONE") = 19
    BY <2>1, StatesDomain
  <2>3. States[19 + 1] = "DERIVE_RES"
    BY DEF States
  <2> QED
    BY <2>2, <2>3 DEF next_state
<1>20. next_state("DERIVE_RES") = "RES_DONE"
  <2>1. \A j \in 1 .. 25 : States[j] = "DERIVE_RES" <=> j = 20
    BY DEF States
  <2>2. (CHOOSE j \in DOMAIN States : States[j] = "DERIVE_RES") = 20
    BY <2>1, StatesDomain
  <2>3. States[20 + 1] = "RES_DONE"
    BY DEF States
  <2> QED
    BY <2>2, <2>3 DEF next_state
<1>21. next_state("RES_DONE") = "DERIVE_PSK"
  <2>1. \A j \in 1 .. 25 : States[j] = "RES_DONE" <=> j = 21
    BY DEF States
  <2>2. (CHOOSE j \in DOMAIN States : States[j] = "RES_DONE") = 21
    BY <2>1, StatesDomain
  <2>3. States[21 + 1] = "DERIVE_PSK"
    BY DEF States
  <2> QED
    BY <2>2, <2>3 DEF next_state
<1>22. next_state("DERIVE_PSK") = "PSK_DONE"
  <2>1. \A j \in 1 .. 25 : States[j] = "DERIVE_PSK" <=> j = 22
    BY DEF States
  <2>2. (CHOOSE j \in DOMAIN States : States[j] = "DERIVE_PSK") = 22
    BY <2>1, StatesDomain
  <2>3. States[22 + 1] = "PSK_DONE"
    BY DEF States
  <2> QED
    BY <2>2, <2>3 DEF next_state
<1>23. next_state("PSK_DONE") = "SHUTDOWN"
  <2>1. \A j \in 1 .. 25 : States[j] = "PSK_DONE" <=> j = 23
    BY DEF States
  <2>2. (CHOOSE j \in DOMAIN States : States[j] = "PSK_DONE") = 23
    BY <2>1, StatesDomain
  <2>3. States[23 + 1] = "SHUTDOWN"
    BY DEF States
  <2> QED
    BY <2>2, <2>3 DEF next_state
<1>24. next_state("SHUTDOWN") = "DONE"
  <2>1. \A j \in 1 .. 25 : States[j] = "SHUTDOWN" <=> j = 24
    BY DEF States
  <2>2. (CHOOSE j \in DOMAIN States : States[j] = "SHUTDOWN") = 24
    BY <2>1, StatesDomain
  <2>3. States[24 + 1] = "DONE"
    BY DEF States
  <2> QED
    BY <2>2, <2>3 DEF next_state
<1> QED
  BY <1>1, <1>2, <1>3, <1>4, <1>5, <1>6, <1>7, <1>8, <1>9, <1>10, <1>11, <1>12, <1>13, <1>14, <1>15, <1>16,
     <1>17, <1>18, <1>19, <1>20, <1>21, <1>22, <1>23, <1>24

LEMMA Cat == \A s, t \in Scripts : s \o t \in Scripts
BY ConcatProperties DEF Scripts

LEMMA Assoc == \A s, t, u \in Scripts : (s \o t) \o u = s \o (t \o u)
BY ConcatAssociative DEF Scripts

LEMMA Nil == <<>> \in Scripts /\ \A s \in Scripts : s \o <<>> = s /\ <<>> \o s = s
BY ConcatEmptySeq DEF Scripts

LEMMA OneHeader ==
    /\ \A h \in Words : <<Send(h)>> \in Scripts
    /\ \A hs \in SUBSET Words : <<Recv(hs)>> \in Scripts
<1>1. \A e \in Instrs : <<e>> \in Scripts
  BY DEF Scripts
<1> QED
  BY <1>1, HeaderTypes, RecvTypes

LEMMA CircuitTypes ==
    ASSUME NEW c \in Words, NEW x \in Int
    PROVE  Circuit(c, x) \in Scripts
<1>1. [m |-> <<"circuit", c>>, x |-> x] \in Messages
  BY DEF Messages, Names
<1>2. Dual(Messages, Circuit(c, x), Circuit(c, x))
  BY <1>1, DualCircuit
<1> QED
  BY <1>2, MatchTypes DEF Dual

LEMMA ServeTypes == Serve \in Scripts /\ Serve # <<>> /\ Head(Serve).op = "serve" /\ Tail(Serve) = <<>>
<1> DEFINE e == [op |-> "serve", m |-> {}, x |-> 0]
<1>1. e \in Instrs
  BY DEF Instrs, AnyInstr
<1> QED
  BY <1>1 DEF Serve, Scripts

CircuitList ==
    <<"hs", "traffic", "gcm", "res", "psk1", "psk8", "psk0", "binder">>
    \o (IF true_surf THEN <<"vfy_commit">> ELSE <<"vfy", "ks">>) \o <<"aes", "tag">>

LEMMA CircuitListTypes == CircuitList \in Seq(Words)
<1>1. /\ <<"hs", "traffic", "gcm", "res", "psk1", "psk8", "psk0", "binder">> \in Seq(Words)
      /\ <<"vfy_commit">> \in Seq(Words) /\ <<"vfy", "ks">> \in Seq(Words)
      /\ <<"aes", "tag">> \in Seq(Words)
  BY DEF Words
<1>2. (IF true_surf THEN <<"vfy_commit">> ELSE <<"vfy", "ks">>) \in Seq(Words)
  BY <1>1
<1> QED
  BY <1>1, <1>2, ConcatProperties DEF CircuitList

LEMMA PreprocessTypes == Preprocess(CircuitList) \in Scripts
<1>1. \A c \in Words : [m |-> <<"preproc", c>>, x |-> 0] \in Messages
  BY DEF Messages, Names
<1>2. Dual(Messages, Preprocess(CircuitList), Preprocess(CircuitList))
  BY <1>1, CircuitListTypes, DualPreprocess
<1> QED
  BY <1>2, MatchTypes DEF Dual

Expects == [is_resumption_run : BOOLEAN, resumed_handshake : BOOLEAN, psk_shares : Int]

LEMMA HandlerTypes ==
    /\ write_handshake_done \in Scripts /\ do_preproc \in Scripts
    /\ read_mask_commitments \in Scripts /\ read_keyshare_after_handshake \in Scripts
    /\ send_additive_share \in Scripts /\ read_sks_keyshare \in Scripts
    /\ write_hs_recv \in Scripts /\ do_ectf \in Scripts /\ finish_ectf \in Scripts
    /\ write_ks_done \in Scripts /\ write_cert_recv \in Scripts /\ derive_ts \in Scripts
    /\ server_derive_gcm_shares \in Scripts /\ write_completed_derivation \in Scripts
    /\ derive_res \in Scripts /\ write_completed_res \in Scripts
<1> USE OneHeader, Nil
<1>1. \A c \in Words : Circuit(c, 0) \in Scripts
  <2>1. 0 \in Int
    OBVIOUS
  <2> QED
    BY <2>1, CircuitTypes
<1>2. write_handshake_done \in Scripts
  <2>1. /\ Send("DONE_HS") \in Instrs /\ Recv({"RUN_FULL", "RUN_RESUMED"}) \in Instrs
    BY HeaderTypes, RecvTypes DEF Words
  <2> QED
    BY <2>1 DEF write_handshake_done, Scripts
<1>3. do_preproc \in Scripts
  BY PreprocessTypes DEF do_preproc, CircuitList
<1>4. do_ectf \in Scripts
  <2>1. /\ Recv({"HS_MODE_FULL", "HS_MODE_RESUMED"}) \in Instrs /\ Recv({"DO_ECTF"}) \in Instrs
    BY RecvTypes DEF Words
  <2>2. <<Recv({"HS_MODE_FULL", "HS_MODE_RESUMED"}), Recv({"DO_ECTF"})>> \in Scripts
    BY <2>1 DEF Scripts
  <2> QED
    BY <1>1, <2>2, Cat DEF do_ectf, Words
<1>5. derive_ts \in Scripts /\ server_derive_gcm_shares \in Scripts /\ derive_res \in Scripts
  <2>1. /\ <<Recv({"DERIVE_TS"})>> \in Scripts /\ <<Recv({"GCM_SHARE_START"})>> \in Scripts
        /\ <<Recv({"DERIVE_RES"})>> \in Scripts
    BY DEF Words
  <2> QED
    BY <1>1, <2>1, Cat DEF derive_ts, server_derive_gcm_shares, derive_res, Words
<1>6. /\ read_mask_commitments \in Scripts /\ read_keyshare_after_handshake \in Scripts
      /\ read_sks_keyshare \in Scripts
  BY DEF read_mask_commitments, read_keyshare_after_handshake, read_sks_keyshare,
         Words
<1>7. /\ send_additive_share \in Scripts /\ write_hs_recv \in Scripts /\ finish_ectf \in Scripts
      /\ write_ks_done \in Scripts /\ write_cert_recv \in Scripts
      /\ write_completed_derivation \in Scripts /\ write_completed_res \in Scripts
  BY DEF send_additive_share, write_hs_recv, finish_ectf, write_ks_done, write_cert_recv,
         write_completed_derivation, write_completed_res, Words
<1> QED
  BY <1>2, <1>3, <1>4, <1>5, <1>6, <1>7

LEMMA ChoiceTypes ==
    ASSUME NEW e, e.psk_shares \in Int
    PROVE  do_psk_binder(e) \in Scripts /\ do_ks(e) \in Scripts /\ do_cert_wait(e) \in Scripts
<1>1. /\ <<Recv({"DERIVE_BINDER"})>> \in Scripts /\ Circuit("binder", e.psk_shares) \in Scripts
      /\ Circuit("hs", e.psk_shares) \in Scripts /\ Circuit("hs", NoPsk) \in Scripts
      /\ <<Recv({"CERTIFICATE_CTX_SEND"})>> \in Scripts
  BY OneHeader, CircuitTypes DEF NoPsk, Words
<1> QED
  BY <1>1, Cat, Nil DEF do_psk_binder, do_ks, do_cert_wait


LEMMA FromTypes ==
    ASSUME NEW e, e.psk_shares \in Int
    PROVE  /\ From_RES_DONE \in Scripts
           /\ From_DERIVE_RES \in Scripts
           /\ From_GCM_SHARE_DONE \in Scripts
           /\ From_GCM_SHARE_DERIVE \in Scripts
           /\ From_DERIVE_TS \in Scripts
           /\ From_CERT_RECV \in Scripts
           /\ From_CERT_WAIT(e) \in Scripts
           /\ From_KS_DONE(e) \in Scripts
           /\ From_KS_WAIT(e) \in Scripts
           /\ From_ECTF_DONE(e) \in Scripts
           /\ From_ECTF_WAIT(e) \in Scripts
           /\ From_WRITING_HS_RECV(e) \in Scripts
           /\ From_READING_SKS(e) \in Scripts
           /\ From_PSK_BINDER(e) \in Scripts
           /\ From_WRITING_KS(e) \in Scripts
           /\ From_READING_KS(e) \in Scripts
           /\ From_MASK_COMMIT(e) \in Scripts
           /\ From_CIRCUIT_PREPROC(e) \in Scripts
<1> USE Cat, HandlerTypes, ChoiceTypes
<1>1. From_RES_DONE \in Scripts
  BY ServeTypes DEF From_RES_DONE
<1>2. From_DERIVE_RES \in Scripts
  BY <1>1 DEF From_DERIVE_RES
<1>3. From_GCM_SHARE_DONE \in Scripts
  BY <1>2 DEF From_GCM_SHARE_DONE
<1>4. From_GCM_SHARE_DERIVE \in Scripts
  BY <1>3 DEF From_GCM_SHARE_DERIVE
<1>5. From_DERIVE_TS \in Scripts
  BY <1>4 DEF From_DERIVE_TS
<1>6. From_CERT_RECV \in Scripts
  BY <1>5 DEF From_CERT_RECV
<1>7. From_CERT_WAIT(e) \in Scripts
  BY <1>6 DEF From_CERT_WAIT
<1>8. From_KS_DONE(e) \in Scripts
  BY <1>7 DEF From_KS_DONE
<1>9. From_KS_WAIT(e) \in Scripts
  BY <1>8 DEF From_KS_WAIT
<1>10. From_ECTF_DONE(e) \in Scripts
  BY <1>9 DEF From_ECTF_DONE
<1>11. From_ECTF_WAIT(e) \in Scripts
  BY <1>10 DEF From_ECTF_WAIT
<1>12. From_WRITING_HS_RECV(e) \in Scripts
  BY <1>11 DEF From_WRITING_HS_RECV
<1>13. From_READING_SKS(e) \in Scripts
  BY <1>12 DEF From_READING_SKS
<1>14. From_PSK_BINDER(e) \in Scripts
  BY <1>13 DEF From_PSK_BINDER
<1>15. From_WRITING_KS(e) \in Scripts
  BY <1>14 DEF From_WRITING_KS
<1>16. From_READING_KS(e) \in Scripts
  BY <1>15 DEF From_READING_KS
<1>17. From_MASK_COMMIT(e) \in Scripts
  BY <1>16 DEF From_MASK_COMMIT
<1>18. From_CIRCUIT_PREPROC(e) \in Scripts
  BY <1>17 DEF From_CIRCUIT_PREPROC
<1> QED
  BY <1>1, <1>2, <1>3, <1>4, <1>5, <1>6, <1>7, <1>8, <1>9, <1>10, <1>11, <1>12, <1>13, <1>14, <1>15, <1>16, <1>17, <1>18

LEMMA AfterTypes ==
    ASSUME NEW e, e.psk_shares \in Int, NEW s
    PROVE  After(s, e) \in Scripts
BY FromTypes, Nil, ServeTypes DEF After

LEMMA HsStatesAre ==
    /\ Handshaking = {"HANDSHAKE_DONE", "CIRCUIT_PREPROC", "MASK_COMMIT", "READING_KS", "MAKING_KS",
                      "WRITING_KS", "PSK_BINDER", "READING_SKS", "FINISHING_TPH", "WRITING_HS_RECV",
                      "ECTF_WAIT", "ECTF_DONE", "KS_WAIT", "KS_DONE", "CERT_WAIT", "CERT_RECV", "DERIVE_TS",
                      "GCM_SHARE_DERIVE", "GCM_SHARE_DONE", "DERIVE_RES", "RES_DONE"}
    /\ HsStates = Handshaking \cup {"DERIVE_PSK"}
<1>1. \A i \in 1 .. 21 : States[i] \in {"HANDSHAKE_DONE", "CIRCUIT_PREPROC", "MASK_COMMIT", "READING_KS",
                                        "MAKING_KS", "WRITING_KS", "PSK_BINDER", "READING_SKS",
                                        "FINISHING_TPH", "WRITING_HS_RECV", "ECTF_WAIT", "ECTF_DONE",
                                        "KS_WAIT", "KS_DONE", "CERT_WAIT", "CERT_RECV", "DERIVE_TS",
                                        "GCM_SHARE_DERIVE", "GCM_SHARE_DONE", "DERIVE_RES", "RES_DONE"}
  BY DEF States
<1>2. States[1] = "HANDSHAKE_DONE" /\ States[2] = "CIRCUIT_PREPROC" /\ States[3] = "MASK_COMMIT"
      /\ States[4] = "READING_KS" /\ States[5] = "MAKING_KS" /\ States[6] = "WRITING_KS"
      /\ States[7] = "PSK_BINDER" /\ States[8] = "READING_SKS" /\ States[9] = "FINISHING_TPH"
      /\ States[10] = "WRITING_HS_RECV" /\ States[11] = "ECTF_WAIT" /\ States[12] = "ECTF_DONE"
      /\ States[13] = "KS_WAIT" /\ States[14] = "KS_DONE" /\ States[15] = "CERT_WAIT"
      /\ States[16] = "CERT_RECV" /\ States[17] = "DERIVE_TS" /\ States[18] = "GCM_SHARE_DERIVE"
      /\ States[19] = "GCM_SHARE_DONE" /\ States[20] = "DERIVE_RES" /\ States[21] = "RES_DONE"
  BY DEF States
<1> QED
  BY <1>1, <1>2 DEF Handshaking, HsStates

\* The handlers of the handshake follow each other.
LEMMA AfterStep ==
    ASSUME NEW s \in Handshaking, NEW e, e.psk_shares \in Int, NEW v,
           v.is_resumption_run = e.is_resumption_run, v.psk_shares = e.psk_shares,
           s \in {"ECTF_DONE", "KS_DONE"} => v.resumed_handshake = e.resumed_handshake
    PROVE  /\ next_state(s) \in HsStates
           /\ Handler(next_state(s), v) \in Scripts
           /\ After(s, e) = Handler(next_state(s), v) \o After(next_state(s), e)
<1>a. /\ do_psk_binder(v) = do_psk_binder(e)
      /\ s = "ECTF_DONE" => do_ks(v) = do_ks(e)
      /\ s = "KS_DONE" => do_cert_wait(v) = do_cert_wait(e)
  BY DEF do_psk_binder, do_ks, do_cert_wait
<1>b. \A t : After(t, e) \in Scripts
  BY AfterTypes
<1>1. CASE s = "HANDSHAKE_DONE"
  <2>1. Handler("CIRCUIT_PREPROC", v) = do_preproc
    BY DEF Handler
  <2>2. After("HANDSHAKE_DONE", e) = From_CIRCUIT_PREPROC(e) /\ After("CIRCUIT_PREPROC", e) = From_MASK_COMMIT(e)
    BY DEF After
  <2>3. do_preproc \in Scripts
    BY <1>a, HandlerTypes, ChoiceTypes
  <2>4. After("HANDSHAKE_DONE", e) = do_preproc \o After("CIRCUIT_PREPROC", e)
    BY <1>a, <2>2 DEF From_CIRCUIT_PREPROC
  <2> QED
    BY <1>1, <2>1, <2>3, <2>4, NextState, HsStatesAre
<1>2. CASE s = "CIRCUIT_PREPROC"
  <2>1. Handler("MASK_COMMIT", v) = read_mask_commitments
    BY DEF Handler
  <2>2. After("CIRCUIT_PREPROC", e) = From_MASK_COMMIT(e) /\ After("MASK_COMMIT", e) = From_READING_KS(e)
    BY DEF After
  <2>3. read_mask_commitments \in Scripts
    BY <1>a, HandlerTypes, ChoiceTypes
  <2>4. After("CIRCUIT_PREPROC", e) = read_mask_commitments \o After("MASK_COMMIT", e)
    BY <1>a, <2>2 DEF From_MASK_COMMIT
  <2> QED
    BY <1>2, <2>1, <2>3, <2>4, NextState, HsStatesAre
<1>3. CASE s = "MASK_COMMIT"
  <2>1. Handler("READING_KS", v) = read_keyshare_after_handshake
    BY DEF Handler
  <2>2. After("MASK_COMMIT", e) = From_READING_KS(e) /\ After("READING_KS", e) = From_WRITING_KS(e)
    BY DEF After
  <2>3. read_keyshare_after_handshake \in Scripts
    BY <1>a, HandlerTypes, ChoiceTypes
  <2>4. After("MASK_COMMIT", e) = read_keyshare_after_handshake \o After("READING_KS", e)
    BY <1>a, <2>2 DEF From_READING_KS
  <2> QED
    BY <1>3, <2>1, <2>3, <2>4, NextState, HsStatesAre
<1>4. CASE s = "READING_KS"
  <2>1. Handler("MAKING_KS", v) = <<>>
    BY DEF Handler
  <2>2. After("READING_KS", e) = From_WRITING_KS(e) /\ After("MAKING_KS", e) = From_WRITING_KS(e)
    BY DEF After
  <2> QED
    BY <1>4, <1>b, <2>1, <2>2, Nil, ServeTypes, NextState, HsStatesAre
<1>5. CASE s = "MAKING_KS"
  <2>1. Handler("WRITING_KS", v) = send_additive_share
    BY DEF Handler
  <2>2. After("MAKING_KS", e) = From_WRITING_KS(e) /\ After("WRITING_KS", e) = From_PSK_BINDER(e)
    BY DEF After
  <2>3. send_additive_share \in Scripts
    BY <1>a, HandlerTypes, ChoiceTypes
  <2>4. After("MAKING_KS", e) = send_additive_share \o After("WRITING_KS", e)
    BY <1>a, <2>2 DEF From_WRITING_KS
  <2> QED
    BY <1>5, <2>1, <2>3, <2>4, NextState, HsStatesAre
<1>6. CASE s = "WRITING_KS"
  <2>1. Handler("PSK_BINDER", v) = do_psk_binder(v)
    BY DEF Handler
  <2>2. After("WRITING_KS", e) = From_PSK_BINDER(e) /\ After("PSK_BINDER", e) = From_READING_SKS(e)
    BY DEF After
  <2>3. do_psk_binder(v) \in Scripts
    BY <1>a, HandlerTypes, ChoiceTypes
  <2>4. After("WRITING_KS", e) = do_psk_binder(v) \o After("PSK_BINDER", e)
    BY <1>a, <2>2 DEF From_PSK_BINDER
  <2> QED
    BY <1>6, <2>1, <2>3, <2>4, NextState, HsStatesAre
<1>7. CASE s = "PSK_BINDER"
  <2>1. Handler("READING_SKS", v) = read_sks_keyshare
    BY DEF Handler
  <2>2. After("PSK_BINDER", e) = From_READING_SKS(e) /\ After("READING_SKS", e) = From_WRITING_HS_RECV(e)
    BY DEF After
  <2>3. read_sks_keyshare \in Scripts
    BY <1>a, HandlerTypes, ChoiceTypes
  <2>4. After("PSK_BINDER", e) = read_sks_keyshare \o After("READING_SKS", e)
    BY <1>a, <2>2 DEF From_READING_SKS
  <2> QED
    BY <1>7, <2>1, <2>3, <2>4, NextState, HsStatesAre
<1>8. CASE s = "READING_SKS"
  <2>1. Handler("FINISHING_TPH", v) = <<>>
    BY DEF Handler
  <2>2. After("READING_SKS", e) = From_WRITING_HS_RECV(e) /\ After("FINISHING_TPH", e) = From_WRITING_HS_RECV(e)
    BY DEF After
  <2> QED
    BY <1>8, <1>b, <2>1, <2>2, Nil, ServeTypes, NextState, HsStatesAre
<1>9. CASE s = "FINISHING_TPH"
  <2>1. Handler("WRITING_HS_RECV", v) = write_hs_recv
    BY DEF Handler
  <2>2. After("FINISHING_TPH", e) = From_WRITING_HS_RECV(e) /\ After("WRITING_HS_RECV", e) = From_ECTF_WAIT(e)
    BY DEF After
  <2>3. write_hs_recv \in Scripts
    BY <1>a, HandlerTypes, ChoiceTypes
  <2>4. After("FINISHING_TPH", e) = write_hs_recv \o After("WRITING_HS_RECV", e)
    BY <1>a, <2>2 DEF From_WRITING_HS_RECV
  <2> QED
    BY <1>9, <2>1, <2>3, <2>4, NextState, HsStatesAre
<1>10. CASE s = "WRITING_HS_RECV"
  <2>1. Handler("ECTF_WAIT", v) = do_ectf
    BY DEF Handler
  <2>2. After("WRITING_HS_RECV", e) = From_ECTF_WAIT(e) /\ After("ECTF_WAIT", e) = From_ECTF_DONE(e)
    BY DEF After
  <2>3. do_ectf \in Scripts
    BY <1>a, HandlerTypes, ChoiceTypes
  <2>4. After("WRITING_HS_RECV", e) = do_ectf \o After("ECTF_WAIT", e)
    BY <1>a, <2>2 DEF From_ECTF_WAIT
  <2> QED
    BY <1>10, <2>1, <2>3, <2>4, NextState, HsStatesAre
<1>11. CASE s = "ECTF_WAIT"
  <2>1. Handler("ECTF_DONE", v) = finish_ectf
    BY DEF Handler
  <2>2. After("ECTF_WAIT", e) = From_ECTF_DONE(e) /\ After("ECTF_DONE", e) = From_KS_WAIT(e)
    BY DEF After
  <2>3. finish_ectf \in Scripts
    BY <1>a, HandlerTypes, ChoiceTypes
  <2>4. After("ECTF_WAIT", e) = finish_ectf \o After("ECTF_DONE", e)
    BY <1>a, <2>2 DEF From_ECTF_DONE
  <2> QED
    BY <1>11, <2>1, <2>3, <2>4, NextState, HsStatesAre
<1>12. CASE s = "ECTF_DONE"
  <2>1. Handler("KS_WAIT", v) = do_ks(v)
    BY DEF Handler
  <2>2. After("ECTF_DONE", e) = From_KS_WAIT(e) /\ After("KS_WAIT", e) = From_KS_DONE(e)
    BY DEF After
  <2>3. do_ks(v) \in Scripts
    BY <1>a, <1>12, HandlerTypes, ChoiceTypes
  <2>4. After("ECTF_DONE", e) = do_ks(v) \o After("KS_WAIT", e)
    BY <1>a, <1>12, <2>2 DEF From_KS_WAIT
  <2> QED
    BY <1>12, <2>1, <2>3, <2>4, NextState, HsStatesAre
<1>13. CASE s = "KS_WAIT"
  <2>1. Handler("KS_DONE", v) = write_ks_done
    BY DEF Handler
  <2>2. After("KS_WAIT", e) = From_KS_DONE(e) /\ After("KS_DONE", e) = From_CERT_WAIT(e)
    BY DEF After
  <2>3. write_ks_done \in Scripts
    BY <1>a, HandlerTypes, ChoiceTypes
  <2>4. After("KS_WAIT", e) = write_ks_done \o After("KS_DONE", e)
    BY <1>a, <2>2 DEF From_KS_DONE
  <2> QED
    BY <1>13, <2>1, <2>3, <2>4, NextState, HsStatesAre
<1>14. CASE s = "KS_DONE"
  <2>1. Handler("CERT_WAIT", v) = do_cert_wait(v)
    BY DEF Handler
  <2>2. After("KS_DONE", e) = From_CERT_WAIT(e) /\ After("CERT_WAIT", e) = From_CERT_RECV
    BY DEF After
  <2>3. do_cert_wait(v) \in Scripts
    BY <1>a, <1>14, HandlerTypes, ChoiceTypes
  <2>4. After("KS_DONE", e) = do_cert_wait(v) \o After("CERT_WAIT", e)
    BY <1>a, <1>14, <2>2 DEF From_CERT_WAIT
  <2> QED
    BY <1>14, <2>1, <2>3, <2>4, NextState, HsStatesAre
<1>15. CASE s = "CERT_WAIT"
  <2>1. Handler("CERT_RECV", v) = write_cert_recv
    BY DEF Handler
  <2>2. After("CERT_WAIT", e) = From_CERT_RECV /\ After("CERT_RECV", e) = From_DERIVE_TS
    BY DEF After
  <2>3. write_cert_recv \in Scripts
    BY <1>a, HandlerTypes, ChoiceTypes
  <2>4. After("CERT_WAIT", e) = write_cert_recv \o After("CERT_RECV", e)
    BY <1>a, <2>2 DEF From_CERT_RECV
  <2> QED
    BY <1>15, <2>1, <2>3, <2>4, NextState, HsStatesAre
<1>16. CASE s = "CERT_RECV"
  <2>1. Handler("DERIVE_TS", v) = derive_ts
    BY DEF Handler
  <2>2. After("CERT_RECV", e) = From_DERIVE_TS /\ After("DERIVE_TS", e) = From_GCM_SHARE_DERIVE
    BY DEF After
  <2>3. derive_ts \in Scripts
    BY <1>a, HandlerTypes, ChoiceTypes
  <2>4. After("CERT_RECV", e) = derive_ts \o After("DERIVE_TS", e)
    BY <1>a, <2>2 DEF From_DERIVE_TS
  <2> QED
    BY <1>16, <2>1, <2>3, <2>4, NextState, HsStatesAre
<1>17. CASE s = "DERIVE_TS"
  <2>1. Handler("GCM_SHARE_DERIVE", v) = server_derive_gcm_shares
    BY DEF Handler
  <2>2. After("DERIVE_TS", e) = From_GCM_SHARE_DERIVE /\ After("GCM_SHARE_DERIVE", e) = From_GCM_SHARE_DONE
    BY DEF After
  <2>3. server_derive_gcm_shares \in Scripts
    BY <1>a, HandlerTypes, ChoiceTypes
  <2>4. After("DERIVE_TS", e) = server_derive_gcm_shares \o After("GCM_SHARE_DERIVE", e)
    BY <1>a, <2>2 DEF From_GCM_SHARE_DERIVE
  <2> QED
    BY <1>17, <2>1, <2>3, <2>4, NextState, HsStatesAre
<1>18. CASE s = "GCM_SHARE_DERIVE"
  <2>1. Handler("GCM_SHARE_DONE", v) = write_completed_derivation
    BY DEF Handler
  <2>2. After("GCM_SHARE_DERIVE", e) = From_GCM_SHARE_DONE /\ After("GCM_SHARE_DONE", e) = From_DERIVE_RES
    BY DEF After
  <2>3. write_completed_derivation \in Scripts
    BY <1>a, HandlerTypes, ChoiceTypes
  <2>4. After("GCM_SHARE_DERIVE", e) = write_completed_derivation \o After("GCM_SHARE_DONE", e)
    BY <1>a, <2>2 DEF From_GCM_SHARE_DONE
  <2> QED
    BY <1>18, <2>1, <2>3, <2>4, NextState, HsStatesAre
<1>19. CASE s = "GCM_SHARE_DONE"
  <2>1. Handler("DERIVE_RES", v) = derive_res
    BY DEF Handler
  <2>2. After("GCM_SHARE_DONE", e) = From_DERIVE_RES /\ After("DERIVE_RES", e) = From_RES_DONE
    BY DEF After
  <2>3. derive_res \in Scripts
    BY <1>a, HandlerTypes, ChoiceTypes
  <2>4. After("GCM_SHARE_DONE", e) = derive_res \o After("DERIVE_RES", e)
    BY <1>a, <2>2 DEF From_DERIVE_RES
  <2> QED
    BY <1>19, <2>1, <2>3, <2>4, NextState, HsStatesAre
<1>20. CASE s = "DERIVE_RES"
  <2>1. Handler("RES_DONE", v) = write_completed_res
    BY DEF Handler
  <2>2. After("DERIVE_RES", e) = From_RES_DONE /\ After("RES_DONE", e) = Serve
    BY DEF After
  <2>3. write_completed_res \in Scripts
    BY <1>a, HandlerTypes, ChoiceTypes
  <2>4. After("DERIVE_RES", e) = write_completed_res \o After("RES_DONE", e)
    BY <1>a, <2>2 DEF From_RES_DONE
  <2> QED
    BY <1>20, <2>1, <2>3, <2>4, NextState, HsStatesAre
<1>21. CASE s = "RES_DONE"
  <2>1. Handler("DERIVE_PSK", v) = Serve
    BY DEF Handler
  <2>2. After("RES_DONE", e) = Serve /\ After("DERIVE_PSK", e) = <<>>
    BY DEF After
  <2> QED
    BY <1>21, <1>b, <2>1, <2>2, Nil, ServeTypes, NextState, HsStatesAre
<1> QED
  BY HsStatesAre, <1>1, <1>2, <1>3, <1>4, <1>5, <1>6, <1>7, <1>8, <1>9, <1>10, <1>11, <1>12, <1>13, <1>14,
     <1>15, <1>16, <1>17, <1>18, <1>19, <1>20, <1>21

-----------------------------------------------------------------------------
(* What the prover says, and the conversations of the callbacks *)

Hello == {"hello", "server_hello"}
PskHeaders == {"DERIVE_PSK_0", "DERIVE_PSK", "DERIVE_PSK_8"}
PskOf(h) == CASE h = "DERIVE_PSK_0" -> "psk0" [] h = "DERIVE_PSK_8" -> "psk8" [] OTHER -> "psk1"
PskCircuits == {<<"circuit", c>> : c \in {"psk0", "psk1", "psk8"}}

\* A message of a prover p, in a round in which there has been a fault if f: it
\* names the run and the handshake as they are, a PSK only once the prover has
\* used up its circuit, and rejects no tag without a reason.
Honest(p, f, msg) ==
    /\ msg.m = Hdr("RUN_RESUMED") => p.resuming
    /\ msg.m = Hdr("RUN_FULL") => ~p.resuming
    /\ msg.m = Hdr("HS_MODE_RESUMED") => p.stage \notin Hello /\ p.reused
    /\ msg.m = Hdr("HS_MODE_FULL") => p.stage \notin Hello /\ ~p.reused
    /\ msg.m \in PskCircuits => ~p.psk_circuit
    /\ TagRejected(msg) => f

Says(p, f) == {msg \in Messages : Honest(p, f, msg)}

LEMMA SaysHeader ==
    ASSUME NEW p, NEW f, NEW h \in Words,
           h \notin {"RUN_RESUMED", "RUN_FULL", "HS_MODE_RESUMED", "HS_MODE_FULL"}
    PROVE  [m |-> Hdr(h), x |-> 0] \in Says(p, f)
<1> DEFINE msg == [m |-> Hdr(h), x |-> 0]
<1>1. msg \in Messages /\ msg.m = <<"header", h>>
  BY HeaderTypes DEF Messages, Hdr
<1>2. msg.m \notin PskCircuits /\ ~TagRejected(msg)
  BY <1>1 DEF PskCircuits, TagRejected
<1>3. /\ msg.m # Hdr("RUN_RESUMED") /\ msg.m # Hdr("RUN_FULL")
      /\ msg.m # Hdr("HS_MODE_RESUMED") /\ msg.m # Hdr("HS_MODE_FULL")
  BY <1>1 DEF Hdr
<1> QED
  BY <1>1, <1>2, <1>3 DEF Says, Honest

LEMMA SaysRun ==
    ASSUME NEW p, NEW f, p.resuming \in BOOLEAN
    PROVE  [m |-> Hdr(IF p.resuming THEN "RUN_RESUMED" ELSE "RUN_FULL"), x |-> 0] \in Says(p, f)
<1> DEFINE h == IF p.resuming THEN "RUN_RESUMED" ELSE "RUN_FULL"
           msg == [m |-> Hdr(h), x |-> 0]
<1>0. h \in Words
  BY DEF Words
<1>1. msg \in Messages /\ msg.m = <<"header", h>>
  BY <1>0, HeaderTypes DEF Messages, Hdr
<1>2. msg.m \notin PskCircuits /\ ~TagRejected(msg)
  BY <1>1 DEF PskCircuits, TagRejected
<1>3. /\ msg.m = Hdr("RUN_RESUMED") => p.resuming
      /\ msg.m = Hdr("RUN_FULL") => ~p.resuming
      /\ msg.m # Hdr("HS_MODE_RESUMED") /\ msg.m # Hdr("HS_MODE_FULL")
  BY <1>1 DEF Hdr
<1> QED
  BY <1>1, <1>2, <1>3 DEF Says, Honest

LEMMA SaysMode ==
    ASSUME NEW p, NEW f, p.reused \in BOOLEAN, p.stage \notin Hello
    PROVE  [m |-> Hdr(IF p.reused THEN "HS_MODE_RESUMED" ELSE "HS_MODE_FULL"), x |-> 0] \in Says(p, f)
<1> DEFINE h == IF p.reused THEN "HS_MODE_RESUMED" ELSE "HS_MODE_FULL"
           msg == [m |-> Hdr(h), x |-> 0]
<1>0. h \in Words
  BY DEF Words
<1>1. msg \in Messages /\ msg.m = <<"header", h>>
  BY <1>0, HeaderTypes DEF Messages, Hdr
<1>2. msg.m \notin PskCircuits /\ ~TagRejected(msg)
  BY <1>1 DEF PskCircuits, TagRejected
<1>3. /\ msg.m = Hdr("HS_MODE_RESUMED") => p.reused
      /\ msg.m = Hdr("HS_MODE_FULL") => ~p.reused
      /\ msg.m # Hdr("RUN_RESUMED") /\ msg.m # Hdr("RUN_FULL")
  BY <1>1 DEF Hdr
<1> QED
  BY <1>1, <1>2, <1>3 DEF Says, Honest

LEMMA SaysCircuit ==
    ASSUME NEW p, NEW f, NEW c \in Words, NEW x \in Int,
           c \in {"psk0", "psk1", "psk8"} => ~p.psk_circuit,
           c \in {"vfy", "vfy_commit"} /\ x = 1 => f
    PROVE  [m |-> <<"circuit", c>>, x |-> x] \in Says(p, f)
<1> DEFINE msg == [m |-> <<"circuit", c>>, x |-> x]
<1>1. msg \in Messages /\ msg.m = <<"circuit", c>> /\ msg.x = x
  BY DEF Messages, Names
<1>2. /\ msg.m \in PskCircuits => ~p.psk_circuit
      /\ TagRejected(msg) => f
  BY <1>1 DEF PskCircuits, TagRejected
<1>3. /\ msg.m # Hdr("RUN_RESUMED") /\ msg.m # Hdr("RUN_FULL")
      /\ msg.m # Hdr("HS_MODE_RESUMED") /\ msg.m # Hdr("HS_MODE_FULL")
  BY <1>1 DEF Hdr
<1> QED
  BY <1>1, <1>2, <1>3 DEF Says, Honest

LEMMA SaysPreproc ==
    ASSUME NEW p, NEW f, NEW c \in Words
    PROVE  [m |-> <<"preproc", c>>, x |-> 0] \in Says(p, f)
<1> DEFINE msg == [m |-> <<"preproc", c>>, x |-> 0]
<1>1. msg \in Messages /\ msg.m = <<"preproc", c>>
  BY DEF Messages, Names
<1>2. msg.m \notin PskCircuits /\ ~TagRejected(msg)
  BY <1>1 DEF PskCircuits, TagRejected
<1>3. /\ msg.m # Hdr("RUN_RESUMED") /\ msg.m # Hdr("RUN_FULL")
      /\ msg.m # Hdr("HS_MODE_RESUMED") /\ msg.m # Hdr("HS_MODE_FULL")
  BY <1>1 DEF Hdr
<1> QED
  BY <1>1, <1>2, <1>3 DEF Says, Honest

\* Over a round the prover may say more and more.
LEMMA SaysMore ==
    ASSUME NEW p, NEW q, NEW f, NEW k,
           q.resuming = p.resuming, q.reused = p.reused \/ p.stage \in Hello,
           p.stage \notin Hello => q.stage \notin Hello,
           ~p.psk_circuit => ~q.psk_circuit, f => k
    PROVE  Says(p, f) \subseteq Says(q, k)
BY DEF Says, Honest

\* The building blocks: a header down, a header up, a circuit.
LEMMA Down ==
    ASSUME NEW p, NEW f, NEW h \in Words, NEW hs, hs \subseteq Words, h \in hs,
           h \notin {"RUN_RESUMED", "RUN_FULL", "HS_MODE_RESUMED", "HS_MODE_FULL"}
    PROVE  Dual(Says(p, f), <<Send(h)>>, <<Recv(hs)>>)
BY SaysHeader, DualDown

LEMMA Up ==
    ASSUME NEW p, NEW f, NEW h \in Words, NEW hs, hs \subseteq Words, h \in hs
    PROVE  Dual(Says(p, f), <<Recv(hs)>>, <<Send(h)>>)
BY DualUp

LEMMA Joint ==
    ASSUME NEW p, NEW f, NEW c \in Words, NEW x \in Int, NEW y \in Int,
           c \in {"binder", "hs"} => x = y,
           c \in {"psk0", "psk1", "psk8"} => ~p.psk_circuit,
           c \in {"vfy", "vfy_commit"} /\ x = 1 => f
    PROVE  Dual(Says(p, f), Circuit(c, x), Circuit(c, y))
BY SaysCircuit, DualCircuit

-----------------------------------------------------------------------------
(* Each callback and the handlers that answer it *)

\* Connecting and preprocessing (Offline).
LEMMA TalkHello ==
    ASSUME NEW p, NEW f, p.resuming \in BOOLEAN
    PROVE  Dual(Says(p, f),
                <<Recv({"DONE_HS"}), Send(IF p.resuming THEN "RUN_RESUMED" ELSE "RUN_FULL")>>
                \o preprocess_circuits,
                write_handshake_done \o (do_preproc \o read_mask_commitments))
<1> DEFINE Q == Says(p, f)
           h == IF p.resuming THEN "RUN_RESUMED" ELSE "RUN_FULL"
<1>0. /\ {"DONE_HS"} \subseteq Words /\ "DONE_HS" \in Words /\ h \in Words
      /\ h \in {"RUN_FULL", "RUN_RESUMED"} /\ {"RUN_FULL", "RUN_RESUMED"} \subseteq Words
      /\ "MASK_COMMITMENTS" \in Words /\ {"MASK_COMMITMENTS"} \subseteq Words
  BY DEF Words
<1>1. Dual(Q, <<Recv({"DONE_HS"})>>, <<Send("DONE_HS")>>)
  BY <1>0, Up
<1>2. Dual(Q, <<Send(h)>>, <<Recv({"RUN_FULL", "RUN_RESUMED"})>>)
  <2>1. [m |-> Hdr(h), x |-> 0] \in Q
    BY SaysRun
  <2> HIDE DEF h, Q
  <2> QED
    BY <1>0, <2>1, DualDown
<1>3. Dual(Q, <<Recv({"DONE_HS"})>> \o <<Send(h)>>,
              <<Send("DONE_HS")>> \o <<Recv({"RUN_FULL", "RUN_RESUMED"})>>)
  BY <1>1, <1>2, DualConcat
<1>4. /\ <<Recv({"DONE_HS"})>> \o <<Send(h)>> = <<Recv({"DONE_HS"}), Send(h)>>
      /\ <<Send("DONE_HS")>> \o <<Recv({"RUN_FULL", "RUN_RESUMED"})>> = write_handshake_done
  BY <1>0, HeaderTypes, RecvTypes, PairOf DEF write_handshake_done
<1>5. Dual(Q, Preprocess(CircuitList), Preprocess(CircuitList))
  BY SaysPreproc, CircuitListTypes, DualPreprocess
<1>6. Dual(Q, IF true_surf THEN <<>> ELSE <<Send("MASK_COMMITMENTS")>>, read_mask_commitments)
  <2>1. Dual(Q, <<Send("MASK_COMMITMENTS")>>, <<Recv({"MASK_COMMITMENTS"})>>)
    BY <1>0, Down
  <2> QED
    BY <2>1, MatchEmpty DEF read_mask_commitments, Dual
<1>7. Dual(Q, preprocess_circuits, do_preproc \o read_mask_commitments)
  <2>1. /\ preprocess_circuits = Preprocess(CircuitList)
                \o (IF true_surf THEN <<>> ELSE <<Send("MASK_COMMITMENTS")>>)
        /\ do_preproc = Preprocess(CircuitList)
    BY DEF preprocess_circuits, do_preproc, CircuitList
  <2> QED
    BY <1>5, <1>6, <2>1, DualConcat
<1>8. Dual(Q, <<Recv({"DONE_HS"}), Send(h)>>, write_handshake_done)
  BY <1>3, <1>4
<1> HIDE DEF h
<1> QED
  BY <1>7, <1>8, DualConcat DEF h

\* The key shares of the ClientHello.
LEMMA TalkCollect ==
    ASSUME NEW p, NEW f, Offline = TRUE
    PROVE  Dual(Says(p, f), three_party_handshake_comm,
                read_keyshare_after_handshake \o send_additive_share)
<1> DEFINE Q == Says(p, f)
<1>0. "COLLECT" \in Words /\ {"COLLECT"} \subseteq Words /\ "OK" \in Words /\ {"OK"} \subseteq Words
  BY DEF Words
<1>1. Dual(Q, <<Send("COLLECT")>>, <<Recv({"COLLECT"})>>)
  BY <1>0, Down
<1>2. Dual(Q, <<Recv({"OK"})>>, <<Send("OK")>>)
  BY <1>0, Up
<1>3. Dual(Q, <<Send("COLLECT")>> \o <<Recv({"OK"})>>, <<Recv({"COLLECT"})>> \o <<Send("OK")>>)
  BY <1>1, <1>2, DualConcat
<1>4. <<Send("COLLECT")>> \o <<>> = <<Send("COLLECT")>>
  BY <1>0, OneHeader, Nil
<1> QED
  BY <1>3, <1>4 DEF three_party_handshake_comm, read_keyshare_after_handshake, send_additive_share

\* The binder of an offered ticket.
LEMMA TalkBinder ==
    ASSUME NEW p, NEW f, p.offer \in Int
    PROVE  Dual(Says(p, f), derive_binder(p),
                <<Recv({"DERIVE_BINDER"})>> \o Circuit("binder", p.offer))
<1>0. "DERIVE_BINDER" \in Words /\ {"DERIVE_BINDER"} \subseteq Words /\ "binder" \in Words
  BY DEF Words
<1>1. Dual(Says(p, f), <<Send("DERIVE_BINDER")>>, <<Recv({"DERIVE_BINDER"})>>)
  BY <1>0, Down
<1>2. Dual(Says(p, f), Circuit("binder", p.offer), Circuit("binder", p.offer))
  BY <1>0, Joint
<1> QED
  BY <1>1, <1>2, DualConcat DEF derive_binder

\* The server's key share.
LEMMA TalkShares ==
    ASSUME NEW p, NEW f
    PROVE  /\ Dual(Says(p, f), send_received_key_shares, read_sks_keyshare \o write_hs_recv)
           /\ Dual(Says(p, f), <<Send("SERVER_KEY_SHARE")>>, <<Recv({"SERVER_KEY_SHARE"})>>)
<1> DEFINE Q == Says(p, f)
<1>0. /\ "SERVER_KEY_SHARE" \in Words /\ {"SERVER_KEY_SHARE"} \subseteq Words
      /\ "HS_RECV" \in Words /\ {"HS_RECV"} \subseteq Words
  BY DEF Words
<1>1. Dual(Q, <<Send("SERVER_KEY_SHARE")>>, <<Recv({"SERVER_KEY_SHARE"})>>)
  BY <1>0, Down
<1>2. Dual(Q, <<Recv({"HS_RECV"})>>, <<Send("HS_RECV")>>)
  BY <1>0, Up
<1>3. <<Send("SERVER_KEY_SHARE")>> \o <<Recv({"HS_RECV"})>> = send_received_key_shares
  BY <1>0, HeaderTypes, RecvTypes, PairOf DEF send_received_key_shares
<1> QED
  BY <1>1, <1>2, <1>3, DualConcat DEF read_sks_keyshare, write_hs_recv

\* What is left of the handshake after that.
Rest(p) ==
    derive_handshake_secret(p.reused) \o derive_handshake_keys(p, p.reused)
    \o (IF p.reused THEN combine_handshake_secret_shares ELSE commit_to_server_certificate)

LEMMA TalkSecret ==
    ASSUME NEW p, NEW f, p.reused \in BOOLEAN, p.stage \notin Hello
    PROVE  Dual(Says(p, f), derive_handshake_secret(p.reused), do_ectf \o finish_ectf)
<1> DEFINE Q == Says(p, f)
           h == IF p.reused THEN "HS_MODE_RESUMED" ELSE "HS_MODE_FULL"
           modes == {"HS_MODE_FULL", "HS_MODE_RESUMED"}
<1>0. /\ h \in Words /\ h \in modes /\ modes \subseteq Words /\ "DO_ECTF" \in Words
      /\ {"DO_ECTF"} \subseteq Words /\ "ectf" \in Words /\ "ECTF_DONE" \in Words
      /\ {"ECTF_DONE"} \subseteq Words
  BY DEF Words
<1>1. Dual(Q, <<Send(h)>>, <<Recv(modes)>>)
  <2>1. [m |-> Hdr(h), x |-> 0] \in Q
    BY SaysMode
  <2> HIDE DEF h, Q, modes
  <2> QED
    BY <1>0, <2>1, DualDown
<1>2. Dual(Q, <<Send("DO_ECTF")>>, <<Recv({"DO_ECTF"})>>)
  BY <1>0, Down
<1>3. Dual(Q, <<Send(h)>> \o <<Send("DO_ECTF")>>, <<Recv(modes)>> \o <<Recv({"DO_ECTF"})>>)
  BY <1>1, <1>2, DualConcat
<1>4. /\ <<Send(h)>> \o <<Send("DO_ECTF")>> = <<Send(h), Send("DO_ECTF")>>
      /\ <<Recv(modes)>> \o <<Recv({"DO_ECTF"})>> = <<Recv(modes), Recv({"DO_ECTF"})>>
  BY <1>0, HeaderTypes, RecvTypes, PairOf
<1>5. Dual(Q, Circuit("ectf", 0), Circuit("ectf", 0))
  BY <1>0, Joint
<1>6. Dual(Q, <<Recv({"ECTF_DONE"})>>, finish_ectf)
  BY <1>0, Up DEF finish_ectf
<1>7. Dual(Q, <<Send(h), Send("DO_ECTF")>> \o Circuit("ectf", 0), do_ectf)
  BY <1>3, <1>4, <1>5, DualConcat DEF do_ectf
<1>8. derive_handshake_secret(p.reused)
        = (<<Send(h), Send("DO_ECTF")>> \o Circuit("ectf", 0)) \o <<Recv({"ECTF_DONE"})>>
  BY DEF derive_handshake_secret
<1> QED
  BY <1>6, <1>7, <1>8, DualConcat

LEMMA TalkKeys ==
    ASSUME NEW p, NEW f, p.reused \in BOOLEAN, p.offer \in Int, NEW e, e.resumed_handshake = p.reused,
           p.reused => e.psk_shares = p.offer
    PROVE  Dual(Says(p, f), derive_handshake_keys(p, p.reused), do_ks(e) \o write_ks_done)
<1> DEFINE k == IF p.reused THEN p.offer ELSE NoPsk
<1>0. "hs" \in Words /\ k \in Int /\ "KS_DONE" \in Words /\ {"KS_DONE"} \subseteq Words
  BY DEF Words, NoPsk
<1>1. Dual(Says(p, f), Circuit("hs", k), Circuit("hs", k))
  BY <1>0, Joint
<1>2. do_ks(e) = Circuit("hs", k)
  BY DEF do_ks
<1>3. Dual(Says(p, f), <<Recv({"KS_DONE"})>>, write_ks_done)
  BY <1>0, Up DEF write_ks_done
<1> QED
  BY <1>1, <1>2, <1>3, DualConcat DEF derive_handshake_keys

LEMMA TalkCertificate ==
    ASSUME NEW p, NEW f, p.reused \in BOOLEAN, NEW e, e.resumed_handshake = p.reused
    PROVE  Dual(Says(p, f),
                IF p.reused THEN combine_handshake_secret_shares ELSE commit_to_server_certificate,
                do_cert_wait(e) \o write_cert_recv)
<1> DEFINE Q == Says(p, f)
<1>0. /\ "CERTIFICATE_CTX_SEND" \in Words /\ {"CERTIFICATE_CTX_SEND"} \subseteq Words
      /\ "CERTIFICATE_CTX_RECV" \in Words /\ {"CERTIFICATE_CTX_RECV"} \subseteq Words
  BY DEF Words
<1>1. Dual(Q, <<Send("CERTIFICATE_CTX_SEND")>>, <<Recv({"CERTIFICATE_CTX_SEND"})>>)
  BY <1>0, Down
<1>2. Dual(Q, <<Recv({"CERTIFICATE_CTX_RECV"})>>, write_cert_recv)
  BY <1>0, Up DEF write_cert_recv
<1>3. CASE p.reused
  <2>1. do_cert_wait(e) \o write_cert_recv = write_cert_recv
    BY <1>3, HandlerTypes, Nil DEF do_cert_wait
  <2> QED
    BY <1>2, <1>3, <2>1 DEF combine_handshake_secret_shares
<1>4. CASE ~p.reused
  <2>1. do_cert_wait(e) = <<Recv({"CERTIFICATE_CTX_SEND"})>>
    BY <1>4 DEF do_cert_wait
  <2>2. <<Send("CERTIFICATE_CTX_SEND")>> \o <<Recv({"CERTIFICATE_CTX_RECV"})>>
          = commit_to_server_certificate
    BY <1>0, HeaderTypes, RecvTypes, PairOf DEF commit_to_server_certificate
  <2>3. Dual(Q, <<Send("CERTIFICATE_CTX_SEND")>> \o <<Recv({"CERTIFICATE_CTX_RECV"})>>,
                <<Recv({"CERTIFICATE_CTX_SEND"})>> \o write_cert_recv)
    BY <1>1, <1>2, DualConcat
  <2> QED
    BY <1>4, <2>1, <2>2, <2>3
<1> QED
  BY <1>3, <1>4


Handshake(e) ==
    ((do_ectf \o finish_ectf) \o (do_ks(e) \o write_ks_done)) \o (do_cert_wait(e) \o write_cert_recv)

LEMMA TalkRest ==
    ASSUME NEW p, NEW f, p.reused \in BOOLEAN, p.offer \in Int, p.stage \notin Hello,
           NEW e, e.resumed_handshake = p.reused, p.reused => e.psk_shares = p.offer
    PROVE  Dual(Says(p, f), Rest(p), Handshake(e))
<1>1. Dual(Says(p, f), derive_handshake_secret(p.reused), do_ectf \o finish_ectf)
  BY TalkSecret
<1>2. Dual(Says(p, f), derive_handshake_keys(p, p.reused), do_ks(e) \o write_ks_done)
  BY TalkKeys
<1>3. Dual(Says(p, f),
           IF p.reused THEN combine_handshake_secret_shares ELSE commit_to_server_certificate,
           do_cert_wait(e) \o write_cert_recv)
  BY TalkCertificate
<1> QED
  BY <1>1, <1>2, <1>3, DualConcat DEF Rest, Handshake

\* The traffic keys, the GCM shares and the resumption secret.
Establish ==
    (derive_ts \o (server_derive_gcm_shares \o write_completed_derivation))
    \o (derive_res \o write_completed_res)

LEMMA TalkEstablish ==
    ASSUME NEW p, NEW f
    PROVE  Dual(Says(p, f), derive_traffic_keys \o derive_gcm_shares \o derive_resumption_keys,
                Establish)
<1> DEFINE Q == Says(p, f)
<1>0. /\ "DERIVE_TS" \in Words /\ {"DERIVE_TS"} \subseteq Words /\ "traffic" \in Words
      /\ "GCM_SHARE_START" \in Words /\ {"GCM_SHARE_START"} \subseteq Words /\ "gcm" \in Words
      /\ "DERIVE_RES" \in Words /\ {"DERIVE_RES"} \subseteq Words /\ "res" \in Words
      /\ "GCM_SHARE_DONE" \in Words /\ {"GCM_SHARE_DONE"} \subseteq Words
      /\ "RES_DONE" \in Words /\ {"RES_DONE"} \subseteq Words
  BY DEF Words
<1>1. Dual(Q, derive_traffic_keys, derive_ts)
  <2>1. Dual(Q, <<Send("DERIVE_TS")>>, <<Recv({"DERIVE_TS"})>>)
    BY <1>0, Down
  <2>2. Dual(Q, Circuit("traffic", 0), Circuit("traffic", 0))
    BY <1>0, Joint
  <2> QED
    BY <2>1, <2>2, DualConcat DEF derive_traffic_keys, derive_ts
<1>2. Dual(Q, derive_gcm_shares, server_derive_gcm_shares \o write_completed_derivation)
  <2>1. Dual(Q, <<Send("GCM_SHARE_START")>>, <<Recv({"GCM_SHARE_START"})>>)
    BY <1>0, Down
  <2>2. Dual(Q, Circuit("gcm", 0), Circuit("gcm", 0))
    BY <1>0, Joint
  <2>3. Dual(Q, <<Send("GCM_SHARE_START")>> \o Circuit("gcm", 0), server_derive_gcm_shares)
    BY <2>1, <2>2, DualConcat DEF server_derive_gcm_shares
  <2>4. Dual(Q, <<Recv({"GCM_SHARE_DONE"})>>, write_completed_derivation)
    BY <1>0, Up DEF write_completed_derivation
  <2> QED
    BY <2>3, <2>4, DualConcat DEF derive_gcm_shares
<1>3. Dual(Q, derive_resumption_keys, derive_res \o write_completed_res)
  <2>1. Dual(Q, <<Send("DERIVE_RES")>>, <<Recv({"DERIVE_RES"})>>)
    BY <1>0, Down
  <2>2. Dual(Q, Circuit("res", 0), Circuit("res", 0))
    BY <1>0, Joint
  <2>3. Dual(Q, <<Send("DERIVE_RES")>> \o Circuit("res", 0), derive_res)
    BY <2>1, <2>2, DualConcat DEF derive_res
  <2>4. Dual(Q, <<Recv({"RES_DONE"})>>, write_completed_res)
    BY <1>0, Up DEF write_completed_res
  <2> QED
    BY <2>3, <2>4, DualConcat DEF derive_resumption_keys
<1> QED
  BY <1>1, <1>2, <1>3, DualConcat DEF Establish

LEMMA Assoc3 ==
    ASSUME NEW a \in Scripts, NEW b \in Scripts, NEW c \in Scripts
    PROVE  (a \o b) \o c = a \o (b \o c)
BY Assoc

\* The handlers from one point of the handshake to the next.
LEMMA Points ==
    ASSUME NEW e, e.psk_shares \in Int
    PROVE  /\ write_handshake_done \o From_CIRCUIT_PREPROC(e)
                = (write_handshake_done \o (do_preproc \o read_mask_commitments)) \o From_READING_KS(e)
           /\ From_READING_KS(e)
                = (read_keyshare_after_handshake \o send_additive_share) \o From_PSK_BINDER(e)
           /\ From_PSK_BINDER(e) = do_psk_binder(e) \o From_READING_SKS(e)
           /\ From_READING_SKS(e) = (read_sks_keyshare \o write_hs_recv) \o From_ECTF_WAIT(e)
           /\ From_ECTF_WAIT(e) = Handshake(e) \o From_DERIVE_TS
           /\ From_DERIVE_TS = Establish \o Serve
<1>1. write_handshake_done \o From_CIRCUIT_PREPROC(e)
        = (write_handshake_done \o (do_preproc \o read_mask_commitments)) \o From_READING_KS(e)
  <2>1. From_CIRCUIT_PREPROC(e) = (do_preproc \o read_mask_commitments) \o From_READING_KS(e)
    <3>1. do_preproc \in Scripts /\ read_mask_commitments \in Scripts /\ From_READING_KS(e) \in Scripts
      BY HandlerTypes, ChoiceTypes, FromTypes, ServeTypes
    <3>2. From_CIRCUIT_PREPROC(e) = do_preproc \o (read_mask_commitments \o From_READING_KS(e))
      BY DEF From_CIRCUIT_PREPROC, From_MASK_COMMIT
    <3> QED
      BY <3>1, <3>2, Assoc
  <2>2. do_preproc \o read_mask_commitments \in Scripts /\ write_handshake_done \in Scripts
    BY HandlerTypes, Cat
  <2>3. From_READING_KS(e) \in Scripts
    BY FromTypes
  <2>4. PICK a, b, c : a = write_handshake_done /\ b = do_preproc \o read_mask_commitments /\ c = From_READING_KS(e)
    OBVIOUS
  <2>5. (a \o b) \o c = a \o (b \o c)
    <3>1. a \in Scripts /\ b \in Scripts /\ c \in Scripts
      BY ONLY <2>2, <2>3, <2>4
    <3> QED
      BY ONLY <3>1, Assoc3
  <2> QED
    BY ONLY <2>1, <2>4, <2>5
<1>2. From_READING_KS(e) = (read_keyshare_after_handshake \o send_additive_share) \o From_PSK_BINDER(e)
  <2>1. read_keyshare_after_handshake \in Scripts /\ send_additive_share \in Scripts /\ From_PSK_BINDER(e) \in Scripts
    BY HandlerTypes, ChoiceTypes, FromTypes, ServeTypes
  <2>2. From_READING_KS(e) = read_keyshare_after_handshake \o (send_additive_share \o From_PSK_BINDER(e))
    BY DEF From_READING_KS, From_WRITING_KS
  <2> QED
    BY <2>1, <2>2, Assoc
<1>3. From_PSK_BINDER(e) = do_psk_binder(e) \o From_READING_SKS(e)
  BY DEF From_PSK_BINDER
<1>4. From_READING_SKS(e) = (read_sks_keyshare \o write_hs_recv) \o From_ECTF_WAIT(e)
  <2>1. read_sks_keyshare \in Scripts /\ write_hs_recv \in Scripts /\ From_ECTF_WAIT(e) \in Scripts
    BY HandlerTypes, ChoiceTypes, FromTypes, ServeTypes
  <2>2. From_READING_SKS(e) = read_sks_keyshare \o (write_hs_recv \o From_ECTF_WAIT(e))
    BY DEF From_READING_SKS, From_WRITING_HS_RECV
  <2> QED
    BY <2>1, <2>2, Assoc
<1>5. From_ECTF_WAIT(e) = Handshake(e) \o From_DERIVE_TS
  <2> DEFINE a == do_ectf \o finish_ectf
             b == do_ks(e) \o write_ks_done
             c == do_cert_wait(e) \o write_cert_recv
  <2>1. a \in Scripts /\ b \in Scripts /\ c \in Scripts /\ From_DERIVE_TS \in Scripts
    BY HandlerTypes, ChoiceTypes, FromTypes, ServeTypes, Cat
  <2>2. From_ECTF_WAIT(e) = a \o From_KS_WAIT(e)
    <3>1. do_ectf \in Scripts /\ finish_ectf \in Scripts /\ From_KS_WAIT(e) \in Scripts
      BY HandlerTypes, ChoiceTypes, FromTypes, ServeTypes
    <3>2. From_ECTF_WAIT(e) = do_ectf \o (finish_ectf \o From_KS_WAIT(e))
      BY DEF From_ECTF_WAIT, From_ECTF_DONE
    <3> QED
      BY <3>1, <3>2, Assoc
  <2>3. From_KS_WAIT(e) = b \o From_CERT_WAIT(e)
    <3>1. do_ks(e) \in Scripts /\ write_ks_done \in Scripts /\ From_CERT_WAIT(e) \in Scripts
      BY HandlerTypes, ChoiceTypes, FromTypes, ServeTypes
    <3>2. From_KS_WAIT(e) = do_ks(e) \o (write_ks_done \o From_CERT_WAIT(e))
      BY DEF From_KS_WAIT, From_KS_DONE
    <3> QED
      BY <3>1, <3>2, Assoc
  <2>4. From_CERT_WAIT(e) = c \o From_DERIVE_TS
    <3>1. do_cert_wait(e) \in Scripts /\ write_cert_recv \in Scripts /\ From_DERIVE_TS \in Scripts
      BY HandlerTypes, ChoiceTypes, FromTypes, ServeTypes
    <3>2. From_CERT_WAIT(e) = do_cert_wait(e) \o (write_cert_recv \o From_DERIVE_TS)
      BY DEF From_CERT_WAIT, From_CERT_RECV
    <3> QED
      BY <3>1, <3>2, Assoc
  <2>5. Handshake(e) = (a \o b) \o c
    BY DEF Handshake
  <2> HIDE DEF a, b, c
  <2>6. a \o b \in Scripts
    BY <2>1, Cat
  <2>7. c \o From_DERIVE_TS \in Scripts
    BY <2>1, Cat
  <2>8. (a \o b) \o (c \o From_DERIVE_TS) = a \o (b \o (c \o From_DERIVE_TS))
    <3>1. PICK d : d = c \o From_DERIVE_TS
      OBVIOUS
    <3>2. a \in Scripts /\ b \in Scripts /\ d \in Scripts
      BY ONLY <2>1, <2>7, <3>1
    <3>3. (a \o b) \o d = a \o (b \o d)
      BY ONLY <3>2, Assoc3
    <3> QED
      BY ONLY <3>1, <3>3
  <2>9. ((a \o b) \o c) \o From_DERIVE_TS = (a \o b) \o (c \o From_DERIVE_TS)
    BY <2>1, <2>6, Assoc3
  <2> QED
    BY <2>2, <2>3, <2>4, <2>5, <2>8, <2>9, Zenon
<1>6. From_DERIVE_TS = Establish \o Serve
  <2> DEFINE a == derive_ts
             b == server_derive_gcm_shares \o write_completed_derivation
             c == derive_res \o write_completed_res
  <2>1. a \in Scripts /\ b \in Scripts /\ c \in Scripts /\ Serve \in Scripts
    BY HandlerTypes, ChoiceTypes, FromTypes, ServeTypes, Cat
  <2>2. From_DERIVE_TS = a \o From_GCM_SHARE_DERIVE
    BY DEF From_DERIVE_TS
  <2>3. From_GCM_SHARE_DERIVE = b \o From_DERIVE_RES
    <3>1. server_derive_gcm_shares \in Scripts /\ write_completed_derivation \in Scripts /\ From_DERIVE_RES \in Scripts
      BY HandlerTypes, ChoiceTypes, FromTypes, ServeTypes
    <3>2. From_GCM_SHARE_DERIVE = server_derive_gcm_shares \o (write_completed_derivation \o From_DERIVE_RES)
      BY DEF From_GCM_SHARE_DERIVE, From_GCM_SHARE_DONE
    <3> QED
      BY <3>1, <3>2, Assoc
  <2>4. From_DERIVE_RES = c \o Serve
    <3>1. derive_res \in Scripts /\ write_completed_res \in Scripts /\ Serve \in Scripts
      BY HandlerTypes, ChoiceTypes, FromTypes, ServeTypes
    <3>2. From_DERIVE_RES = derive_res \o (write_completed_res \o Serve)
      BY DEF From_DERIVE_RES, From_RES_DONE
    <3> QED
      BY <3>1, <3>2, Assoc
  <2>5. Establish = (a \o b) \o c
    BY DEF Establish
  <2> HIDE DEF a, b, c
  <2>6. a \o b \in Scripts
    BY <2>1, Cat
  <2>7. c \o Serve \in Scripts
    BY <2>1, Cat
  <2>8. (a \o b) \o (c \o Serve) = a \o (b \o (c \o Serve))
    <3>1. PICK d : d = c \o Serve
      OBVIOUS
    <3>2. a \in Scripts /\ b \in Scripts /\ d \in Scripts
      BY ONLY <2>1, <2>7, <3>1
    <3>3. (a \o b) \o d = a \o (b \o d)
      BY ONLY <3>2, Assoc3
    <3> QED
      BY ONLY <3>1, <3>3
  <2>9. ((a \o b) \o c) \o Serve = (a \o b) \o (c \o Serve)
    BY <2>1, <2>6, Assoc3
  <2> QED
    BY <2>2, <2>3, <2>4, <2>5, <2>8, <2>9, Zenon
<1> QED
  BY <1>1, <1>2, <1>3, <1>4, <1>5, <1>6

-----------------------------------------------------------------------------
(* The operations the verifier serves *)

OpBody(h) ==
    CASE h \in RecordOps  -> OpScript(h)
      [] h \in PskHeaders -> Circuit(PskOf(h), 0) \o <<Send("PSK_DONE")>>
      [] OTHER            -> <<>>

\* What the verifier does for a header, "none" for no header at all; and for
\* two headers one after the other.
VOp(h) == IF h = "none" THEN <<>> ELSE <<Recv({h})>> \o OpBody(h)
Pend(a, b) == VOp(a) \o VOp(b)

OpHeaders == RecordOps \cup PskHeaders \cup {"PSK_SKIP", "STOP", "SERVER_KEY_SHARE"}
Ops == OpHeaders \cup {"none"}

LEMMA OpHeaderWords ==
    ASSUME NEW h \in OpHeaders
    PROVE  /\ h \in Words /\ {h} \subseteq Words /\ h # "none"
           /\ h \notin {"RUN_RESUMED", "RUN_FULL", "HS_MODE_RESUMED", "HS_MODE_FULL"}
BY DEF OpHeaders, RecordOps, PskHeaders, Words

LEMMA TalkOp ==
    ASSUME NEW p, NEW f, NEW h \in OpHeaders, NEW S, Dual(Says(p, f), S, OpBody(h))
    PROVE  Dual(Says(p, f), <<Send(h)>> \o S, VOp(h))
<1>1. Dual(Says(p, f), <<Send(h)>>, <<Recv({h})>>)
  BY OpHeaderWords, Down
<1>2. VOp(h) = <<Recv({h})>> \o OpBody(h)
  BY OpHeaderWords DEF VOp
<1> QED
  BY <1>1, <1>2, DualConcat

LEMMA OpBodies ==
    /\ OpBody("AES_ENC") = Circuit("aes", 0) /\ OpBody("GCM_TAG") = Circuit("tag", 0)
    /\ OpBody("GCM_VERIFY") = Circuit(IF true_surf THEN "vfy_commit" ELSE "vfy", 0)
    /\ OpBody("KS_DERIVE") = Circuit("ks", 0) /\ OpBody("KEY_COMMIT") = <<>>
    /\ OpBody("KEY_RELEASE") = <<Send("KEY")>> /\ OpBody("PSK_SKIP") = <<>>
    /\ OpBody("STOP") = <<>> /\ OpBody("SERVER_KEY_SHARE") = <<>>
    /\ \A h \in PskHeaders : OpBody(h) = Circuit(PskOf(h), 0) \o <<Send("PSK_DONE")>>
<1>1. \A h \in RecordOps : OpBody(h) = OpScript(h)
  BY DEF OpBody, RecordOps, PskHeaders
<1>2. \A h \in PskHeaders : OpBody(h) = Circuit(PskOf(h), 0) \o <<Send("PSK_DONE")>>
  BY DEF OpBody, PskHeaders, RecordOps
<1>3. \A h \in {"PSK_SKIP", "STOP", "SERVER_KEY_SHARE"} : OpBody(h) = <<>>
  BY DEF OpBody, PskHeaders, RecordOps
<1>4. /\ OpScript("AES_ENC") = Circuit("aes", 0) /\ OpScript("GCM_TAG") = Circuit("tag", 0)
      /\ OpScript("GCM_VERIFY") = Circuit(IF true_surf THEN "vfy_commit" ELSE "vfy", 0)
      /\ OpScript("KS_DERIVE") = Circuit("ks", 0) /\ OpScript("KEY_COMMIT") = <<>>
      /\ OpScript("KEY_RELEASE") = <<Send("KEY")>>
  BY DEF OpScript
<1> QED
  BY <1>1, <1>2, <1>3, <1>4 DEF RecordOps

LEMMA OpBodyTypes == \A h \in OpHeaders : OpBody(h) \in Scripts
<1>0. /\ \A c \in {"aes", "tag", "vfy_commit", "vfy", "ks", "psk0", "psk1", "psk8"} : c \in Words
      /\ "KEY" \in Words /\ "PSK_DONE" \in Words
  BY DEF Words
<1>1. /\ Circuit("aes", 0) \in Scripts /\ Circuit("tag", 0) \in Scripts
      /\ Circuit("vfy", 0) \in Scripts /\ Circuit("vfy_commit", 0) \in Scripts
      /\ Circuit("ks", 0) \in Scripts /\ <<Send("KEY")>> \in Scripts
  BY <1>0, CircuitTypes, OneHeader
<1>2. \A k \in PskHeaders : Circuit(PskOf(k), 0) \in Scripts
  BY <1>0, CircuitTypes DEF PskOf, PskHeaders
<1>3. <<Send("PSK_DONE")>> \in Scripts
  BY <1>0, OneHeader
<1>4. \A k \in PskHeaders : OpBody(k) \in Scripts
  BY <1>2, <1>3, Cat, OpBodies
<1>5. \A k \in RecordOps \cup {"PSK_SKIP", "STOP", "SERVER_KEY_SHARE"} : OpBody(k) \in Scripts
  BY <1>1, OpBodies, Nil DEF RecordOps
<1> QED
  BY <1>4, <1>5 DEF OpHeaders

LEMMA VOpTypes == \A h \in Ops : VOp(h) \in Scripts
<1> SUFFICES ASSUME NEW h \in Ops PROVE VOp(h) \in Scripts
  OBVIOUS
<1>1. h \in OpHeaders => OpBody(h) \in Scripts /\ <<Recv({h})>> \in Scripts
  BY OpBodyTypes, OpHeaderWords, OneHeader
<1> QED
  BY <1>1, Cat, Nil DEF VOp, Ops

LEMMA PendTypes ==
    ASSUME NEW a \in Ops, NEW b \in Ops
    PROVE  /\ Pend(a, b) \in Scripts /\ Pend("none", "none") = <<>>
           /\ Pend(a, "none") = VOp(a)
           /\ a # "none" => OpBody(a) \in Scripts /\ Pend(a, b) = <<Recv({a})>> \o (OpBody(a) \o Pend(b, "none"))
<1>1. VOp(a) \in Scripts /\ VOp(b) \in Scripts /\ VOp("none") = <<>>
  BY VOpTypes DEF VOp
<1>2. Pend(a, b) \in Scripts /\ Pend("none", "none") = <<>> /\ Pend(a, "none") = VOp(a)
      /\ Pend(b, "none") = VOp(b)
  BY <1>1, Cat, Nil DEF Pend
<1>3. ASSUME a # "none" PROVE OpBody(a) \in Scripts /\ <<Recv({a})>> \in Scripts
  BY <1>3, OpBodyTypes, OpHeaderWords, OneHeader DEF Ops
<1>4. ASSUME a # "none" PROVE Pend(a, b) = <<Recv({a})>> \o (OpBody(a) \o Pend(b, "none"))
  <2>1. Pend(a, b) = (<<Recv({a})>> \o OpBody(a)) \o VOp(b)
    BY <1>4 DEF Pend, VOp
  <2>2. (<<Recv({a})>> \o OpBody(a)) \o VOp(b) = <<Recv({a})>> \o (OpBody(a) \o VOp(b))
    BY <1>1, <1>3, <1>4, Assoc3
  <2> QED
    BY <1>2, <2>1, <2>2
<1> QED
  BY <1>2, <1>3, <1>4

\* The request.
LEMMA TalkRequest ==
    ASSUME NEW p, NEW f
    PROVE  Dual(Says(p, f), encrypt_request, Pend("AES_ENC", "GCM_TAG"))
<1> DEFINE Q == Says(p, f)
           A == <<Send("AES_ENC")>>
           B == Circuit("aes", 0)
           C == <<Send("GCM_TAG")>>
           D == Circuit("tag", 0)
<1>0. /\ "aes" \in Words /\ "tag" \in Words /\ "AES_ENC" \in OpHeaders /\ "GCM_TAG" \in OpHeaders
      /\ "AES_ENC" \in Words /\ "GCM_TAG" \in Words
  BY DEF Words, OpHeaders, RecordOps
<1>1. Dual(Q, A \o B, VOp("AES_ENC"))
  <2>0. Dual(Q, B, B)
    BY <1>0, Joint
  <2>1. Dual(Q, B, OpBody("AES_ENC"))
    BY <2>0, OpBodies
  <2> QED
    BY <1>0, <2>1, TalkOp
<1>2. Dual(Q, C \o D, VOp("GCM_TAG"))
  <2>0. Dual(Q, D, D)
    BY <1>0, Joint
  <2>1. Dual(Q, D, OpBody("GCM_TAG"))
    BY <2>0, OpBodies
  <2> QED
    BY <1>0, <2>1, TalkOp
<1>3. Dual(Q, (A \o B) \o (C \o D), Pend("AES_ENC", "GCM_TAG"))
  BY <1>1, <1>2, DualConcat DEF Pend
<1>4. A \in Scripts /\ B \in Scripts /\ C \in Scripts /\ D \in Scripts
  BY <1>0, OneHeader, CircuitTypes
<1>5. encrypt_request = ((A \o B) \o C) \o D
  BY DEF encrypt_request
<1> HIDE DEF A, B, C, D
<1>6. A \o B \in Scripts
  BY <1>4, Cat
<1>7. ((A \o B) \o C) \o D = (A \o B) \o (C \o D)
  BY <1>4, <1>6, Assoc3
<1> QED
  BY <1>3, <1>5, <1>7

\* The tag of a record.
LEMMA TalkVerify ==
    ASSUME NEW p, NEW f, NEW rec, rec.bad \in BOOLEAN, rec.bad => f
    PROVE  Dual(Says(p, f), <<Send("GCM_VERIFY")>>
                            \o Circuit(IF true_surf THEN "vfy_commit" ELSE "vfy", IF rec.bad THEN 1 ELSE 0),
                VOp("GCM_VERIFY"))
<1> DEFINE c == IF true_surf THEN "vfy_commit" ELSE "vfy"
           x == IF rec.bad THEN 1 ELSE 0
<1>1. /\ c \in Words /\ x \in Int /\ (x = 1 => f)
      /\ c \notin {"binder", "hs"} /\ c \notin {"psk0", "psk1", "psk8"} /\ "GCM_VERIFY" \in OpHeaders
  BY DEF Words, OpHeaders, RecordOps
<1>2. OpBody("GCM_VERIFY") = Circuit(c, 0)
  BY OpBodies
<1> HIDE DEF c, x
<1>3. Dual(Says(p, f), Circuit(c, x), Circuit(c, 0))
  <2>1. /\ c \in {"binder", "hs"} => x = 0
        /\ c \in {"psk0", "psk1", "psk8"} => ~p.psk_circuit
        /\ c \in {"vfy", "vfy_commit"} /\ x = 1 => f
    BY <1>1
  <2>2. 0 \in Int
    OBVIOUS
  <2> QED
    BY <1>1, <2>1, <2>2, Joint
<1> QED
  BY <1>1, <1>2, <1>3, TalkOp DEF c, x

\* A record of the masked mode, and its keystream.
LEMMA TalkMasked ==
    ASSUME NEW p, NEW f, NEW rec, NEW first \in BOOLEAN, rec.bad \in BOOLEAN, rec.bad => f, ~true_surf
    PROVE  /\ Dual(Says(p, f), verify_record_tag(first, rec) \o <<>>, Pend("GCM_VERIFY", "none"))
           /\ Dual(Says(p, f), verify_record_tag(first, rec) \o derive_keystream,
                   Pend("GCM_VERIFY", "KS_DERIVE"))
<1> DEFINE Q == Says(p, f)
           S == <<Send("GCM_VERIFY")>>
           C == Circuit(IF true_surf THEN "vfy_commit" ELSE "vfy", IF rec.bad THEN 1 ELSE 0)
<1>1. Dual(Q, S \o C, VOp("GCM_VERIFY"))
  BY TalkVerify
<1>2. S \in Scripts
  BY OneHeader DEF Words
<1>3. verify_record_tag(first, rec) = (<<>> \o S) \o C
  BY DEF verify_record_tag
<1>4. verify_record_tag(first, rec) = S \o C
  BY <1>2, <1>3, Nil
<1>5. Dual(Q, derive_keystream, VOp("KS_DERIVE"))
  <2>1. "ks" \in Words /\ "KS_DERIVE" \in OpHeaders
    BY DEF Words, OpHeaders, RecordOps
  <2>2. Dual(Q, Circuit("ks", 0), OpBody("KS_DERIVE"))
    <3>1. Dual(Q, Circuit("ks", 0), Circuit("ks", 0))
      BY ONLY <2>1, Joint
    <3>2. OpBody("KS_DERIVE") = Circuit("ks", 0)
      BY ONLY OpBodies
    <3> QED
      BY <3>1, <3>2
  <2> QED
    BY <2>1, <2>2, TalkOp DEF derive_keystream
<1>6. Dual(Q, <<>>, VOp("none"))
  BY MatchEmpty DEF Dual, VOp
<1> QED
  BY <1>1, <1>4, <1>5, <1>6, DualConcat DEF Pend

\* A record of the sealed-capture mode, the first with the commitment to k_v.
LEMMA TalkSealed ==
    ASSUME NEW p, NEW f, NEW rec, NEW first \in BOOLEAN, rec.bad \in BOOLEAN, rec.bad => f, true_surf
    PROVE  /\ first => Dual(Says(p, f), verify_record_tag(first, rec), Pend("KEY_COMMIT", "GCM_VERIFY"))
           /\ ~first => Dual(Says(p, f), verify_record_tag(first, rec), Pend("GCM_VERIFY", "none"))
<1> DEFINE Q == Says(p, f)
           K == <<Send("KEY_COMMIT")>>
           S == <<Send("GCM_VERIFY")>>
           C == Circuit(IF true_surf THEN "vfy_commit" ELSE "vfy", IF rec.bad THEN 1 ELSE 0)
<1>0. "KEY_COMMIT" \in OpHeaders /\ "KEY_COMMIT" \in Words /\ "GCM_VERIFY" \in Words
  BY DEF Words, OpHeaders, RecordOps
<1>1. Dual(Q, S \o C, VOp("GCM_VERIFY"))
  BY TalkVerify
<1>2. S \in Scripts /\ K \in Scripts
  BY <1>0, OneHeader
<1>3. C \in Scripts
  <2>1. (IF true_surf THEN "vfy_commit" ELSE "vfy") \in Words /\ (IF rec.bad THEN 1 ELSE 0) \in Int
    BY DEF Words
  <2> QED
    BY <2>1, CircuitTypes
<1>4. Dual(Q, K, VOp("KEY_COMMIT"))
  <2>1. Dual(Q, <<>>, OpBody("KEY_COMMIT"))
    BY MatchEmpty, OpBodies DEF Dual
  <2>2. Dual(Q, K \o <<>>, VOp("KEY_COMMIT"))
    BY <1>0, <2>1, TalkOp
  <2>3. K \o <<>> = K
    BY <1>2, Nil
  <2> QED
    BY <2>2, <2>3
<1>5. /\ first => verify_record_tag(first, rec) = (K \o S) \o C
      /\ ~first => verify_record_tag(first, rec) = (<<>> \o S) \o C
  BY DEF verify_record_tag
<1>6. Dual(Q, <<>>, VOp("none"))
  BY MatchEmpty DEF Dual, VOp
<1> HIDE DEF K, S, C
<1>7. (K \o S) \o C = K \o (S \o C)
  BY <1>2, <1>3, Assoc3
<1>8. <<>> \o S = S /\ (S \o C) \o <<>> = S \o C
  BY <1>2, <1>3, Nil, Cat
<1>9. Dual(Q, K \o (S \o C), Pend("KEY_COMMIT", "GCM_VERIFY"))
  BY <1>1, <1>4, DualConcat DEF Pend
<1>10. Dual(Q, (S \o C) \o <<>>, Pend("GCM_VERIFY", "none"))
  BY <1>1, <1>6, DualConcat DEF Pend
<1> QED
  BY <1>5, <1>7, <1>8, <1>9, <1>10

\* The release of k_v.
LEMMA TalkRelease ==
    ASSUME NEW p, NEW f
    PROVE  Dual(Says(p, f), <<Send("KEY_RELEASE"), Recv({"KEY"})>>, Pend("KEY_RELEASE", "none"))
<1>0. "KEY" \in Words /\ {"KEY"} \subseteq Words /\ "KEY_RELEASE" \in OpHeaders /\ "KEY_RELEASE" \in Words
      /\ "KEY_RELEASE" \in Ops /\ "none" \in Ops
  BY DEF Words, OpHeaders, RecordOps, Ops
<1>1. Dual(Says(p, f), <<Recv({"KEY"})>>, OpBody("KEY_RELEASE"))
  BY <1>0, Up, OpBodies
<1>2. Dual(Says(p, f), <<Send("KEY_RELEASE")>> \o <<Recv({"KEY"})>>, VOp("KEY_RELEASE"))
  BY <1>0, <1>1, TalkOp
<1>3. <<Send("KEY_RELEASE")>> \o <<Recv({"KEY"})>> = <<Send("KEY_RELEASE"), Recv({"KEY"})>>
  BY <1>0, HeaderTypes, RecvTypes, PairOf
<1>4. Pend("KEY_RELEASE", "none") = VOp("KEY_RELEASE")
  BY <1>0, PendTypes
<1> QED
  BY <1>2, <1>3, <1>4

\* A ticket.
LEMMA TalkTicket ==
    ASSUME NEW p, NEW f, ~p.psk_circuit, NEW kind \in {"nst0", "nst1", "nst8"}
    PROVE  /\ Widths[kind][1] \in PskHeaders
           /\ Dual(Says(p, f), derive_psk_keys(kind), Pend(Widths[kind][1], "none"))
<1> DEFINE h == Widths[kind][1]
           c == Widths[kind][2]
<1>1. h \in PskHeaders /\ c = PskOf(h) /\ c \in {"psk0", "psk1", "psk8"}
  BY DEF Widths, PskHeaders, PskOf
<1>2. h \in OpHeaders /\ h \in Ops /\ c \in Words /\ "PSK_DONE" \in Words /\ {"PSK_DONE"} \subseteq Words
      /\ "none" \in Ops
  BY <1>1 DEF OpHeaders, Words, Ops
<1>3. derive_psk_keys(kind) = (<<Send(h)>> \o Circuit(c, 0)) \o <<Recv({"PSK_DONE"})>>
  BY DEF derive_psk_keys
<1>4. OpBody(h) = Circuit(c, 0) \o <<Send("PSK_DONE")>>
  BY <1>1, OpBodies
<1> HIDE DEF h, c
<1>5. Dual(Says(p, f), Circuit(c, 0), Circuit(c, 0))
  BY <1>1, <1>2, Joint
<1>6. Dual(Says(p, f), <<Recv({"PSK_DONE"})>>, <<Send("PSK_DONE")>>)
  BY <1>2, Up
<1>7. Dual(Says(p, f), Circuit(c, 0) \o <<Recv({"PSK_DONE"})>>, OpBody(h))
  BY <1>4, <1>5, <1>6, DualConcat
<1>8. Dual(Says(p, f), <<Send(h)>> \o (Circuit(c, 0) \o <<Recv({"PSK_DONE"})>>), VOp(h))
  BY <1>2, <1>7, TalkOp
<1>9. <<Send(h)>> \in Scripts /\ Circuit(c, 0) \in Scripts /\ <<Recv({"PSK_DONE"})>> \in Scripts
  BY <1>2, OneHeader, CircuitTypes, OpHeaderWords
<1>10. (<<Send(h)>> \o Circuit(c, 0)) \o <<Recv({"PSK_DONE"})>>
         = <<Send(h)>> \o (Circuit(c, 0) \o <<Recv({"PSK_DONE"})>>)
  BY <1>9, Assoc3
<1>11. Pend(h, "none") = VOp(h)
  BY <1>2, PendTypes
<1> QED
  BY <1>1, <1>3, <1>8, <1>10, <1>11 DEF h

\* The end of the round.
LEMMA TalkStop ==
    ASSUME NEW p, NEW f
    PROVE  /\ Dual(Says(p, f), <<Send("PSK_SKIP")>> \o <<Send("STOP")>>, Pend("PSK_SKIP", "STOP"))
           /\ Dual(Says(p, f), <<>> \o <<Send("STOP")>>, Pend("STOP", "none"))
<1>0. /\ "PSK_SKIP" \in OpHeaders /\ "STOP" \in OpHeaders /\ "PSK_SKIP" \in Words /\ "STOP" \in Words
      /\ "STOP" \in Ops /\ "none" \in Ops
  BY DEF Words, OpHeaders, Ops
<1>1. \A h \in {"PSK_SKIP", "STOP"} : Dual(Says(p, f), <<Send(h)>>, VOp(h))
  <2> TAKE h \in {"PSK_SKIP", "STOP"}
  <2>1. Dual(Says(p, f), <<>>, OpBody(h)) /\ h \in OpHeaders
    BY <1>0, MatchEmpty, OpBodies DEF Dual
  <2>2. Dual(Says(p, f), <<Send(h)>> \o <<>>, VOp(h))
    BY <2>1, TalkOp
  <2>3. <<Send(h)>> \o <<>> = <<Send(h)>>
    BY <1>0, OneHeader, Nil
  <2> QED
    BY <2>2, <2>3
<1>2. Pend("STOP", "none") = VOp("STOP") /\ <<>> \o <<Send("STOP")>> = <<Send("STOP")>>
  BY <1>0, PendTypes, OneHeader, Nil
<1> QED
  BY <1>1, <1>2, DualConcat DEF Pend

-----------------------------------------------------------------------------
(* What each party keeps, whatever the other one does *)

HsStages == {"hello", "server_hello", "finished", "established"}
InRound == HsStages \cup {"request", "reading", "submit", "open", "replay", "psk", "stop"}
Stages == InRound \cup {"idle", "connect", "quit"}
Away == {"DONE", "ACCEPT", "EXITED"}
VStates == HsStates \cup {"PSK_DONE", "SHUTDOWN"} \cup Away

Provers ==
    [stage : Stages, todo : Scripts, session : Psks, offer : Psks, resuming : BOOLEAN,
     reused : BOOLEAN, psk_circuit : BOOLEAN, ticket : Psks, recs : Seq(Records), idx : Nat,
     delivered : Nat, ok : BOOLEAN]

Verifiers ==
    [state : VStates, todo : Scripts, psk_shares : Psks, is_resumption_run : BOOLEAN,
     resumed_handshake : BOOLEAN, psk_skipped : BOOLEAN, key_committed : BOOLEAN,
     key_released : BOOLEAN]

PTypes ==
    /\ prover \in Provers /\ popen \in BOOLEAN /\ fault \in BOOLEAN
    /\ round \in Nat /\ round <= MaxRounds /\ origin \in Nat

VTypes ==
    /\ verifier \in Verifiers /\ vopen \in BOOLEAN /\ mixed \in BOOLEAN
    /\ p2v \in Seq(Messages) /\ v2p \in Seq(Messages)

\* The application records among those received.
Apps(recs) == Cardinality({i \in DOMAIN recs : recs[i].kind = "app"})

\* A resumed round whose ticket is not offered after all.
Stray(p) == p.resuming /\ p.offer = NoPsk

\* Where the prover is in its round, with its end of the connection open if po,
\* in round r, after a fault if f, with o application records sent.
OwnStage(p, po) ==
    /\ po <=> p.stage \in InRound
    /\ ~po => p.todo = <<>>
    /\ p.stage \in {"submit", "open", "replay"} => true_surf
    /\ true_surf /\ p.stage = "reading" => p.todo = <<>>

OwnTicket(p, po, r, f) ==
    /\ p.stage \in {"idle", "connect"} =>
          ~p.resuming /\ ~p.reused /\ p.psk_circuit /\ p.offer = NoPsk /\ p.ticket = NoPsk
    /\ p.stage \in HsStages \cup {"request", "submit", "open"} => p.psk_circuit
    /\ true_surf /\ p.stage = "reading" => p.psk_circuit
    /\ p.reused => p.offer # NoPsk /\ p.stage \notin Hello
    /\ p.stage = "hello" /\ p.resuming => p.offer # NoPsk
    /\ po /\ p.resuming /\ ~p.reused /\ p.stage \notin Hello => f /\ p.stage \in HsStages
    /\ po /\ Stray(p) /\ p.stage # "hello" => f
    /\ po /\ ~p.resuming => p.offer = NoPsk
    /\ po => p.ticket = IF p.psk_circuit THEN NoPsk ELSE r
    /\ po => p.session = IF p.stage = "stop" THEN p.ticket ELSE NoPsk

OwnRecords(p, po, f, o) ==
    /\ Len(p.recs) <= MaxRecords /\ p.idx <= Len(p.recs)
    /\ p.stage \in {"idle", "connect"} \cup HsStages \cup {"request"} => p.idx = 0
    /\ p.stage \in {"connect"} \cup HsStages \cup {"request"} => p.recs = <<>>
    /\ true_surf /\ p.stage \in {"reading", "open"} => p.idx = 0
    /\ po => \A i \in 1 .. Len(p.recs) : p.recs[i].bad \/ p.recs[i].kind = "nstX" => f
    /\ p.stage \in {"submit", "open"} /\ p.recs = <<>> => f

OwnPage(p, po, o) ==
    /\ po \/ p.stage = "connect" => o = Apps(p.recs)
    /\ true_surf /\ (p.stage \in {"replay", "psk", "stop"} \/ (p.stage = "idle" /\ p.ok)) =>
          /\ p.recs # <<>> /\ p.recs[Len(p.recs)].kind = "close"
          /\ Padding = FALSE => p.delivered = o
    /\ o <= MaxRecords

Own ==
    /\ OwnStage(prover, popen) /\ OwnTicket(prover, popen, round, fault)
    /\ OwnRecords(prover, popen, fault, origin) /\ OwnPage(prover, popen, origin)

VOwn ==
    /\ vopen <=> verifier.state \notin Away
    /\ ~vopen => verifier.todo = <<>>

LEMMA RoundPsks ==
    /\ NoPsk \in Psks /\ 0 \in Psks /\ Psks \subseteq Int
    /\ \A r \in Nat : r <= MaxRounds => r \in Psks /\ r # NoPsk
BY SessionAssumption DEF Psks, NoPsk

\* The callbacks are scripts.
LEMMA CallbackTypes ==
    /\ preprocess_circuits \in Scripts /\ three_party_handshake_comm \in Scripts
    /\ send_received_key_shares \in Scripts
    /\ derive_traffic_keys \o derive_gcm_shares \o derive_resumption_keys \in Scripts
    /\ encrypt_request \in Scripts /\ derive_keystream \in Scripts
    /\ <<Send("KEY_RELEASE"), Recv({"KEY"})>> \in Scripts
    /\ \A psk \in BOOLEAN :
          (IF psk THEN <<Send("PSK_SKIP")>> ELSE <<>>) \o <<Send("STOP")>> \in Scripts
<1> DEFINE p == [resuming |-> FALSE, psk_circuit |-> TRUE]
<1>1. preprocess_circuits \in Scripts
  <2>1. preprocess_circuits
          = Preprocess(CircuitList) \o (IF true_surf THEN <<>> ELSE <<Send("MASK_COMMITMENTS")>>)
    BY DEF preprocess_circuits, CircuitList
  <2>2. (IF true_surf THEN <<>> ELSE <<Send("MASK_COMMITMENTS")>>) \in Scripts
    <3>1. "MASK_COMMITMENTS" \in Words
      BY DEF Words
    <3> QED
      BY <3>1, OneHeader, Nil
  <2> QED
    BY <2>1, <2>2, PreprocessTypes, Cat
<1>2. three_party_handshake_comm \in Scripts
  <2>1. "COLLECT" \in Words /\ {"OK"} \subseteq Words
    BY DEF Words
  <2>2. <<Send("COLLECT")>> \in Scripts /\ <<Recv({"OK"})>> \in Scripts
        /\ (IF Offline THEN <<>> ELSE preprocess_circuits) \in Scripts
    BY <1>1, <2>1, OneHeader, Nil
  <2> QED
    BY <2>2, Cat DEF three_party_handshake_comm
<1>3. send_received_key_shares \in Scripts
  BY TalkShares, MatchTypes DEF Dual
<1>4. derive_traffic_keys \o derive_gcm_shares \o derive_resumption_keys \in Scripts
  BY TalkEstablish, MatchTypes DEF Dual
<1>5. encrypt_request \in Scripts
  BY TalkRequest, MatchTypes DEF Dual
<1>6. derive_keystream \in Scripts
  <2>1. "KS_DERIVE" \in Words /\ "ks" \in Words /\ 0 \in Int
    BY DEF Words
  <2> QED
    BY <2>1, OneHeader, CircuitTypes, Cat DEF derive_keystream
<1>7. <<Send("KEY_RELEASE"), Recv({"KEY"})>> \in Scripts
  BY TalkRelease, MatchTypes DEF Dual
<1>8. ASSUME NEW psk \in BOOLEAN
      PROVE  (IF psk THEN <<Send("PSK_SKIP")>> ELSE <<>>) \o <<Send("STOP")>> \in Scripts
  BY TalkStop, MatchTypes DEF Dual
<1> QED
  BY <1>1, <1>2, <1>3, <1>4, <1>5, <1>6, <1>7, <1>8

LEMMA CallbackChoices ==
    ASSUME NEW p, p.offer \in Int, NEW reused \in BOOLEAN
    PROVE  /\ derive_binder(p) \in Scripts
           /\ derive_handshake_secret(reused) \in Scripts
           /\ derive_handshake_keys(p, reused) \in Scripts
           /\ (IF reused THEN combine_handshake_secret_shares ELSE commit_to_server_certificate) \in Scripts
<1>1. derive_binder(p) \in Scripts
  BY TalkBinder, MatchTypes DEF Dual
<1>2. derive_handshake_secret(reused) \in Scripts
  <2>1. (IF reused THEN "HS_MODE_RESUMED" ELSE "HS_MODE_FULL") \in Words /\ "DO_ECTF" \in Words
        /\ "ectf" \in Words /\ {"ECTF_DONE"} \subseteq Words /\ 0 \in Int
    BY DEF Words
  <2>2. <<Send(IF reused THEN "HS_MODE_RESUMED" ELSE "HS_MODE_FULL"), Send("DO_ECTF")>> \in Scripts
    BY <2>1, HeaderTypes DEF Scripts
  <2>3. Circuit("ectf", 0) \in Scripts /\ <<Recv({"ECTF_DONE"})>> \in Scripts
    BY <2>1, CircuitTypes, OneHeader
  <2> QED
    BY <2>2, <2>3, Cat DEF derive_handshake_secret
<1>3. derive_handshake_keys(p, reused) \in Scripts
  <2>1. "hs" \in Words /\ {"KS_DONE"} \subseteq Words /\ (IF reused THEN p.offer ELSE NoPsk) \in Int
    BY DEF Words, NoPsk
  <2>2. Circuit("hs", IF reused THEN p.offer ELSE NoPsk) \in Scripts /\ <<Recv({"KS_DONE"})>> \in Scripts
    BY <2>1, CircuitTypes, OneHeader
  <2> QED
    BY <2>2, Cat DEF derive_handshake_keys
<1>4. (IF reused THEN combine_handshake_secret_shares ELSE commit_to_server_certificate) \in Scripts
  <2>1. "CERTIFICATE_CTX_SEND" \in Words /\ {"CERTIFICATE_CTX_RECV"} \subseteq Words
    BY DEF Words
  <2> QED
    BY <2>1, HeaderTypes, RecvTypes DEF Scripts, combine_handshake_secret_shares, commit_to_server_certificate
<1> QED
  BY <1>1, <1>2, <1>3, <1>4

LEMMA RecordTypes ==
    ASSUME NEW rec, rec.bad \in BOOLEAN
    PROVE  \A first \in BOOLEAN : verify_record_tag(first, rec) \in Scripts
<1> DEFINE C == Circuit(IF true_surf THEN "vfy_commit" ELSE "vfy", IF rec.bad THEN 1 ELSE 0)
<1>1. "KEY_COMMIT" \in Words /\ "GCM_VERIFY" \in Words /\ (IF rec.bad THEN 1 ELSE 0) \in Int
      /\ (IF true_surf THEN "vfy_commit" ELSE "vfy") \in Words
  BY DEF Words
<1>2. <<Send("KEY_COMMIT")>> \in Scripts /\ <<>> \in Scripts /\ <<Send("GCM_VERIFY")>> \in Scripts /\ C \in Scripts
  BY <1>1, OneHeader, Nil, CircuitTypes
<1>3. \A first \in BOOLEAN : verify_record_tag(first, rec)
           = (IF true_surf /\ first THEN <<Send("KEY_COMMIT")>> ELSE <<>>) \o <<Send("GCM_VERIFY")>> \o C
  BY DEF verify_record_tag
<1> HIDE DEF C
<1>4. ASSUME NEW first \in BOOLEAN PROVE verify_record_tag(first, rec) \in Scripts
  <2>1. (IF true_surf /\ first THEN <<Send("KEY_COMMIT")>> ELSE <<>>) \in Scripts
    BY <1>2
  <2>2. (IF true_surf /\ first THEN <<Send("KEY_COMMIT")>> ELSE <<>>) \o <<Send("GCM_VERIFY")>> \o C \in Scripts
    BY <1>2, <2>1, Cat
  <2> QED
    BY <1>3, <2>2, Zenon
<1> QED
  BY <1>4

LEMMA TicketTypes ==
    ASSUME NEW kind \in {"nst0", "nst1", "nst8"}
    PROVE  derive_psk_keys(kind) \in Scripts
<1>1. derive_psk_keys(kind) \in Scripts
  <2> DEFINE q == [psk_circuit |-> FALSE]
  <2>1. Dual(Says(q, TRUE), derive_psk_keys(kind), Pend(Widths[kind][1], "none"))
    BY TalkTicket
  <2> QED
    BY <2>1, MatchTypes DEF Dual
<1> QED
  BY <1>1

\* Sending and receiving leave a script.
LEMMA ScriptTail ==
    ASSUME NEW s \in Scripts, s # <<>>
    PROVE  /\ Tail(s) \in Scripts /\ Head(s) \in Instrs
           /\ Head(s).op = "send" => Message(Head(s)) \in Messages
<1>1. Tail(s) \in Scripts /\ Head(s) \in Instrs
  BY HeadTailProperties DEF Scripts
<1>2. ASSUME Head(s).op = "send" PROVE Message(Head(s)) \in Messages
  <2>1. Head(s).m # {} /\ Head(s).m \subseteq Names \X Words /\ Head(s).x \in Int
    BY <1>1, <1>2 DEF Instrs, AnyInstr
  <2>2. (CHOOSE m \in Head(s).m : TRUE) \in Names \X Words
    BY <2>1
  <2> QED
    BY <2>1, <2>2 DEF Message, Messages
<1> QED
  BY <1>1, <1>2

LEMMA AppsEmpty == Apps(<<>>) = 0
<1>1. {i \in DOMAIN <<>> : <<>>[i].kind = "app"} = {}
  OBVIOUS
<1> QED
  BY <1>1, FS_EmptySet DEF Apps

LEMMA AppsAppend ==
    ASSUME NEW recs \in Seq(Records), NEW rec \in Records
    PROVE  /\ Apps(recs) \in Nat /\ Apps(recs) <= Len(recs)
           /\ Apps(Append(recs, rec)) = IF rec.kind = "app" THEN Apps(recs) + 1 ELSE Apps(recs)
<1> DEFINE n == Len(recs)
           S == {i \in DOMAIN recs : recs[i].kind = "app"}
           R == Append(recs, rec)
           T == {i \in DOMAIN R : R[i].kind = "app"}
<1>1. n \in Nat /\ DOMAIN recs = 1 .. n /\ DOMAIN R = 1 .. n + 1
      /\ R[n + 1] = rec /\ \A i \in 1 .. n : R[i] = recs[i]
  BY LenProperties, AppendProperties
<1>2. IsFiniteSet(1 .. n) /\ Cardinality(1 .. n) = n
  <2>1. n \in Nat
    BY <1>1
  <2> HIDE DEF n
  <2>2. IsFiniteSet(1 .. n) /\ Cardinality(1 .. n) = IF 1 > n THEN 0 ELSE n - 1 + 1
    BY ONLY <2>1, FS_Interval
  <2> QED
    BY ONLY <2>1, <2>2
<1>3. S \subseteq 1 .. n
  BY <1>1
<1>4. IsFiniteSet(S) /\ Cardinality(S) \in Nat /\ Cardinality(S) <= n
  BY <1>2, <1>3, FS_Subset, FS_CardinalityType
<1>5. T = IF rec.kind = "app" THEN S \cup {n + 1} ELSE S
  <2>1. 1 .. n + 1 = (1 .. n) \cup {n + 1} /\ n + 1 \notin 1 .. n
    BY <1>1
  <2> QED
    BY <1>1, <2>1
<1>6. n + 1 \notin S
  BY <1>1
<1>7. Cardinality(S \cup {n + 1}) = Cardinality(S) + 1
  BY <1>4, <1>6, FS_AddElement
<1> QED
  BY <1>4, <1>5, <1>7 DEF Apps

\* Once the fault is there it stays.
LEMMA OwnUnchanged ==
    ASSUME PTypes, Own, prover' = prover, popen' = popen, round' = round, origin' = origin,
           fault' \in BOOLEAN, fault => fault'
    PROVE  PTypes' /\ Own'
<1>1. PTypes'
  BY DEF PTypes
<1>2. OwnTicket(prover', popen', round', fault')
  BY DEF Own, OwnTicket
<1>3. OwnRecords(prover', popen', fault', origin')
  BY DEF Own, OwnRecords
<1> QED
  BY <1>1, <1>2, <1>3 DEF Own

LEMMA OwnEndRound ==
    ASSUME PTypes, Own, NEW ok \in BOOLEAN, EndRound(ok), round' = round, origin' = origin,
           fault' \in BOOLEAN, fault => fault', true_surf /\ ok => prover.stage = "stop"
    PROVE  PTypes' /\ Own'
<1>0. /\ prover' = [ProverIdle EXCEPT !.session = IF ok THEN prover.session ELSE NoPsk,
                      !.delivered = prover.delivered, !.ok = ok, !.recs = prover.recs]
      /\ popen' = FALSE
  BY DEF EndRound
<1>t. prover \in Provers
  BY DEF PTypes
<1>f. /\ prover'.stage = "idle" /\ prover'.todo = <<>> /\ prover'.offer = NoPsk
      /\ prover'.session = (IF ok THEN prover.session ELSE NoPsk)
      /\ prover'.resuming = FALSE /\ prover'.reused = FALSE /\ prover'.psk_circuit = TRUE
      /\ prover'.ticket = NoPsk /\ prover'.recs = prover.recs /\ prover'.idx = 0
      /\ prover'.delivered = prover.delivered /\ prover'.ok = ok
  BY <1>0 DEF ProverIdle
<1>1. PTypes'
  <2>1. prover' \in Provers
    BY <1>0, <1>t, RoundPsks, Nil DEF Provers, ProverIdle, Stages
  <2> QED
    BY <1>0, <2>1 DEF PTypes
<1>2. OwnStage(prover', popen')
  BY <1>0, <1>f DEF OwnStage, InRound, HsStages
<1>3. OwnTicket(prover', popen', round', fault')
  BY <1>0, <1>f DEF OwnTicket, HsStages
<1>4. OwnRecords(prover', popen', fault', origin')
  BY <1>0, <1>f, <1>t, LenProperties DEF OwnRecords, Own, HsStages, Provers
<1>5. OwnPage(prover', popen', origin')
  BY <1>0, <1>f DEF OwnPage, Own
<1> QED
  BY <1>1, <1>2, <1>3, <1>4, <1>5 DEF Own

LEMMA OwnError ==
    ASSUME PTypes, Own, ProverError, round' = round, origin' = origin,
           fault' \in BOOLEAN, fault => fault', true_surf => prover.stage # "reading"
    PROVE  PTypes' /\ Own'
<1>1. CASE prover.stage # "reading"
  BY <1>1, OwnEndRound DEF ProverError
<1>2. CASE prover.stage = "reading"
  <2>0. prover' = [prover EXCEPT !.stage = "psk", !.todo = <<>>] /\ popen' = popen /\ ~true_surf
    BY <1>2 DEF ProverError
  <2>t. prover \in Provers
    BY DEF PTypes
  <2>f. /\ prover'.stage = "psk" /\ prover'.todo = <<>> /\ prover'.offer = prover.offer
        /\ prover'.session = prover.session
        /\ prover'.resuming = prover.resuming /\ prover'.reused = prover.reused
        /\ prover'.psk_circuit = prover.psk_circuit
        /\ prover'.ticket = prover.ticket /\ prover'.recs = prover.recs /\ prover'.idx = prover.idx
        /\ prover'.delivered = prover.delivered /\ prover'.ok = prover.ok
    BY <2>0, <2>t DEF Provers
  <2>1. PTypes'
    BY <2>0, Nil DEF PTypes, Provers, Stages, InRound, HsStages
  <2>2. OwnStage(prover', popen')
    BY <1>2, <2>0, <2>f DEF OwnStage, Own, InRound, HsStages
  <2>3. OwnTicket(prover', popen', round', fault')
    BY <1>2, <2>0, <2>f DEF OwnTicket, Own, HsStages, Hello, Stray
  <2>4. OwnRecords(prover', popen', fault', origin')
    BY <1>2, <2>0, <2>f DEF OwnRecords, Own, HsStages
  <2>5. OwnPage(prover', popen', origin')
    BY <1>2, <2>0, <2>f DEF OwnPage, Own, OwnStage, InRound, HsStages
  <2> QED
    BY <2>1, <2>2, <2>3, <2>4, <2>5 DEF Own
<1> QED
  BY <1>1, <1>2

LEMMA OwnClientHello ==
    ASSUME PTypes, Own, ClientHello
    PROVE  PTypes' /\ Own'
<1>t. prover \in Provers /\ prover.stage = "hello"
  BY DEF PTypes, ClientHello, At, NetUnchanged
<1>p. PICK off \in IF prover.resuming THEN BOOLEAN ELSE {FALSE} :
         /\ prover' = [prover EXCEPT !.stage = "server_hello", !.offer = IF off THEN @ ELSE NoPsk,
                        !.todo = three_party_handshake_comm
                                 \o (IF off THEN derive_binder(prover) ELSE <<>>)]
         /\ fault' = (fault \/ (prover.resuming /\ ~off))
  BY DEF ClientHello
<1>b. off \in BOOLEAN /\ (off => prover.resuming) /\ prover.resuming \in BOOLEAN
  BY <1>p, <1>t DEF Provers
<1>s. three_party_handshake_comm \o (IF off THEN derive_binder(prover) ELSE <<>>) \in Scripts
  <2>1. derive_binder(prover) \in Scripts
    <3>1. prover.offer \in Int
      BY <1>t, RoundPsks DEF Provers
    <3> QED
      BY <3>1, TalkBinder, MatchTypes DEF Dual
  <2> QED
    BY <2>1, CallbackTypes, Nil, Cat
<1>0. /\ prover' = [prover EXCEPT !.stage = "server_hello", !.offer = IF off THEN prover.offer ELSE NoPsk,
                                 !.todo = three_party_handshake_comm \o (IF off THEN derive_binder(prover) ELSE <<>>)]
      /\ popen' = popen /\ round' = round /\ origin' = origin /\ fault' = (fault \/ (prover.resuming /\ ~off))
  BY <1>t, <1>p, <1>b DEF ClientHello, At, NetUnchanged
<1>f. /\ prover'.stage = "server_hello"
      /\ prover'.todo = three_party_handshake_comm \o (IF off THEN derive_binder(prover) ELSE <<>>)
      /\ prover'.session = prover.session
      /\ prover'.offer = IF off THEN prover.offer ELSE NoPsk
      /\ prover'.resuming = prover.resuming
      /\ prover'.reused = prover.reused
      /\ prover'.psk_circuit = prover.psk_circuit
      /\ prover'.ticket = prover.ticket
      /\ prover'.recs = prover.recs
      /\ prover'.idx = prover.idx
      /\ prover'.delivered = prover.delivered
      /\ prover'.ok = prover.ok
  BY <1>0, <1>t DEF Provers
<1>1. PTypes'
  BY <1>t, <1>0, <1>s, <1>b, RoundPsks DEF PTypes, Provers, Stages, InRound, HsStages
<1>2. OwnStage(prover', popen')
  BY <1>t, <1>0, <1>f, <1>p, <1>b DEF OwnStage, Own, InRound, HsStages
<1>3. OwnTicket(prover', popen', round', fault')
  BY <1>t, <1>0, <1>f, <1>p, <1>b DEF OwnTicket, OwnStage, Own, HsStages, Hello, Stray, InRound
<1>4. OwnRecords(prover', popen', fault', origin')
  BY <1>t, <1>0, <1>f, <1>p, <1>b DEF OwnRecords, OwnStage, Own, HsStages, InRound
<1>5. OwnPage(prover', popen', origin')
  BY <1>t, <1>0, <1>f, <1>p, <1>b DEF OwnPage, OwnStage, Own, InRound, HsStages
<1> QED
  BY <1>1, <1>2, <1>3, <1>4, <1>5 DEF Own

LEMMA OwnServerHello ==
    ASSUME PTypes, Own, ServerHello
    PROVE  PTypes' /\ Own'
<1>t. prover \in Provers /\ prover.stage = "server_hello"
  BY DEF PTypes, ServerHello, At, NetUnchanged
<1> DEFINE Todo(re) == send_received_key_shares \o derive_handshake_secret(re)
                       \o derive_handshake_keys(prover, re)
                       \o (IF re THEN combine_handshake_secret_shares ELSE commit_to_server_certificate)
<1>p. PICK re \in IF prover.offer # NoPsk /\ ~mixed THEN BOOLEAN ELSE {FALSE} :
         /\ prover' = [prover EXCEPT !.stage = "finished", !.reused = re, !.todo = Todo(re)]
         /\ fault' = (fault \/ (prover.resuming /\ ~re))
  BY DEF ServerHello
<1>b. re \in BOOLEAN /\ (re => prover.offer # NoPsk)
  BY <1>p
<1> DEFINE todo == Todo(re)
<1>s. todo \in Scripts
  <2>1. prover.offer \in Int
    BY <1>t, RoundPsks DEF Provers
  <2>2. /\ derive_handshake_secret(re) \in Scripts /\ derive_handshake_keys(prover, re) \in Scripts
        /\ (IF re THEN combine_handshake_secret_shares ELSE commit_to_server_certificate) \in Scripts
    BY <1>b, <2>1, CallbackChoices
  <2> QED
    BY <2>2, CallbackTypes, Cat
<1> HIDE DEF Todo
<1>0. /\ prover' = [prover EXCEPT !.stage = "finished", !.reused = re, !.todo = todo]
      /\ popen' = popen /\ round' = round /\ origin' = origin /\ fault' = (fault \/ (prover.resuming /\ ~re))
  BY <1>t, <1>p, <1>b DEF ServerHello, At, NetUnchanged
<1>f. /\ prover'.stage = "finished"
      /\ prover'.todo = todo
      /\ prover'.session = prover.session
      /\ prover'.offer = prover.offer
      /\ prover'.resuming = prover.resuming
      /\ prover'.reused = re
      /\ prover'.psk_circuit = prover.psk_circuit
      /\ prover'.ticket = prover.ticket
      /\ prover'.recs = prover.recs
      /\ prover'.idx = prover.idx
      /\ prover'.delivered = prover.delivered
      /\ prover'.ok = prover.ok
  BY <1>0, <1>t DEF Provers
<1>1. PTypes'
  BY <1>t, <1>0, <1>s, <1>b DEF PTypes, Provers, Stages, InRound, HsStages
<1>2. OwnStage(prover', popen')
  BY <1>t, <1>0, <1>f, <1>p, <1>b DEF OwnStage, Own, InRound, HsStages
<1>3. OwnTicket(prover', popen', round', fault')
  BY <1>t, <1>0, <1>f, <1>p, <1>b DEF OwnTicket, OwnStage, Own, HsStages, Hello, Stray, InRound
<1>4. OwnRecords(prover', popen', fault', origin')
  BY <1>t, <1>0, <1>f, <1>p, <1>b DEF OwnRecords, OwnStage, Own, HsStages, InRound
<1>5. OwnPage(prover', popen', origin')
  BY <1>t, <1>0, <1>f, <1>p, <1>b DEF OwnPage, OwnStage, Own, InRound, HsStages
<1> QED
  BY <1>1, <1>2, <1>3, <1>4, <1>5 DEF Own

LEMMA OwnFinished ==
    ASSUME PTypes, Own, Finished
    PROVE  PTypes' /\ Own'
<1>t. prover \in Provers /\ prover.stage = "finished"
  BY DEF PTypes, Finished, At, NetUnchanged, Start
<1> DEFINE todo == derive_traffic_keys \o derive_gcm_shares \o derive_resumption_keys
<1>s. todo \in Scripts
  BY CallbackTypes
<1>0. /\ prover' = [prover EXCEPT !.stage = "established", !.todo = todo]
      /\ popen' = popen /\ round' = round /\ origin' = origin /\ fault' = fault
  BY <1>t DEF Finished, At, NetUnchanged, Start
<1>f. /\ prover'.stage = "established"
      /\ prover'.todo = todo
      /\ prover'.session = prover.session
      /\ prover'.offer = prover.offer
      /\ prover'.resuming = prover.resuming
      /\ prover'.reused = prover.reused
      /\ prover'.psk_circuit = prover.psk_circuit
      /\ prover'.ticket = prover.ticket
      /\ prover'.recs = prover.recs
      /\ prover'.idx = prover.idx
      /\ prover'.delivered = prover.delivered
      /\ prover'.ok = prover.ok
  BY <1>0, <1>t DEF Provers
<1>1. PTypes'
  BY <1>t, <1>0, <1>s DEF PTypes, Provers, Stages, InRound, HsStages
<1>2. OwnStage(prover', popen')
  BY <1>t, <1>0, <1>f DEF OwnStage, Own, InRound, HsStages
<1>3. OwnTicket(prover', popen', round', fault')
  BY <1>t, <1>0, <1>f DEF OwnTicket, OwnStage, Own, HsStages, Hello, Stray, InRound
<1>4. OwnRecords(prover', popen', fault', origin')
  BY <1>t, <1>0, <1>f DEF OwnRecords, OwnStage, Own, HsStages, InRound
<1>5. OwnPage(prover', popen', origin')
  BY <1>t, <1>0, <1>f DEF OwnPage, OwnStage, Own, InRound, HsStages
<1> QED
  BY <1>1, <1>2, <1>3, <1>4, <1>5 DEF Own

LEMMA OwnOriginFails ==
    ASSUME PTypes, Own, OriginFails
    PROVE  PTypes' /\ Own'
<1>1. prover.stage # "reading" /\ ProverError /\ fault' = TRUE /\ round' = round /\ origin' = origin
  BY DEF OriginFails, At, NetUnchanged
<1> QED
  BY <1>1, OwnError

LEMMA OwnRequest ==
    ASSUME PTypes, Own, Start("request", encrypt_request), popen' = popen, round' = round, origin' = origin,
           fault' = fault, prover.stage = "established", ~(prover.resuming /\ ~prover.reused)
    PROVE  PTypes' /\ Own'
<1>t. prover \in Provers /\ prover.stage = "established"
  BY DEF PTypes, Start
<1>0. /\ prover' = [prover EXCEPT !.stage = "request", !.todo = encrypt_request]
      /\ popen' = popen /\ round' = round /\ origin' = origin /\ fault' = fault
  BY <1>t DEF Start
<1>f. /\ prover'.stage = "request"
      /\ prover'.todo = encrypt_request
      /\ prover'.session = prover.session
      /\ prover'.offer = prover.offer
      /\ prover'.resuming = prover.resuming
      /\ prover'.reused = prover.reused
      /\ prover'.psk_circuit = prover.psk_circuit
      /\ prover'.ticket = prover.ticket
      /\ prover'.recs = prover.recs
      /\ prover'.idx = prover.idx
      /\ prover'.delivered = prover.delivered
      /\ prover'.ok = prover.ok
  BY <1>0, <1>t DEF Provers
<1>1. PTypes'
  BY <1>t, <1>0, CallbackTypes DEF PTypes, Provers, Stages, InRound, HsStages
<1>2. OwnStage(prover', popen')
  BY <1>t, <1>0, <1>f DEF OwnStage, Own, InRound, HsStages
<1>3. OwnTicket(prover', popen', round', fault')
  BY <1>t, <1>0, <1>f DEF OwnTicket, OwnStage, Own, HsStages, Hello, Stray, InRound
<1>4. OwnRecords(prover', popen', fault', origin')
  BY <1>t, <1>0, <1>f DEF OwnRecords, OwnStage, Own, HsStages, InRound
<1>5. OwnPage(prover', popen', origin')
  BY <1>t, <1>0, <1>f DEF OwnPage, OwnStage, Own, InRound, HsStages
<1> QED
  BY <1>1, <1>2, <1>3, <1>4, <1>5 DEF Own

LEMMA OwnEstablished ==
    ASSUME PTypes, Own, Established
    PROVE  PTypes' /\ Own'
<1>a. fault' = fault /\ round' = round /\ origin' = origin /\ prover.stage = "established" /\ fault \in BOOLEAN
  BY DEF Established, NetUnchanged, At, PTypes
<1>b. CASE prover.resuming /\ ~prover.reused
  <2>1. EndRound(FALSE)
    BY <1>b DEF Established
  <2> QED
    BY <1>a, <2>1, OwnEndRound
<1>c. CASE ~(prover.resuming /\ ~prover.reused)
  BY <1>a, <1>c, OwnRequest DEF Established, Start
<1> QED
  BY <1>b, <1>c

LEMMA OwnRequestWritten ==
    ASSUME PTypes, Own, RequestWritten
    PROVE  PTypes' /\ Own'
<1>t. prover \in Provers /\ prover.stage = "request"
  BY DEF PTypes, RequestWritten, Start, At, NetUnchanged
<1>0. /\ prover' = [prover EXCEPT !.stage = "reading", !.todo = <<>>]
      /\ popen' = popen /\ round' = round /\ origin' = origin /\ fault' = fault
  BY <1>t DEF RequestWritten, Start, At, NetUnchanged
<1>f. /\ prover'.stage = "reading"
      /\ prover'.todo = <<>>
      /\ prover'.session = prover.session
      /\ prover'.offer = prover.offer
      /\ prover'.resuming = prover.resuming
      /\ prover'.reused = prover.reused
      /\ prover'.psk_circuit = prover.psk_circuit
      /\ prover'.ticket = prover.ticket
      /\ prover'.recs = prover.recs
      /\ prover'.idx = prover.idx
      /\ prover'.delivered = prover.delivered
      /\ prover'.ok = prover.ok
  BY <1>0, <1>t DEF Provers
<1>1. PTypes'
  BY <1>t, <1>0, Nil DEF PTypes, Provers, Stages, InRound, HsStages
<1>2. OwnStage(prover', popen')
  BY <1>t, <1>0, <1>f DEF OwnStage, Own, InRound, HsStages
<1>3. OwnTicket(prover', popen', round', fault')
  BY <1>t, <1>0, <1>f DEF OwnTicket, OwnStage, Own, HsStages, Hello, Stray, InRound
<1>4. OwnRecords(prover', popen', fault', origin')
  BY <1>t, <1>0, <1>f DEF OwnRecords, OwnStage, Own, HsStages, InRound
<1>5. OwnPage(prover', popen', origin')
  BY <1>t, <1>0, <1>f DEF OwnPage, OwnStage, Own, InRound, HsStages
<1> QED
  BY <1>1, <1>2, <1>3, <1>4, <1>5 DEF Own

LEMMA OwnReadRecord ==
    ASSUME PTypes, Own, NEW rec \in Records, ReadRecord(rec)
    PROVE  PTypes' /\ Own'
<1>t. prover \in Provers /\ prover.stage = "reading"
  BY DEF PTypes, ReadRecord, At, NetUnchanged
<1> DEFINE todo == IF true_surf THEN <<>>
                   ELSE verify_record_tag(FALSE, rec) \o IF rec.bad THEN <<>> ELSE derive_keystream
<1>r. rec.bad \in BOOLEAN
  BY SessionAssumption DEF Records
<1>s. todo \in Scripts
  <2>1. verify_record_tag(FALSE, rec) \in Scripts
    <3>1. \A first \in BOOLEAN : verify_record_tag(first, rec) \in Scripts
      BY <1>r, RecordTypes
    <3>2. FALSE \in BOOLEAN
      OBVIOUS
    <3> QED
      BY <3>1, <3>2, Zenon
  <2> QED
    BY <2>1, CallbackTypes, Nil, Cat
<1>n. /\ Len(prover.recs) \in Nat /\ Len(prover.recs) < MaxRecords
      /\ Len(Append(prover.recs, rec)) = Len(prover.recs) + 1
      /\ Append(prover.recs, rec) \in Seq(Records) /\ prover.recs \in Seq(Records)
      /\ \A i \in 1 .. Len(prover.recs) + 1 :
            Append(prover.recs, rec)[i] = IF i = Len(prover.recs) + 1 THEN rec ELSE prover.recs[i]
  BY <1>t, LenProperties, AppendProperties DEF Provers, ReadRecord
<1>d. true_surf => todo = <<>>
  OBVIOUS
<1> HIDE DEF todo
<1>0. /\ prover' = [prover EXCEPT !.recs = Append(prover.recs, rec),
                                 !.idx = IF true_surf THEN 0 ELSE Len(prover.recs) + 1, !.todo = todo]
      /\ popen' = popen /\ round' = round /\ origin' = (IF rec.kind = "app" THEN origin + 1 ELSE origin)
      /\ fault' = (fault \/ rec.bad \/ rec.kind = "nstX")
  BY <1>t, <1>n, <1>r DEF ReadRecord, At, NetUnchanged, todo
<1>f. /\ prover'.stage = prover.stage
      /\ prover'.todo = todo
      /\ prover'.session = prover.session
      /\ prover'.offer = prover.offer
      /\ prover'.resuming = prover.resuming
      /\ prover'.reused = prover.reused
      /\ prover'.psk_circuit = prover.psk_circuit
      /\ prover'.ticket = prover.ticket
      /\ prover'.recs = Append(prover.recs, rec)
      /\ prover'.idx = IF true_surf THEN 0 ELSE Len(prover.recs) + 1
      /\ prover'.delivered = prover.delivered
      /\ prover'.ok = prover.ok
  BY <1>0, <1>t DEF Provers
<1>1. PTypes'
  <2>1. prover' \in Provers
    <3>1. (IF true_surf THEN 0 ELSE Len(prover.recs) + 1) \in Nat
      BY <1>n
    <3> QED
      BY <1>t, <1>0, <1>s, <1>n, <3>1 DEF Provers
  <2>2. fault' \in BOOLEAN /\ origin' \in Nat
    BY <1>0, <1>r DEF PTypes
  <2> QED
    BY <1>0, <2>1, <2>2 DEF PTypes
<1>2. OwnStage(prover', popen')
  BY <1>t, <1>0, <1>f, <1>n, <1>r, <1>d DEF OwnStage, Own, InRound, HsStages
<1>3. OwnTicket(prover', popen', round', fault')
  BY <1>t, <1>0, <1>f, <1>n, <1>r DEF OwnTicket, OwnStage, Own, HsStages, Hello, Stray, InRound
<1>4. OwnRecords(prover', popen', fault', origin')
  <2>1. ASSUME popen, NEW i \in 1 .. Len(prover.recs) + 1
        PROVE  Append(prover.recs, rec)[i].bad \/ Append(prover.recs, rec)[i].kind = "nstX" => fault'
    <3>1. CASE i = Len(prover.recs) + 1
      <4>1. Append(prover.recs, rec)[i] = rec
        BY <1>n, <3>1
      <4> QED
        BY <1>0, <4>1
    <3>2. CASE i # Len(prover.recs) + 1
      <4>1. Append(prover.recs, rec)[i] = prover.recs[i] /\ i \in 1 .. Len(prover.recs)
        BY <1>n, <3>2
      <4> QED
        BY <1>0, <2>1, <4>1 DEF Own, OwnRecords
    <3> QED
      BY <3>1, <3>2
  <2>2. prover'.idx <= Len(prover'.recs) /\ Len(prover'.recs) <= MaxRecords
    BY <1>f, <1>n, SessionAssumption
  <2>3. true_surf /\ prover'.stage \in {"reading", "open"} => prover'.idx = 0
    BY <1>f
  <2>4. popen' => \A i \in 1 .. Len(prover'.recs) :
                     prover'.recs[i].bad \/ prover'.recs[i].kind = "nstX" => fault'
    BY <1>0, <1>f, <1>n, <2>1
  <2> QED
    BY <1>f, <1>t, <2>2, <2>3, <2>4 DEF OwnRecords, HsStages
<1>5. OwnPage(prover', popen', origin')
  BY <1>t, <1>0, <1>f, <1>n, <1>r, AppsAppend, SessionAssumption DEF OwnPage, OwnStage, Own, InRound, HsStages
<1> QED
  BY <1>1, <1>2, <1>3, <1>4, <1>5 DEF Own

LEMMA OwnMoved ==
    ASSUME PTypes, Own, NEW q \in {"psk", "submit"}, Start(q, <<>>), popen' = popen, round' = round, origin' = origin,
           fault' \in BOOLEAN, fault => fault', prover.stage = "reading", prover.idx = 0,
           q = (IF true_surf THEN "submit" ELSE "psk"),
           true_surf /\ prover.recs = <<>> => fault'
    PROVE  PTypes' /\ Own'
<1>t. prover \in Provers /\ prover.stage = "reading"
  BY DEF PTypes, Start
<1>0. /\ prover' = [prover EXCEPT !.stage = q, !.todo = <<>>]
      /\ popen' = popen /\ round' = round /\ origin' = origin /\ fault' \in BOOLEAN /\ (fault => fault')
  BY <1>t DEF Start
<1>f. /\ prover'.stage = q
      /\ prover'.todo = <<>>
      /\ prover'.session = prover.session
      /\ prover'.offer = prover.offer
      /\ prover'.resuming = prover.resuming
      /\ prover'.reused = prover.reused
      /\ prover'.psk_circuit = prover.psk_circuit
      /\ prover'.ticket = prover.ticket
      /\ prover'.recs = prover.recs
      /\ prover'.idx = prover.idx
      /\ prover'.delivered = prover.delivered
      /\ prover'.ok = prover.ok
  BY <1>0, <1>t DEF Provers
<1>1. PTypes'
  BY <1>t, <1>0, Nil DEF PTypes, Provers, Stages, InRound, HsStages
<1>2. OwnStage(prover', popen')
  BY <1>t, <1>0, <1>f DEF OwnStage, Own, InRound, HsStages
<1>3. OwnTicket(prover', popen', round', fault')
  BY <1>t, <1>0, <1>f DEF OwnTicket, OwnStage, Own, HsStages, Hello, Stray, InRound
<1>4. OwnRecords(prover', popen', fault', origin')
  BY <1>t, <1>0, <1>f DEF OwnRecords, OwnStage, Own, HsStages, InRound
<1>5. OwnPage(prover', popen', origin')
  BY <1>t, <1>0, <1>f DEF OwnPage, OwnStage, Own, InRound, HsStages
<1> QED
  BY <1>1, <1>2, <1>3, <1>4, <1>5 DEF Own
\* A record of the masked mode is opened.
LEMMA OwnOpened ==
    ASSUME PTypes, Own, NEW q \in {"reading", "psk"}, NEW d \in Nat, ~true_surf, prover.stage = "reading",
           prover' = [prover EXCEPT !.stage = q, !.delivered = d, !.idx = 0],
           popen' = popen, round' = round, origin' = origin, fault' = fault
    PROVE  PTypes' /\ Own'
<1>t. prover \in Provers /\ prover.stage = "reading"
  BY DEF PTypes
<1>0. /\ prover' = [prover EXCEPT !.stage = q, !.delivered = d, !.idx = 0]
      /\ popen' = popen /\ round' = round /\ origin' = origin /\ fault' = fault
  BY <1>t DEF PTypes
<1>f. /\ prover'.stage = q
      /\ prover'.todo = prover.todo
      /\ prover'.session = prover.session
      /\ prover'.offer = prover.offer
      /\ prover'.resuming = prover.resuming
      /\ prover'.reused = prover.reused
      /\ prover'.psk_circuit = prover.psk_circuit
      /\ prover'.ticket = prover.ticket
      /\ prover'.recs = prover.recs
      /\ prover'.idx = 0
      /\ prover'.delivered = d
      /\ prover'.ok = prover.ok
  BY <1>0, <1>t DEF Provers
<1>1. PTypes'
  <2>1. q \in Stages /\ 0 \in Nat
    BY DEF Stages, InRound, HsStages
  <2>2. prover' \in Provers
    BY <1>t, <1>0, <2>1 DEF Provers
  <2> QED
    BY <1>0, <2>2 DEF PTypes
<1>2. OwnStage(prover', popen')
  BY <1>t, <1>0, <1>f DEF OwnStage, Own, InRound, HsStages
<1>3. OwnTicket(prover', popen', round', fault')
  BY <1>t, <1>0, <1>f DEF OwnTicket, OwnStage, Own, HsStages, Hello, Stray, InRound
<1>4. OwnRecords(prover', popen', fault', origin')
  BY <1>t, <1>0, <1>f, LenProperties DEF OwnRecords, OwnStage, Own, HsStages, InRound
<1>5. OwnPage(prover', popen', origin')
  BY <1>t, <1>0, <1>f DEF OwnPage, OwnStage, Own, InRound, HsStages
<1> QED
  BY <1>1, <1>2, <1>3, <1>4, <1>5 DEF Own

\* A ticket is processed.
LEMMA OwnTookTicket ==
    ASSUME PTypes, Own, NEW kind \in {"nst0", "nst1", "nst8"}, NEW n \in Nat, n <= Len(prover.recs),
           prover.psk_circuit, prover.stage = "replay" \/ (prover.stage = "reading" /\ ~true_surf),
           prover' = [prover EXCEPT !.todo = derive_psk_keys(kind), !.psk_circuit = FALSE,
                                    !.ticket = round, !.idx = n],
           popen' = popen, round' = round, origin' = origin, fault' = fault
    PROVE  PTypes' /\ Own'
<1>t. prover \in Provers /\ prover.stage \in {"reading", "replay"}
  BY DEF PTypes
<1>0. /\ prover' = [prover EXCEPT !.todo = derive_psk_keys(kind), !.psk_circuit = FALSE, !.ticket = round, !.idx = n]
      /\ popen' = popen /\ round' = round /\ origin' = origin /\ fault' = fault
  BY <1>t DEF PTypes
<1>f. /\ prover'.stage = prover.stage
      /\ prover'.todo = derive_psk_keys(kind)
      /\ prover'.session = prover.session
      /\ prover'.offer = prover.offer
      /\ prover'.resuming = prover.resuming
      /\ prover'.reused = prover.reused
      /\ prover'.psk_circuit = FALSE
      /\ prover'.ticket = round
      /\ prover'.recs = prover.recs
      /\ prover'.idx = n
      /\ prover'.delivered = prover.delivered
      /\ prover'.ok = prover.ok
  BY <1>0, <1>t DEF Provers
<1>1. PTypes'
  <2>1. derive_psk_keys(kind) \in Scripts
    BY TicketTypes
  <2>2. round \in Psks
    BY RoundPsks DEF PTypes
  <2>3. prover' \in Provers
    BY <1>0, <1>t, <2>1, <2>2 DEF Provers
  <2> QED
    BY <1>0, <2>3 DEF PTypes
<1>2. OwnStage(prover', popen')
  BY <1>t, <1>0, <1>f DEF OwnStage, Own, InRound, HsStages
<1>3. OwnTicket(prover', popen', round', fault')
  BY <1>t, <1>0, <1>f DEF OwnTicket, OwnStage, Own, HsStages, Hello, Stray, InRound
<1>4. OwnRecords(prover', popen', fault', origin')
  BY <1>t, <1>0, <1>f DEF OwnRecords, OwnStage, Own, HsStages, InRound
<1>5. OwnPage(prover', popen', origin')
  BY <1>t, <1>0, <1>f DEF OwnPage, OwnStage, Own, InRound, HsStages
<1> QED
  BY <1>1, <1>2, <1>3, <1>4, <1>5 DEF Own

LEMMA OwnReplayed ==
    ASSUME PTypes, Own, NEW n \in Nat, n <= Len(prover.recs), prover.stage = "replay",
           prover' = [prover EXCEPT !.idx = n],
           popen' = popen, round' = round, origin' = origin, fault' = fault
    PROVE  PTypes' /\ Own'
<1>t. prover \in Provers /\ prover.stage = "replay"
  BY DEF PTypes
<1>0. /\ prover' = [prover EXCEPT !.idx = n]
      /\ popen' = popen /\ round' = round /\ origin' = origin /\ fault' = fault
  BY <1>t DEF PTypes
<1>f. /\ prover'.stage = prover.stage
      /\ prover'.todo = prover.todo
      /\ prover'.session = prover.session
      /\ prover'.offer = prover.offer
      /\ prover'.resuming = prover.resuming
      /\ prover'.reused = prover.reused
      /\ prover'.psk_circuit = prover.psk_circuit
      /\ prover'.ticket = prover.ticket
      /\ prover'.recs = prover.recs
      /\ prover'.idx = n
      /\ prover'.delivered = prover.delivered
      /\ prover'.ok = prover.ok
  BY <1>0, <1>t DEF Provers
<1>1. PTypes'
  <2>1. prover' \in Provers
    BY <1>0, <1>t DEF Provers
  <2> QED
    BY <1>0, <2>1 DEF PTypes
<1>2. OwnStage(prover', popen')
  BY <1>t, <1>0, <1>f DEF OwnStage, Own, InRound, HsStages
<1>3. OwnTicket(prover', popen', round', fault')
  BY <1>t, <1>0, <1>f DEF OwnTicket, OwnStage, Own, HsStages, Hello, Stray, InRound
<1>4. OwnRecords(prover', popen', fault', origin')
  BY <1>t, <1>0, <1>f DEF OwnRecords, OwnStage, Own, HsStages, InRound
<1>5. OwnPage(prover', popen', origin')
  BY <1>t, <1>0, <1>f DEF OwnPage, OwnStage, Own, InRound, HsStages
<1> QED
  BY <1>1, <1>2, <1>3, <1>4, <1>5 DEF Own

LEMMA KindOf ==
    ASSUME NEW rec \in Records
    PROVE  /\ rec.kind \in {"app", "nst0", "nst1", "nst8", "nstX", "close"} /\ rec.bad \in BOOLEAN
           /\ rec.pad \in BOOLEAN /\ (Padding = FALSE => rec.pad = FALSE)
BY SessionAssumption DEF Records

\* The ticket callback, at the next record.
LEMMA OwnProcessed ==
    ASSUME PTypes, Own, NEW kind \in {"nst0", "nst1", "nst8"}, NEW n \in Nat, n <= Len(prover.recs),
           prover.stage = "replay" \/ (prover.stage = "reading" /\ ~true_surf /\ n = 0),
           prover' = [ProcessTicket(kind) EXCEPT !.idx = n],
           popen' = popen, round' = round, origin' = origin, fault' = fault
    PROVE  PTypes' /\ Own'
<1>t. prover \in Provers /\ prover.psk_circuit \in BOOLEAN /\ round \in Nat
  BY DEF PTypes, Provers
<1>1. CASE prover.psk_circuit
  <2>1. prover.ticket = NoPsk
    BY <1>1, <1>t DEF Own, OwnTicket, OwnStage, InRound
  <2>2. prover' = [prover EXCEPT !.todo = derive_psk_keys(kind), !.psk_circuit = FALSE,
                                 !.ticket = round, !.idx = n]
    BY <1>1, <1>t, <2>1 DEF ProcessTicket, Provers
  <2> QED
    BY <1>1, <2>2, OwnTookTicket
<1>2. CASE ~prover.psk_circuit
  <2>1. prover' = [prover EXCEPT !.idx = n]
    BY <1>2 DEF ProcessTicket
  <2>2. CASE prover.stage = "replay"
    BY <2>1, <2>2, OwnReplayed
  <2>3. CASE prover.stage # "replay"
    <3>1. prover.stage = "reading" /\ n = 0 /\ prover.delivered \in Nat
      BY <1>t, <2>3 DEF Provers
    <3>2. prover = [prover EXCEPT !.stage = "reading", !.delivered = prover.delivered]
      BY <1>t, <3>1 DEF Provers
    <3>3. prover' = [prover EXCEPT !.stage = "reading", !.delivered = prover.delivered, !.idx = 0]
      BY <2>1, <3>1, <3>2
    <3> QED
      BY <2>3, <3>1, <3>3, OwnOpened
  <2> QED
    BY <2>2, <2>3
<1> QED
  BY <1>1, <1>2

LEMMA OwnOpenRecord ==
    ASSUME PTypes, Own, OpenRecord
    PROVE  PTypes' /\ Own'
<1>t. /\ prover \in Provers /\ prover.stage = "reading" /\ prover.idx > 0 /\ prover.delivered \in Nat
      /\ prover.recs \in Seq(Records) /\ prover.idx \in Nat /\ fault \in BOOLEAN
  BY DEF PTypes, OpenRecord, At, Provers
<1>m. ~true_surf /\ prover.idx <= Len(prover.recs)
  BY <1>t DEF Own, OwnRecords
<1>u. round' = round /\ origin' = origin /\ fault' = fault
  BY DEF OpenRecord, NetUnchanged
<1> DEFINE rec == prover.recs[prover.idx]
<1>r. rec \in Records
  <2>1. prover.idx \in 1 .. Len(prover.recs)
    BY <1>t, <1>m, LenProperties
  <2> QED
    BY <1>t, <2>1, ElementOfSeq
<1>k. rec.kind \in {"app", "nst0", "nst1", "nst8", "nstX", "close"}
  BY <1>r, KindOf
<1>1. CASE rec.bad \/ (rec.kind = "nstX" /\ prover.psk_circuit)
  <2>1. ProverError
    BY <1>1 DEF OpenRecord
  <2> QED
    BY <1>u, <1>m, <1>t, <2>1, OwnError
<1>2. CASE ~(rec.bad \/ (rec.kind = "nstX" /\ prover.psk_circuit))
  <2>1. /\ popen' = popen
        /\ prover' = CASE rec.kind = "app" -> [prover EXCEPT !.delivered = @ + 1, !.idx = 0]
                       [] rec.kind = "close" -> [prover EXCEPT !.stage = "psk", !.idx = 0]
                       [] rec.kind = "nstX" -> [prover EXCEPT !.idx = 0]
                       [] OTHER -> [ProcessTicket(rec.kind) EXCEPT !.idx = 0]
    BY <1>2 DEF OpenRecord
  <2> HIDE DEF rec
  <2>2. CASE rec.kind = "app"
    <3>0. prover' = [prover EXCEPT !.delivered = prover.delivered + 1, !.idx = 0] /\ prover.delivered + 1 \in Nat
      BY <1>t, <2>1, <2>2
    <3>1. prover' = [prover EXCEPT !.stage = "reading", !.delivered = prover.delivered + 1, !.idx = 0]
      BY <1>t, <3>0 DEF Provers
    <3> QED
      BY <1>m, <1>t, <1>u, <2>1, <3>0, <3>1, OwnOpened
  <2>3. CASE rec.kind = "close"
    <3>1. prover' = [prover EXCEPT !.stage = "psk", !.delivered = prover.delivered, !.idx = 0]
      BY <1>t, <2>1, <2>3 DEF Provers
    <3> QED
      BY <1>m, <1>t, <1>u, <2>1, <3>1, OwnOpened
  <2>4. CASE rec.kind = "nstX"
    <3>1. prover' = [prover EXCEPT !.stage = "reading", !.delivered = prover.delivered, !.idx = 0]
      BY <1>t, <2>1, <2>4 DEF Provers
    <3> QED
      BY <1>m, <1>t, <1>u, <2>1, <3>1, OwnOpened
  <2>5. CASE rec.kind \in {"nst0", "nst1", "nst8"}
    <3>1. prover' = [ProcessTicket(rec.kind) EXCEPT !.idx = 0] /\ 0 <= Len(prover.recs)
      BY <1>t, <2>1, <2>5, LenProperties
    <3> QED
      BY <1>m, <1>t, <1>u, <2>1, <2>5, <3>1, OwnProcessed
  <2> QED
    BY <1>k, <2>2, <2>3, <2>4, <2>5
<1> QED
  BY <1>1, <1>2

LEMMA OwnEndOfStream ==
    ASSUME PTypes, Own, EndOfStream
    PROVE  PTypes' /\ Own'
<1>1. /\ prover.stage = "reading" /\ prover.idx = 0 /\ popen' = popen /\ round' = round /\ origin' = origin
      /\ Start(IF true_surf THEN "submit" ELSE "psk", <<>>)
      /\ fault' = (fault \/ prover.recs = <<>> \/ prover.recs[Len(prover.recs)].kind # "close")
  BY DEF EndOfStream, At, NetUnchanged
<1>2. fault' \in BOOLEAN /\ (fault => fault') /\ (true_surf /\ prover.recs = <<>> => fault')
  BY <1>1 DEF PTypes
<1>3. (IF true_surf THEN "submit" ELSE "psk") \in {"psk", "submit"}
  OBVIOUS
<1> QED
  BY <1>1, <1>2, <1>3, OwnMoved

\* A captured record goes to the verifier, and then k_v is asked for.
LEMMA OwnSubmitted ==
    ASSUME PTypes, Own, NEW n \in Nat, n <= Len(prover.recs), NEW todo \in Scripts, prover.stage = "submit",
           prover' = [prover EXCEPT !.idx = n, !.todo = todo],
           popen' = popen, round' = round, origin' = origin, fault' = fault
    PROVE  PTypes' /\ Own'
<1>t. prover \in Provers /\ prover.stage = "submit"
  BY DEF PTypes
<1>0. /\ prover' = [prover EXCEPT !.idx = n, !.todo = todo]
      /\ popen' = popen /\ round' = round /\ origin' = origin /\ fault' = fault
  BY <1>t DEF PTypes
<1>f. /\ prover'.stage = prover.stage
      /\ prover'.todo = todo
      /\ prover'.session = prover.session
      /\ prover'.offer = prover.offer
      /\ prover'.resuming = prover.resuming
      /\ prover'.reused = prover.reused
      /\ prover'.psk_circuit = prover.psk_circuit
      /\ prover'.ticket = prover.ticket
      /\ prover'.recs = prover.recs
      /\ prover'.idx = n
      /\ prover'.delivered = prover.delivered
      /\ prover'.ok = prover.ok
  BY <1>0, <1>t DEF Provers
<1>1. PTypes'
  <2>1. prover' \in Provers
    BY <1>0, <1>t DEF Provers
  <2> QED
    BY <1>0, <2>1 DEF PTypes
<1>2. OwnStage(prover', popen')
  BY <1>t, <1>0, <1>f DEF OwnStage, Own, InRound, HsStages
<1>3. OwnTicket(prover', popen', round', fault')
  BY <1>t, <1>0, <1>f DEF OwnTicket, OwnStage, Own, HsStages, Hello, Stray, InRound
<1>4. OwnRecords(prover', popen', fault', origin')
  BY <1>t, <1>0, <1>f DEF OwnRecords, OwnStage, Own, HsStages, InRound
<1>5. OwnPage(prover', popen', origin')
  BY <1>t, <1>0, <1>f DEF OwnPage, OwnStage, Own, InRound, HsStages
<1> QED
  BY <1>1, <1>2, <1>3, <1>4, <1>5 DEF Own

LEMMA OwnAsked ==
    ASSUME PTypes, Own, prover.stage = "submit",
           prover' = [prover EXCEPT !.stage = "open", !.idx = 0,
                                    !.todo = <<Send("KEY_RELEASE"), Recv({"KEY"})>>],
           popen' = popen, round' = round, origin' = origin, fault' = fault
    PROVE  PTypes' /\ Own'
<1>t. prover \in Provers /\ prover.stage = "submit"
  BY DEF PTypes
<1>n. Len(prover.recs) \in Nat
  BY <1>t, LenProperties DEF Provers
<1>0. /\ prover' = [prover EXCEPT !.stage = "open", !.idx = 0, !.todo = <<Send("KEY_RELEASE"), Recv({"KEY"})>>]
      /\ popen' = popen /\ round' = round /\ origin' = origin /\ fault' = fault
  BY <1>t DEF PTypes
<1>f. /\ prover'.stage = "open"
      /\ prover'.todo = <<Send("KEY_RELEASE"), Recv({"KEY"})>>
      /\ prover'.session = prover.session
      /\ prover'.offer = prover.offer
      /\ prover'.resuming = prover.resuming
      /\ prover'.reused = prover.reused
      /\ prover'.psk_circuit = prover.psk_circuit
      /\ prover'.ticket = prover.ticket
      /\ prover'.recs = prover.recs
      /\ prover'.idx = 0
      /\ prover'.delivered = prover.delivered
      /\ prover'.ok = prover.ok
  BY <1>0, <1>t DEF Provers
<1>1. PTypes'
  <2>1. "open" \in Stages /\ 0 \in Nat /\ <<Send("KEY_RELEASE"), Recv({"KEY"})>> \in Scripts
    BY CallbackTypes DEF Stages, InRound, HsStages
  <2>2. prover' \in Provers
    BY <1>t, <1>0, <2>1 DEF Provers
  <2> QED
    BY <1>0, <2>2 DEF PTypes
<1>2. OwnStage(prover', popen')
  BY <1>t, <1>0, <1>f DEF OwnStage, Own, InRound, HsStages
<1>3. OwnTicket(prover', popen', round', fault')
  BY <1>t, <1>0, <1>f DEF OwnTicket, OwnStage, Own, HsStages, Hello, Stray, InRound
<1>4. OwnRecords(prover', popen', fault', origin')
  BY <1>t, <1>0, <1>f, LenProperties, <1>n DEF OwnRecords, OwnStage, Own, HsStages, InRound
<1>5. OwnPage(prover', popen', origin')
  BY <1>t, <1>0, <1>f DEF OwnPage, OwnStage, Own, InRound, HsStages
<1> QED
  BY <1>1, <1>2, <1>3, <1>4, <1>5 DEF Own

LEMMA OwnSubmitRecord ==
    ASSUME PTypes, Own, SubmitRecord
    PROVE  PTypes' /\ Own'
<1>t. /\ prover \in Provers /\ prover.stage = "submit" /\ fault \in BOOLEAN /\ prover.idx \in Nat
      /\ prover.recs \in Seq(Records) /\ Len(prover.recs) \in Nat
  BY LenProperties DEF PTypes, Provers, SubmitRecord, At
<1>u. round' = round /\ origin' = origin /\ fault' = fault
  BY DEF SubmitRecord, NetUnchanged
<1> DEFINE i == prover.idx
<1>1. CASE i > 0 /\ prover.recs[i].bad
  <2>1. EndRound(FALSE)
    BY <1>1 DEF SubmitRecord
  <2> QED
    BY <1>u, <1>t, <2>1, OwnEndRound
<1>2. CASE ~(i > 0 /\ prover.recs[i].bad) /\ i < Len(prover.recs)
  <2>1. /\ popen' = popen
        /\ prover' = [prover EXCEPT !.idx = i + 1, !.todo = verify_record_tag(i = 0, prover.recs[i + 1])]
    BY <1>2 DEF SubmitRecord
  <2>2. i + 1 \in Nat /\ i + 1 <= Len(prover.recs) /\ i + 1 \in 1 .. Len(prover.recs)
    BY <1>t, <1>2
  <2>3. verify_record_tag(i = 0, prover.recs[i + 1]) \in Scripts
    <3>1. prover.recs[i + 1] \in Records
      BY <1>t, <2>2, ElementOfSeq
    <3>2. prover.recs[i + 1].bad \in BOOLEAN
      BY <3>1, KindOf
    <3>3. \A first \in BOOLEAN : verify_record_tag(first, prover.recs[i + 1]) \in Scripts
      BY <3>2, RecordTypes
    <3>4. (i = 0) \in BOOLEAN
      OBVIOUS
    <3> QED
      BY <3>3, <3>4, Zenon
  <2> DEFINE todo == verify_record_tag(i = 0, prover.recs[i + 1])
  <2>4. prover' = [prover EXCEPT !.idx = i + 1, !.todo = todo] /\ todo \in Scripts
    BY <2>1, <2>3, Zenon
  <2> HIDE DEF todo
  <2> QED
    BY <1>t, <1>u, <2>1, <2>2, <2>4, OwnSubmitted
<1>3. CASE ~(i > 0 /\ prover.recs[i].bad) /\ ~(i < Len(prover.recs))
  <2>1. /\ popen' = popen
        /\ prover' = [prover EXCEPT !.stage = "open", !.idx = 0,
                          !.todo = <<Send("KEY_RELEASE"), Recv({"KEY"})>>]
    BY <1>3 DEF SubmitRecord
  <2> QED
    BY <1>t, <1>u, <2>1, OwnAsked
<1> QED
  BY <1>1, <1>2, <1>3
\* The captured records are decrypted.
LEMMA OwnDecrypted ==
    ASSUME PTypes, Own, EndsWithClose(prover.recs), prover.stage = "open", NEW d \in Nat,
           prover' = [prover EXCEPT !.stage = "replay", !.delivered = d],
           Padding = FALSE => d = Apps(prover.recs),
           popen' = popen, round' = round, origin' = origin, fault' = fault
    PROVE  PTypes' /\ Own'
<1>t. prover \in Provers /\ prover.stage = "open"
  BY DEF PTypes
<1>0. /\ prover' = [prover EXCEPT !.stage = "replay", !.delivered = d]
      /\ popen' = popen /\ round' = round /\ origin' = origin /\ fault' = fault
  BY <1>t DEF PTypes
<1>f. /\ prover'.stage = "replay"
      /\ prover'.todo = prover.todo
      /\ prover'.session = prover.session
      /\ prover'.offer = prover.offer
      /\ prover'.resuming = prover.resuming
      /\ prover'.reused = prover.reused
      /\ prover'.psk_circuit = prover.psk_circuit
      /\ prover'.ticket = prover.ticket
      /\ prover'.recs = prover.recs
      /\ prover'.idx = prover.idx
      /\ prover'.delivered = d
      /\ prover'.ok = prover.ok
  BY <1>0, <1>t DEF Provers
<1>1. PTypes'
  <2>1. "replay" \in Stages
    BY RoundPsks, Nil DEF Stages, InRound, HsStages
  <2>2. prover' \in Provers
    BY <1>t, <1>0, <2>1 DEF Provers
  <2> QED
    BY <1>0, <2>2 DEF PTypes
<1>2. OwnStage(prover', popen')
  BY <1>t, <1>0, <1>f DEF OwnStage, Own, InRound, HsStages
<1>3. OwnTicket(prover', popen', round', fault')
  BY <1>t, <1>0, <1>f DEF OwnTicket, OwnStage, Own, HsStages, Hello, Stray, InRound
<1>4. OwnRecords(prover', popen', fault', origin')
  BY <1>t, <1>0, <1>f DEF OwnRecords, OwnStage, Own, HsStages, InRound
<1>5. OwnPage(prover', popen', origin')
  BY <1>t, <1>0, <1>f DEF EndsWithClose, IsCloseNotify, OwnPage, OwnStage, Own, InRound, HsStages
<1> QED
  BY <1>1, <1>2, <1>3, <1>4, <1>5 DEF Own

LEMMA OwnOpenRecords ==
    ASSUME PTypes, Own, OpenRecords
    PROVE  PTypes' /\ Own'
<1>t. /\ prover \in Provers /\ prover.stage = "open" /\ fault \in BOOLEAN
      /\ prover.recs \in Seq(Records) /\ Len(prover.recs) \in Nat
  BY LenProperties DEF PTypes, Provers, OpenRecords, At
<1>u. round' = round /\ origin' = origin
      /\ fault' = (fault \/ ~EndsWithClose(prover.recs))
  BY DEF OpenRecords, NetUnchanged
<1>1. CASE ~EndsWithClose(prover.recs)
  <2>1. EndRound(FALSE)
    BY <1>1 DEF OpenRecords
  <2> QED
    BY <1>1, <1>u, <1>t, <2>1, OwnEndRound
<1>2. CASE EndsWithClose(prover.recs)
  <2> DEFINE S == {i \in DOMAIN prover.recs : IsApplicationData(prover.recs[i])}
             d == Cardinality(S)
  <2>1. popen' = popen /\ prover' = [prover EXCEPT !.stage = "replay", !.delivered = d]
    BY <1>2 DEF OpenRecords
  <2>2. fault' = fault
    BY <1>t, <1>u, <1>2
  <2>3. d \in Nat
    <3>1. DOMAIN prover.recs = 1 .. Len(prover.recs)
      BY <1>t, LenProperties
    <3>2. IsFiniteSet(1 .. Len(prover.recs)) /\ S \subseteq 1 .. Len(prover.recs)
      BY <1>t, <3>1, FS_Interval
    <3> QED
      BY <3>2, FS_Subset, FS_CardinalityType
  <2>4. ASSUME Padding = FALSE PROVE d = Apps(prover.recs)
    <3>1. \A i \in DOMAIN prover.recs : prover.recs[i] \in Records
      BY <1>t, ElementOfSeq, LenProperties
    <3>2. \A i \in DOMAIN prover.recs : ~prover.recs[i].pad
      BY <2>4, <3>1, KindOf
    <3>3. S = {i \in DOMAIN prover.recs : prover.recs[i].kind = "app"}
      BY <3>2 DEF IsApplicationData
    <3> QED
      BY <3>3 DEF Apps
  <2> HIDE DEF d
  <2> QED
    BY <1>2, <1>t, <1>u, <2>1, <2>2, <2>3, <2>4, OwnDecrypted
<1> QED
  BY <1>1, <1>2

LEMMA OwnReplayEnds ==
    ASSUME PTypes, Own, prover.stage = "replay", Start("psk", <<>>),
           popen' = popen, round' = round, origin' = origin, fault' = fault
    PROVE  PTypes' /\ Own'
<1>t. prover \in Provers /\ prover.stage = "replay"
  BY DEF PTypes, PTypes, Start
<1>0. /\ prover' = [prover EXCEPT !.stage = "psk", !.todo = <<>>]
      /\ popen' = popen /\ round' = round /\ origin' = origin /\ fault' = fault
  BY <1>t DEF PTypes, Start
<1>f. /\ prover'.stage = "psk"
      /\ prover'.todo = <<>>
      /\ prover'.session = prover.session
      /\ prover'.offer = prover.offer
      /\ prover'.resuming = prover.resuming
      /\ prover'.reused = prover.reused
      /\ prover'.psk_circuit = prover.psk_circuit
      /\ prover'.ticket = prover.ticket
      /\ prover'.recs = prover.recs
      /\ prover'.idx = prover.idx
      /\ prover'.delivered = prover.delivered
      /\ prover'.ok = prover.ok
  BY <1>0, <1>t DEF Provers
<1>1. PTypes'
  <2>1. "psk" \in Stages /\ <<>> \in Scripts
    BY RoundPsks, Nil DEF Stages, InRound, HsStages
  <2>2. prover' \in Provers
    BY <1>t, <1>0, <2>1 DEF Provers
  <2> QED
    BY <1>0, <2>2 DEF PTypes
<1>2. OwnStage(prover', popen')
  BY <1>t, <1>0, <1>f DEF OwnStage, Own, InRound, HsStages
<1>3. OwnTicket(prover', popen', round', fault')
  BY <1>t, <1>0, <1>f DEF OwnTicket, OwnStage, Own, HsStages, Hello, Stray, InRound
<1>4. OwnRecords(prover', popen', fault', origin')
  BY <1>t, <1>0, <1>f DEF OwnRecords, OwnStage, Own, HsStages, InRound
<1>5. OwnPage(prover', popen', origin')
  BY <1>t, <1>0, <1>f DEF OwnPage, OwnStage, Own, InRound, HsStages
<1> QED
  BY <1>1, <1>2, <1>3, <1>4, <1>5 DEF Own

LEMMA OwnReplayRecord ==
    ASSUME PTypes, Own, ReplayRecord
    PROVE  PTypes' /\ Own'
<1>t. /\ prover \in Provers /\ prover.stage = "replay" /\ fault \in BOOLEAN /\ prover.idx \in Nat
      /\ prover.recs \in Seq(Records) /\ Len(prover.recs) \in Nat /\ prover.idx <= Len(prover.recs)
  BY LenProperties DEF PTypes, Provers, ReplayRecord, At, Own, OwnRecords
<1>u. round' = round /\ origin' = origin /\ fault' = fault
  BY DEF ReplayRecord, NetUnchanged
<1>1. CASE prover.idx = Len(prover.recs)
  <2>1. Start("psk", <<>>) /\ popen' = popen
    BY <1>1 DEF ReplayRecord
  <2> QED
    BY <1>t, <1>u, <2>1, OwnReplayEnds
<1>2. CASE prover.idx # Len(prover.recs)
  <2> DEFINE n == prover.idx + 1
             rec == prover.recs[n]
  <2>1. n \in Nat /\ n <= Len(prover.recs) /\ n \in 1 .. Len(prover.recs)
    BY <1>t, <1>2
  <2>2. rec \in Records
    BY <1>t, <2>1, ElementOfSeq
  <2>3. rec.kind \in {"app", "nst0", "nst1", "nst8", "nstX", "close"}
    BY <2>2, KindOf
  <2>4. CASE IsHandshake(rec) /\ rec.kind = "nstX" /\ prover.psk_circuit
    <3>1. EndRound(FALSE)
      BY <1>2, <2>4 DEF ReplayRecord
    <3> QED
      BY <1>u, <1>t, <3>1, OwnEndRound
  <2>5. CASE ~(IsHandshake(rec) /\ rec.kind = "nstX" /\ prover.psk_circuit)
    <3>1. /\ popen' = popen
          /\ prover' = [(IF IsHandshake(rec) /\ rec.kind # "nstX"
                         THEN ProcessTicket(rec.kind) ELSE prover) EXCEPT !.idx = @ + 1]
      BY <1>2, <2>5 DEF ReplayRecord
    <3> HIDE DEF rec
    <3>2. CASE IsHandshake(rec) /\ rec.kind # "nstX"
      <4>1. rec.kind \in {"nst0", "nst1", "nst8"}
        BY <2>3, <3>2 DEF IsHandshake, IsTicket
      <4>2. ProcessTicket(rec.kind).idx = prover.idx
        BY <1>t DEF ProcessTicket, Provers
      <4>3. prover' = [ProcessTicket(rec.kind) EXCEPT !.idx = n]
        BY <3>1, <3>2, <4>2
      <4> QED
        BY <1>t, <1>u, <2>1, <3>1, <4>1, <4>3, OwnProcessed
    <3>3. CASE ~(IsHandshake(rec) /\ rec.kind # "nstX")
      <4>1. prover' = [prover EXCEPT !.idx = n]
        BY <3>1, <3>3
      <4> QED
        BY <1>t, <1>u, <2>1, <3>1, <4>1, OwnReplayed
    <3> QED
      BY <3>2, <3>3
  <2> QED
    BY <2>4, <2>5
<1> QED
  BY <1>1, <1>2

LEMMA OwnPskPhase ==
    ASSUME PTypes, Own, PskPhase
    PROVE  PTypes' /\ Own'
<1>t. prover \in Provers /\ prover.stage = "psk"
  BY DEF PTypes, PskPhase, At, NetUnchanged
<1>0. /\ prover' = [prover EXCEPT !.stage = "stop", !.session = IF prover.psk_circuit THEN NoPsk ELSE prover.ticket,
                                 !.todo = (IF prover.psk_circuit THEN <<Send("PSK_SKIP")>> ELSE <<>>) \o <<Send("STOP")>>]
      /\ popen' = popen /\ round' = round /\ origin' = origin /\ fault' = fault
  BY <1>t DEF PskPhase, At, NetUnchanged
<1>f. /\ prover'.stage = "stop"
      /\ prover'.todo = (IF prover.psk_circuit THEN <<Send("PSK_SKIP")>> ELSE <<>>) \o <<Send("STOP")>>
      /\ prover'.session = IF prover.psk_circuit THEN NoPsk ELSE prover.ticket
      /\ prover'.offer = prover.offer
      /\ prover'.resuming = prover.resuming
      /\ prover'.reused = prover.reused
      /\ prover'.psk_circuit = prover.psk_circuit
      /\ prover'.ticket = prover.ticket
      /\ prover'.recs = prover.recs
      /\ prover'.idx = prover.idx
      /\ prover'.delivered = prover.delivered
      /\ prover'.ok = prover.ok
  BY <1>0, <1>t DEF Provers
<1>1. PTypes'
  <2>1. (IF prover.psk_circuit THEN <<Send("PSK_SKIP")>> ELSE <<>>) \o <<Send("STOP")>> \in Scripts
    <3>1. prover.psk_circuit \in BOOLEAN
      BY <1>t DEF Provers
    <3> QED
      BY <3>1, CallbackTypes
  <2>2. "stop" \in Stages
    BY DEF Stages, InRound, HsStages
  <2>3. (IF prover.psk_circuit THEN NoPsk ELSE prover.ticket) \in Psks
    BY <1>t, RoundPsks DEF Provers
  <2>4. prover' \in Provers
    BY <1>t, <1>0, <2>1, <2>2, <2>3 DEF Provers
  <2> QED
    BY <1>0, <2>4 DEF PTypes
<1>2. OwnStage(prover', popen')
  BY <1>t, <1>0, <1>f DEF OwnStage, Own, InRound, HsStages
<1>3. OwnTicket(prover', popen', round', fault')
  BY <1>t, <1>0, <1>f DEF OwnTicket, OwnStage, Own, HsStages, Hello, Stray, InRound
<1>4. OwnRecords(prover', popen', fault', origin')
  BY <1>t, <1>0, <1>f DEF OwnRecords, OwnStage, Own, HsStages, InRound
<1>5. OwnPage(prover', popen', origin')
  BY <1>t, <1>0, <1>f DEF OwnPage, OwnStage, Own, InRound, HsStages
<1> QED
  BY <1>1, <1>2, <1>3, <1>4, <1>5 DEF Own

LEMMA OwnStopSent ==
    ASSUME PTypes, Own, StopSent
    PROVE  PTypes' /\ Own'
<1>1. prover.stage = "stop" /\ EndRound(TRUE) /\ round' = round /\ origin' = origin /\ fault' = fault
      /\ fault \in BOOLEAN
  BY DEF StopSent, NetUnchanged, At, PTypes
<1> QED
  BY <1>1, OwnEndRound

LEMMA OwnConnectFails ==
    ASSUME PTypes, Own, ConnectFails
    PROVE  PTypes' /\ Own'
<1>1. EndRound(FALSE) /\ round' = round /\ origin' = origin /\ fault' = fault /\ fault \in BOOLEAN
  BY DEF ConnectFails, PTypes
<1> QED
  BY <1>1, OwnEndRound

LEMMA OwnStartRound ==
    ASSUME PTypes, Own, StartRound
    PROVE  PTypes' /\ Own'
<1>t. prover \in Provers /\ prover.stage = "idle" /\ prover.session \in Psks /\ ~popen
  BY DEF PTypes, StartRound, Provers, Own, OwnStage, InRound, HsStages
<1>0. /\ prover' = [ProverIdle EXCEPT !.stage = "connect", !.session = prover.session]
      /\ popen' = popen /\ round' = round + 1 /\ round < MaxRounds /\ origin' = 0 /\ fault' = fault
  BY DEF StartRound
<1>f. /\ prover'.stage = "connect" /\ prover'.todo = <<>> /\ prover'.offer = NoPsk
      /\ prover'.session = prover.session
      /\ prover'.resuming = FALSE /\ prover'.reused = FALSE /\ prover'.psk_circuit = TRUE
      /\ prover'.ticket = NoPsk /\ prover'.recs = <<>> /\ prover'.idx = 0
      /\ prover'.delivered = 0 /\ prover'.ok = FALSE
  BY <1>0 DEF ProverIdle
<1>1. PTypes'
  <2>1. "connect" \in Stages /\ <<>> \in Scripts /\ NoPsk \in Psks /\ <<>> \in Seq(Records)
    BY RoundPsks, Nil DEF Stages
  <2>2. prover' \in Provers
    BY <1>0, <1>t, <2>1 DEF Provers, ProverIdle
  <2> QED
    BY <1>0, <2>2, SessionAssumption DEF PTypes
<1>2. OwnStage(prover', popen')
  BY <1>0, <1>t, <1>f DEF OwnStage, Own, InRound, HsStages
<1>3. OwnTicket(prover', popen', round', fault')
  BY <1>0, <1>t, <1>f DEF OwnTicket, HsStages
<1>4. OwnRecords(prover', popen', fault', origin')
  BY <1>0, <1>t, <1>f, SessionAssumption DEF OwnRecords
<1>5. OwnPage(prover', popen', origin')
  BY <1>0, <1>t, <1>f, AppsEmpty, SessionAssumption DEF OwnPage
<1> QED
  BY <1>1, <1>2, <1>3, <1>4, <1>5 DEF Own

LEMMA OwnQuits ==
    ASSUME PTypes, Own, prover' = [prover EXCEPT !.stage = "quit", !.todo = <<>>], popen' = FALSE,
           round' = round, origin' = origin, fault' \in BOOLEAN, fault => fault'
    PROVE  PTypes' /\ Own'
<1>t. prover \in Provers
  BY DEF PTypes
<1>0. /\ prover' = [prover EXCEPT !.stage = "quit", !.todo = <<>>]
      /\ popen' = FALSE /\ round' = round /\ origin' = origin /\ fault' \in BOOLEAN
  BY <1>t DEF PTypes
<1>f. /\ prover'.stage = "quit"
      /\ prover'.todo = <<>>
      /\ prover'.session = prover.session
      /\ prover'.offer = prover.offer
      /\ prover'.resuming = prover.resuming
      /\ prover'.reused = prover.reused
      /\ prover'.psk_circuit = prover.psk_circuit
      /\ prover'.ticket = prover.ticket
      /\ prover'.recs = prover.recs
      /\ prover'.idx = prover.idx
      /\ prover'.delivered = prover.delivered
      /\ prover'.ok = prover.ok
  BY <1>0, <1>t DEF Provers
<1>1. PTypes'
  <2>1. "quit" \in Stages /\ <<>> \in Scripts
    BY RoundPsks, Nil DEF Stages, InRound, HsStages
  <2>2. prover' \in Provers
    BY <1>t, <1>0, <2>1 DEF Provers
  <2> QED
    BY <1>0, <2>2 DEF PTypes
<1>2. OwnStage(prover', popen')
  BY <1>t, <1>0, <1>f DEF OwnStage, Own, InRound, HsStages
<1>3. OwnTicket(prover', popen', round', fault')
  BY <1>t, <1>0, <1>f DEF OwnTicket, OwnStage, Own, HsStages, Hello, Stray, InRound
<1>4. OwnRecords(prover', popen', fault', origin')
  BY <1>t, <1>0, <1>f DEF OwnRecords, OwnStage, Own, HsStages, InRound
<1>5. OwnPage(prover', popen', origin')
  BY <1>t, <1>0, <1>f DEF OwnPage, OwnStage, Own, InRound, HsStages
<1> QED
  BY <1>1, <1>2, <1>3, <1>4, <1>5 DEF Own

LEMMA OwnQuit ==
    ASSUME PTypes, Own, Quit
    PROVE  PTypes' /\ Own'
<1>1. prover.stage = "idle" /\ prover' = [prover EXCEPT !.stage = "quit"]
      /\ popen' = popen /\ round' = round /\ origin' = origin /\ fault' = fault /\ fault \in BOOLEAN
      /\ popen \in BOOLEAN /\ prover \in Provers
  BY DEF Quit, PTypes
<1>2. popen = FALSE /\ prover.todo = <<>>
  BY <1>1 DEF Own, OwnStage, InRound, HsStages
<1>3. prover' = [prover EXCEPT !.stage = "quit", !.todo = <<>>]
  BY <1>1, <1>2 DEF Provers
<1> QED
  BY <1>1, <1>2, <1>3, OwnQuits

LEMMA OwnProverCrash ==
    ASSUME PTypes, Own, ProverCrash
    PROVE  PTypes' /\ Own'
BY OwnQuits DEF ProverCrash

\* A script runs on.
LEMMA OwnTail ==
    ASSUME PTypes, Own, prover.todo # <<>>, prover' = [prover EXCEPT !.todo = Tail(prover.todo)],
           popen' = popen, round' = round, origin' = origin, fault' = fault
    PROVE  PTypes' /\ Own'
<1>t. prover \in Provers /\ prover.todo # <<>>
  BY DEF PTypes
<1>0. /\ prover' = [prover EXCEPT !.todo = Tail(prover.todo)]
      /\ popen' = popen /\ round' = round /\ origin' = origin /\ fault' = fault
  BY <1>t DEF PTypes
<1>f. /\ prover'.stage = prover.stage
      /\ prover'.todo = Tail(prover.todo)
      /\ prover'.session = prover.session
      /\ prover'.offer = prover.offer
      /\ prover'.resuming = prover.resuming
      /\ prover'.reused = prover.reused
      /\ prover'.psk_circuit = prover.psk_circuit
      /\ prover'.ticket = prover.ticket
      /\ prover'.recs = prover.recs
      /\ prover'.idx = prover.idx
      /\ prover'.delivered = prover.delivered
      /\ prover'.ok = prover.ok
  BY <1>0, <1>t DEF Provers
<1>1. PTypes'
  <2>1. Tail(prover.todo) \in Scripts
    BY <1>t, ScriptTail DEF Provers
  <2>2. prover' \in Provers
    BY <1>t, <1>0, <2>1 DEF Provers
  <2> QED
    BY <1>0, <2>2 DEF PTypes
<1>2. OwnStage(prover', popen')
  BY <1>t, <1>0, <1>f DEF OwnStage, Own, InRound, HsStages
<1>3. OwnTicket(prover', popen', round', fault')
  BY <1>t, <1>0, <1>f DEF OwnTicket, OwnStage, Own, HsStages, Hello, Stray, InRound
<1>4. OwnRecords(prover', popen', fault', origin')
  BY <1>t, <1>0, <1>f DEF OwnRecords, OwnStage, Own, HsStages, InRound
<1>5. OwnPage(prover', popen', origin')
  BY <1>t, <1>0, <1>f DEF OwnPage, OwnStage, Own, InRound, HsStages
<1> QED
  BY <1>1, <1>2, <1>3, <1>4, <1>5 DEF Own

LEMMA OwnProverSend ==
    ASSUME PTypes, Own, ProverSend
    PROVE  PTypes' /\ Own'
<1>1. /\ prover.todo # <<>> /\ round' = round /\ origin' = origin /\ fault' = fault /\ fault \in BOOLEAN
      /\ \/ prover' = [prover EXCEPT !.todo = Tail(@)] /\ popen' = popen
         \/ ProverError
  BY DEF ProverSend, Op, PTypes
<1>2. true_surf => prover.stage # "reading"
  BY <1>1 DEF Own, OwnStage
<1>3. CASE prover' = [prover EXCEPT !.todo = Tail(@)] /\ popen' = popen
  BY <1>1, <1>3, OwnTail
<1>4. CASE ProverError
  BY <1>1, <1>2, <1>4, OwnError
<1> QED
  BY <1>1, <1>3, <1>4

LEMMA OwnProverRecv ==
    ASSUME PTypes, Own, ProverRecv
    PROVE  PTypes' /\ Own'
<1>1. /\ prover.todo # <<>> /\ round' = round /\ origin' = origin /\ fault' = fault /\ fault \in BOOLEAN
      /\ \/ prover' = [prover EXCEPT !.todo = Tail(@)] /\ popen' = popen
         \/ ProverError
  BY DEF ProverRecv, Op, PTypes
<1>2. true_surf => prover.stage # "reading"
  BY <1>1 DEF Own, OwnStage
<1>3. CASE prover' = [prover EXCEPT !.todo = Tail(@)] /\ popen' = popen
  BY <1>1, <1>3, OwnTail
<1>4. CASE ProverError
  BY <1>1, <1>2, <1>4, OwnError
<1> QED
  BY <1>1, <1>3, <1>4

LEMMA OwnConnect ==
    ASSUME PTypes, Own, Connect
    PROVE  PTypes' /\ Own'
<1>t. prover \in Provers /\ prover.stage = "connect"
  BY DEF PTypes, Connect
<1> DEFINE todo == <<Recv({"DONE_HS"}),
                      Send(IF prover.session # NoPsk THEN "RUN_RESUMED" ELSE "RUN_FULL")>>
                    \o (IF Offline THEN preprocess_circuits ELSE <<>>)
<1>s. todo \in Scripts
  <2>1. {"DONE_HS"} \subseteq Words /\ (IF prover.session # NoPsk THEN "RUN_RESUMED" ELSE "RUN_FULL") \in Words
    BY DEF Words
  <2>2. <<Recv({"DONE_HS"}), Send(IF prover.session # NoPsk THEN "RUN_RESUMED" ELSE "RUN_FULL")>> \in Scripts
    BY <2>1, HeaderTypes, RecvTypes DEF Scripts
  <2>3. (IF Offline THEN preprocess_circuits ELSE <<>>) \in Scripts
    BY CallbackTypes, Nil
  <2> QED
    BY <2>2, <2>3, Cat
<1>0. /\ prover' = [prover EXCEPT !.stage = "hello", !.resuming = (prover.session # NoPsk), !.offer = prover.session,
                                 !.session = NoPsk, !.todo = todo]
      /\ popen' = TRUE /\ round' = round /\ origin' = origin /\ fault' = fault
  BY <1>t DEF Connect
<1>f. /\ prover'.stage = "hello"
      /\ prover'.todo = todo
      /\ prover'.session = NoPsk
      /\ prover'.offer = prover.session
      /\ prover'.resuming = (prover.session # NoPsk)
      /\ prover'.reused = prover.reused
      /\ prover'.psk_circuit = prover.psk_circuit
      /\ prover'.ticket = prover.ticket
      /\ prover'.recs = prover.recs
      /\ prover'.idx = prover.idx
      /\ prover'.delivered = prover.delivered
      /\ prover'.ok = prover.ok
  BY <1>0, <1>t DEF Provers
<1>1. PTypes'
  <2>1. "hello" \in Stages /\ NoPsk \in Psks
    BY RoundPsks DEF Stages, InRound, HsStages
  <2>2. prover' \in Provers
    BY <1>t, <1>0, <1>s, <2>1 DEF Provers
  <2> QED
    BY <1>0, <2>2 DEF PTypes
<1>2. OwnStage(prover', popen')
  BY <1>t, <1>0, <1>f DEF OwnStage, Own, InRound, HsStages
<1>3. OwnTicket(prover', popen', round', fault')
  BY <1>t, <1>0, <1>f DEF OwnTicket, OwnStage, Own, HsStages, Hello, Stray, InRound
<1>4. OwnRecords(prover', popen', fault', origin')
  BY <1>t, <1>0, <1>f DEF OwnRecords, OwnStage, Own, HsStages, InRound
<1>5. OwnPage(prover', popen', origin')
  BY <1>t, <1>0, <1>f DEF OwnPage, OwnStage, Own, InRound, HsStages
<1> QED
  BY <1>1, <1>2, <1>3, <1>4, <1>5 DEF Own
-----------------------------------------------------------------------------
(* The verifier *)

LEMMA WalkStates ==
    /\ {States[i] : i \in 1 .. Len(States) - 1} = HsStates \cup {"PSK_DONE", "SHUTDOWN"}
    /\ \A s \in HsStates \cup {"PSK_DONE", "SHUTDOWN"} :
          next_state(s) \in HsStates \cup {"PSK_DONE", "SHUTDOWN", "DONE"}
          /\ (next_state(s) = "DONE" <=> s = "SHUTDOWN")
    /\ \A s \in HsStates \cup {"PSK_DONE", "SHUTDOWN"} : s \notin Away
<1>1. {States[i] : i \in 1 .. Len(States) - 1} = HsStates \cup {"PSK_DONE", "SHUTDOWN"}
  <2>1. 1 .. Len(States) - 1 = (1 .. 21) \cup {22, 23, 24}
    BY StatesDomain
  <2>2. States[22] = "DERIVE_PSK" /\ States[23] = "PSK_DONE" /\ States[24] = "SHUTDOWN"
    BY DEF States
  <2>3. \A i \in 1 .. Len(States) - 1 : i \in 1 .. 21 \/ i = 22 \/ i = 23 \/ i = 24
    BY <2>1
  <2>4. 22 \in 1 .. Len(States) - 1 /\ 23 \in 1 .. Len(States) - 1 /\ 24 \in 1 .. Len(States) - 1
        /\ \A i \in 1 .. 21 : i \in 1 .. Len(States) - 1
    BY <2>1
  <2>5. ASSUME NEW i \in 1 .. Len(States) - 1 PROVE States[i] \in HsStates \cup {"PSK_DONE", "SHUTDOWN"}
    <3>1. CASE i \in 1 .. 21
      BY <3>1 DEF HsStates, Handshaking
    <3> QED
      BY <2>2, <2>3, <3>1 DEF HsStates
  <2>6. ASSUME NEW s \in HsStates \cup {"PSK_DONE", "SHUTDOWN"}
        PROVE  \E i \in 1 .. Len(States) - 1 : s = States[i]
    <3>1. CASE s \in Handshaking
      <4>1. PICK i \in 1 .. 21 : s = States[i]
        BY <3>1 DEF Handshaking
      <4> QED
        BY <2>4, <4>1
    <3> QED
      BY <2>2, <2>4, <3>1 DEF HsStates
  <2> QED
    BY <2>5, <2>6, Zenon
<1>2. \A s \in HsStates \cup {"PSK_DONE", "SHUTDOWN"} :
          next_state(s) \in HsStates \cup {"PSK_DONE", "SHUTDOWN", "DONE"}
          /\ (next_state(s) = "DONE" <=> s = "SHUTDOWN")
  BY NextState, HsStatesAre
<1>3. \A s \in HsStates \cup {"PSK_DONE", "SHUTDOWN"} : s \notin Away
  BY HsStatesAre DEF Away
<1> QED
  BY <1>1, <1>2, <1>3

LEMMA HandlersAre ==
    ASSUME NEW v \in Verifiers, NEW s \in VStates
    PROVE  /\ Handler(s, v) \in Scripts
           /\ s \in Away => Handler(s, v) = <<>>
<1>0. v.psk_shares \in Int
  BY RoundPsks DEF Verifiers
<1>a. /\ Handler("HANDSHAKE_DONE", v) = write_handshake_done
      /\ Handler("DERIVE_PSK", v) = Serve /\ Handler("SHUTDOWN", v) = Serve
      /\ Handler("PSK_DONE", v) = write_completed_psk(v)
      /\ \A q \in Away : Handler(q, v) = <<>>
  BY DEF Handler, Away
<1>b. write_completed_psk(v) \in Scripts
  <2>1. "PSK_DONE" \in Words
    BY DEF Words
  <2> QED
    BY <2>1, OneHeader, Nil DEF write_completed_psk
<1>c. ASSUME NEW q \in Handshaking PROVE Handler(next_state(q), v) \in Scripts
  BY <1>0, AfterStep
<1>d. \A q \in Handshaking : q = "HANDSHAKE_DONE" \/ \E r \in Handshaking : q = next_state(r)
  BY NextState, HsStatesAre
<1>e. \A q \in Handshaking : Handler(q, v) \in Scripts
  BY <1>a, <1>c, <1>d, HandlerTypes
<1>f. s \in Handshaking \cup {"DERIVE_PSK", "PSK_DONE", "SHUTDOWN"} \cup Away
  BY DEF VStates, HsStates
<1>1. CASE s \in Handshaking
  <2>1. s \notin Away
    BY <1>1, HsStatesAre DEF Away
  <2> QED
    BY <1>1, <1>e, <2>1
<1>2. CASE s \in {"DERIVE_PSK", "PSK_DONE", "SHUTDOWN"}
  BY <1>2, <1>a, <1>b, ServeTypes DEF Away
<1>3. CASE s \in Away
  BY <1>3, <1>a, Nil
<1> QED
  BY <1>f, <1>1, <1>2, <1>3

LEMMA EnterTypes ==
    ASSUME NEW v \in Verifiers, NEW s \in VStates
    PROVE  Enter(s, v) \in Verifiers /\ Enter(s, v).state = s /\ Enter(s, v).todo = Handler(s, v)
<1>1. Handler(s, v) \in Scripts
  BY HandlersAre
<1>2. (IF s = "DERIVE_PSK" THEN FALSE ELSE v.psk_skipped) \in BOOLEAN
  BY DEF Verifiers
<1>3. Enter(s, v) = [v EXCEPT !.state = s, !.todo = Handler(s, v),
                              !.psk_skipped = IF s = "DERIVE_PSK" THEN FALSE ELSE v.psk_skipped]
  BY DEF Enter
<1> QED
  BY <1>1, <1>2, <1>3 DEF Verifiers

VInv == VTypes /\ VOwn

LEMMA OwnVerifierFails ==
    ASSUME VInv, VerifierFails, mixed' \in BOOLEAN, p2v' \in Seq(Messages), v2p' \in Seq(Messages)
    PROVE  VInv'
<1>1. verifier' = [verifier EXCEPT !.state = "EXITED", !.todo = <<>>] /\ vopen' = FALSE
      /\ verifier \in Verifiers
  BY DEF VerifierFails, VInv, VTypes
<1>2. "EXITED" \in VStates /\ <<>> \in Scripts /\ "EXITED" \in Away
  BY Nil DEF VStates, Away
<1>3. verifier' \in Verifiers /\ verifier'.state = "EXITED" /\ verifier'.todo = <<>>
  BY <1>1, <1>2 DEF Verifiers
<1> QED
  BY <1>1, <1>2, <1>3 DEF VInv, VTypes, VOwn

\* The verifier goes on with another script in the same state.
LEMMA OwnVerifierGoes ==
    ASSUME VInv, verifier' \in Verifiers, verifier'.state = verifier.state, vopen' = vopen, vopen,
           mixed' \in BOOLEAN, p2v' \in Seq(Messages), v2p' \in Seq(Messages)
    PROVE  VInv'
BY DEF VInv, VTypes, VOwn

LEMMA OwnAdvance ==
    ASSUME VInv, Advance
    PROVE  VInv'
<1>t. verifier \in Verifiers
  BY DEF VInv, VTypes
<1> DEFINE s == verifier.state
           n == next_state(s)
<1>1. s \in HsStates \cup {"PSK_DONE", "SHUTDOWN"}
  BY WalkStates DEF Advance
<1>2. verifier' = Enter(n, verifier) /\ vopen' = (s # "SHUTDOWN")
      /\ mixed' = mixed /\ p2v' = p2v /\ v2p' = v2p
  BY DEF Advance
<1>3. n \in HsStates \cup {"PSK_DONE", "SHUTDOWN", "DONE"} /\ (n = "DONE" <=> s = "SHUTDOWN")
  BY <1>1, WalkStates
<1>4. n \in VStates /\ (n \in Away <=> n = "DONE")
  BY <1>3, WalkStates DEF VStates, Away
<1> HIDE DEF n
<1>5. verifier' \in Verifiers /\ verifier'.state = n /\ verifier'.todo = Handler(n, verifier)
  BY <1>2, <1>4, <1>t, EnterTypes
<1>6. n \in Away => verifier'.todo = <<>>
  BY <1>4, <1>5, <1>t, HandlersAre
<1> QED
  BY <1>2, <1>3, <1>4, <1>5, <1>6 DEF VInv, VTypes, VOwn

LEMMA OwnAcceptAgain ==
    ASSUME VInv, AcceptAgain
    PROVE  VInv'
<1>1. /\ verifier' = [verifier EXCEPT !.state = "ACCEPT"] /\ verifier \in Verifiers
      /\ vopen' = vopen /\ mixed' = mixed /\ p2v' = p2v /\ v2p' = v2p /\ verifier.state = "DONE"
  BY DEF AcceptAgain, VInv, VTypes
<1>2. "ACCEPT" \in VStates
  BY DEF VStates, Away
<1>3. verifier' \in Verifiers /\ verifier'.state = "ACCEPT" /\ verifier'.todo = verifier.todo
  BY <1>1, <1>2 DEF Verifiers
<1> QED
  BY <1>1, <1>3 DEF VInv, VTypes, VOwn, Away

LEMMA VerifierBusy ==
    ASSUME VInv, verifier.todo # <<>>
    PROVE  vopen /\ Tail(verifier.todo) \in Scripts /\ Head(verifier.todo) \in Instrs
           /\ (Head(verifier.todo).op = "send" => Message(Head(verifier.todo)) \in Messages)
           /\ [verifier EXCEPT !.todo = Tail(verifier.todo)] \in Verifiers
<1>1. vopen /\ verifier \in Verifiers /\ verifier.todo \in Scripts
  BY DEF VInv, VTypes, VOwn, Verifiers
<1>2. Tail(verifier.todo) \in Scripts /\ Head(verifier.todo) \in Instrs
      /\ (Head(verifier.todo).op = "send" => Message(Head(verifier.todo)) \in Messages)
  BY <1>1, ScriptTail
<1> QED
  BY <1>1, <1>2 DEF Verifiers

LEMMA OwnVerifierSend ==
    ASSUME VInv, VerifierSend
    PROVE  VInv'
<1>1. verifier.todo # <<>> /\ Head(verifier.todo).op = "send" /\ p2v' = p2v /\ mixed' = mixed
      /\ p2v \in Seq(Messages) /\ v2p \in Seq(Messages) /\ mixed \in BOOLEAN
  BY DEF VerifierSend, Op, VInv, VTypes
<1>2. CASE VerifierFails /\ v2p' = v2p
  BY <1>1, <1>2, OwnVerifierFails
<1>3. CASE /\ verifier' = [verifier EXCEPT !.todo = Tail(@)] /\ vopen' = vopen
           /\ v2p' = Append(v2p, Message(Head(verifier.todo)))
  <2>1. verifier' \in Verifiers /\ vopen /\ verifier'.state = verifier.state
        /\ Message(Head(verifier.todo)) \in Messages
    BY <1>1, <1>3, VerifierBusy DEF Verifiers
  <2>2. v2p' \in Seq(Messages)
    BY <1>1, <1>3, <2>1, AppendProperties
  <2> QED
    BY <1>1, <1>3, <2>1, <2>2, OwnVerifierGoes
<1> QED
  BY <1>2, <1>3 DEF VerifierSend

LEMMA LearnTypes ==
    ASSUME NEW v \in Verifiers, NEW m, PTypes
    PROVE  Learn(v, m) \in Verifiers /\ Learn(v, m).state = v.state /\ Learn(v, m).todo = v.todo
<1>1. round \in Psks
  BY RoundPsks DEF PTypes
<1> QED
  BY <1>1 DEF Learn, Verifiers

LEMMA OwnVerifierRecv ==
    ASSUME VInv, PTypes, VerifierRecv
    PROVE  VInv'
<1>1. verifier.todo # <<>> /\ v2p' = v2p
      /\ p2v \in Seq(Messages) /\ v2p \in Seq(Messages) /\ mixed \in BOOLEAN
  BY DEF VerifierRecv, Op, VInv, VTypes
<1>2. CASE p2v = <<>>
  BY <1>1, <1>2, OwnVerifierFails DEF VerifierRecv
<1>3. CASE p2v # <<>>
  <2> DEFINE msg == Head(p2v)
             instr == Head(verifier.todo)
  <2>1. p2v' = Tail(p2v) /\ p2v' \in Seq(Messages)
    BY <1>1, <1>3, HeadTailProperties DEF VerifierRecv
  <2>2. CASE msg.m \in instr.m /\ ~TagRejected(msg)
    <3>1. /\ verifier' = Learn([verifier EXCEPT !.todo = Tail(@)], msg.m)
          /\ mixed' = (mixed \/ Mixes(instr, msg)) /\ vopen' = vopen
      BY <1>3, <2>2 DEF VerifierRecv
    <3>2. [verifier EXCEPT !.todo = Tail(@)] \in Verifiers /\ vopen
          /\ [verifier EXCEPT !.todo = Tail(@)].state = verifier.state
      BY <1>1, VerifierBusy DEF VInv, VTypes, Verifiers
    <3>3. verifier' \in Verifiers /\ verifier'.state = verifier.state
      BY <3>1, <3>2, LearnTypes
    <3>4. mixed' \in BOOLEAN
      BY <3>1, <1>1 DEF Mixes
    <3> QED
      BY <1>1, <2>1, <3>1, <3>2, <3>3, <3>4, OwnVerifierGoes
  <2>3. CASE ~(msg.m \in instr.m /\ ~TagRejected(msg))
    <3>1. VerifierFails /\ mixed' = mixed
      BY <1>3, <2>3 DEF VerifierRecv
    <3> QED
      BY <1>1, <2>1, <3>1, OwnVerifierFails
  <2> QED
    BY <2>2, <2>3
<1> QED
  BY <1>2, <1>3

LEMMA ServedTypes ==
    ASSUME NEW v \in Verifiers, NEW h
    PROVE  /\ h \in RecordOps => /\ RecordOp(h, v) \in Verifiers /\ RecordOp(h, v).state = v.state
                                 /\ OpScript(h) \in Scripts
           /\ LastOp(h, v) \in Verifiers /\ LastOp(h, v).state = v.state
<1>1. ASSUME h \in RecordOps
      PROVE  RecordOp(h, v) \in Verifiers /\ RecordOp(h, v).state = v.state /\ OpScript(h) \in Scripts
  <2>1. OpScript(h) \in Scripts
    <3>1. h \in OpHeaders /\ OpBody(h) = OpScript(h)
      BY <1>1 DEF OpHeaders, OpBody, RecordOps, PskHeaders
    <3> QED
      BY <3>1, OpBodyTypes
  <2>2. OpScript(h) \o v.todo \in Scripts
    BY <2>1, Cat DEF Verifiers
  <2> QED
    BY <2>1, <2>2 DEF RecordOp, Verifiers
<1>2. LastOp(h, v) \in Verifiers /\ LastOp(h, v).state = v.state
  <2> DEFINE t == CASE h = "DERIVE_PSK"   -> Circuit("psk1", 0)
                    [] h = "DERIVE_PSK_8" -> Circuit("psk8", 0)
                    [] h = "DERIVE_PSK_0" -> Circuit("psk0", 0)
                    [] OTHER              -> <<>>
  <2>1. \A c \in {"psk0", "psk1", "psk8"} : Circuit(c, 0) \in Scripts
    <3>1. \A c \in {"psk0", "psk1", "psk8"} : c \in Words
      BY DEF Words
    <3> QED
      BY <3>1, CircuitTypes
  <2>2. t \in Scripts
    BY <2>1, Nil
  <2>3. LastOp(h, v) = [v EXCEPT !.psk_skipped = (h = "PSK_SKIP"), !.todo = t]
    BY DEF LastOp
  <2> HIDE DEF t
  <2> QED
    BY <2>2, <2>3 DEF Verifiers
<1> QED
  BY <1>1, <1>2

LEMMA OwnVerifierServe ==
    ASSUME VInv, VerifierServe
    PROVE  VInv'
<1>1. verifier.todo # <<>> /\ v2p' = v2p /\ mixed' = mixed /\ verifier \in Verifiers
      /\ p2v \in Seq(Messages) /\ v2p \in Seq(Messages) /\ mixed \in BOOLEAN
  BY DEF VerifierServe, Op, VInv, VTypes
<1>2. CASE p2v = <<>>
  BY <1>1, <1>2, OwnVerifierFails DEF VerifierServe
<1>3. CASE p2v # <<>>
  <2> DEFINE h == Head(p2v).m[2]
  <2>1. p2v' = Tail(p2v) /\ p2v' \in Seq(Messages)
    BY <1>1, <1>3, HeadTailProperties DEF VerifierServe
  <2>2. CASE VerifierFails
    BY <1>1, <2>1, <2>2, OwnVerifierFails
  <2>3. CASE verifier' = LastOp(h, verifier) /\ vopen' = vopen
    BY <1>1, <2>1, <2>3, ServedTypes, VerifierBusy, OwnVerifierGoes
  <2>4. CASE verifier' = RecordOp(h, verifier) /\ vopen' = vopen /\ h \in RecordOps
    BY <1>1, <2>1, <2>4, ServedTypes, VerifierBusy, OwnVerifierGoes
  <2> QED
    BY <1>3, <2>2, <2>3, <2>4 DEF VerifierServe, Served
<1> QED
  BY <1>2, <1>3

-----------------------------------------------------------------------------
(* Both of them *)

OwnInv == PTypes /\ Own /\ VInv

LEMMA OwnNetwork ==
    ASSUME VInv, verifier' = verifier, vopen' = vopen, mixed' \in BOOLEAN,
           p2v' \in Seq(Messages), v2p' \in Seq(Messages)
    PROVE  VInv'
BY DEF VInv, VTypes, VOwn

LEMMA OwnProverOnTheWire ==
    ASSUME OwnInv, ProverSend \/ ProverRecv
    PROVE  VInv'
<1>t. /\ VInv /\ p2v \in Seq(Messages) /\ v2p \in Seq(Messages) /\ mixed \in BOOLEAN
      /\ prover.todo \in Scripts
  BY DEF OwnInv, VInv, VTypes, PTypes, Provers
<1>1. CASE ProverSend
  <2>1. prover.todo # <<>> /\ Head(prover.todo).op = "send" /\ verifier' = verifier /\ vopen' = vopen
        /\ mixed' = mixed /\ v2p' = v2p
        /\ (p2v' = p2v \/ p2v' = Append(p2v, Message(Head(prover.todo))))
    BY <1>1 DEF ProverSend, Op
  <2>2. Message(Head(prover.todo)) \in Messages
    BY <1>t, <2>1, ScriptTail
  <2>3. p2v' \in Seq(Messages)
    BY <1>t, <2>1, <2>2, AppendProperties
  <2> QED
    BY <1>t, <2>1, <2>3, OwnNetwork
<1>2. CASE ProverRecv
  <2>1. verifier' = verifier /\ vopen' = vopen /\ p2v' = p2v
        /\ (v2p' = v2p \/ (v2p # <<>> /\ v2p' = Tail(v2p)))
    BY <1>2 DEF ProverRecv
  <2>2. mixed' \in BOOLEAN
    BY <1>2, <1>t DEF ProverRecv, Mixes
  <2>3. v2p' \in Seq(Messages)
    BY <1>t, <2>1, HeadTailProperties
  <2> QED
    BY <1>t, <2>1, <2>2, <2>3, OwnNetwork
<1> QED
  BY <1>1, <1>2

LEMMA OwnVConnect ==
    ASSUME VInv, Connect
    PROVE  VInv'
<1>1. /\ verifier' = Enter("HANDSHAKE_DONE", ResetLatches(verifier)) /\ vopen' = TRUE
      /\ mixed' = mixed /\ p2v' = <<>> /\ v2p' = <<>> /\ verifier \in Verifiers /\ mixed \in BOOLEAN
  BY DEF Connect, VInv, VTypes
<1>2. ResetLatches(verifier) \in Verifiers
  BY <1>1 DEF ResetLatches, Verifiers
<1>3. "HANDSHAKE_DONE" \in VStates /\ "HANDSHAKE_DONE" \notin Away
  BY HsStatesAre DEF VStates, Away
<1>4. verifier' \in Verifiers /\ verifier'.state = "HANDSHAKE_DONE"
  BY <1>1, <1>2, <1>3, EnterTypes
<1> QED
  BY <1>1, <1>3, <1>4 DEF VInv, VTypes, VOwn

LEMMA OwnStep ==
    ASSUME OwnInv, [Next]_vars
    PROVE  OwnInv'
<1>t. PTypes /\ Own /\ VInv /\ mixed \in BOOLEAN /\ p2v \in Seq(Messages) /\ v2p \in Seq(Messages)
      /\ fault \in BOOLEAN
  BY DEF OwnInv, VInv, VTypes, PTypes
<1>n. ASSUME verifier' = verifier, p2v' = p2v, v2p' = v2p, vopen' = vopen, mixed' = mixed
      PROVE  VInv'
  BY <1>t, <1>n, OwnNetwork
<1>v. ASSUME prover' = prover, popen' = popen, round' = round, origin' = origin,
             fault' \in BOOLEAN, fault => fault'
      PROVE  PTypes' /\ Own'
  BY <1>t, <1>v, OwnUnchanged
<1>1. CASE ConnectFails
  BY <1>1, <1>t, <1>n, OwnConnectFails DEF OwnInv, ConnectFails, NetUnchanged
<1>2. CASE ClientHello
  BY <1>2, <1>t, <1>n, OwnClientHello DEF OwnInv, ClientHello, NetUnchanged
<1>3. CASE ServerHello
  BY <1>3, <1>t, <1>n, OwnServerHello DEF OwnInv, ServerHello, NetUnchanged
<1>4. CASE Finished
  BY <1>4, <1>t, <1>n, OwnFinished DEF OwnInv, Finished, NetUnchanged
<1>5. CASE Established
  BY <1>5, <1>t, <1>n, OwnEstablished DEF OwnInv, Established, NetUnchanged
<1>6. CASE RequestWritten
  BY <1>6, <1>t, <1>n, OwnRequestWritten DEF OwnInv, RequestWritten, NetUnchanged
<1>7. CASE OpenRecord
  BY <1>7, <1>t, <1>n, OwnOpenRecord DEF OwnInv, OpenRecord, NetUnchanged
<1>8. CASE EndOfStream
  BY <1>8, <1>t, <1>n, OwnEndOfStream DEF OwnInv, EndOfStream, NetUnchanged
<1>9. CASE SubmitRecord
  BY <1>9, <1>t, <1>n, OwnSubmitRecord DEF OwnInv, SubmitRecord, NetUnchanged
<1>10. CASE OpenRecords
  BY <1>10, <1>t, <1>n, OwnOpenRecords DEF OwnInv, OpenRecords, NetUnchanged
<1>11. CASE ReplayRecord
  BY <1>11, <1>t, <1>n, OwnReplayRecord DEF OwnInv, ReplayRecord, NetUnchanged
<1>12. CASE PskPhase
  BY <1>12, <1>t, <1>n, OwnPskPhase DEF OwnInv, PskPhase, NetUnchanged
<1>13. CASE StopSent
  BY <1>13, <1>t, <1>n, OwnStopSent DEF OwnInv, StopSent, NetUnchanged
<1>14. CASE StartRound
  BY <1>14, <1>t, <1>n, OwnStartRound DEF OwnInv, StartRound, NetUnchanged
<1>15. CASE Quit
  BY <1>15, <1>t, <1>n, OwnQuit DEF OwnInv, Quit, NetUnchanged
<1>16. CASE OriginFails
  BY <1>16, <1>t, <1>n, OwnOriginFails DEF OwnInv, OriginFails, NetUnchanged
<1>17. CASE ProverCrash
  BY <1>17, <1>t, <1>n, OwnProverCrash DEF OwnInv, ProverCrash, NetUnchanged
<1>18. CASE \E rec \in Records : ReadRecord(rec)
  BY <1>18, <1>t, <1>n, OwnReadRecord DEF OwnInv, ReadRecord, NetUnchanged
<1>19. CASE ProverSend
  BY <1>19, <1>t, OwnProverSend, OwnProverOnTheWire DEF OwnInv
<1>20. CASE ProverRecv
  BY <1>20, <1>t, OwnProverRecv, OwnProverOnTheWire DEF OwnInv
<1>21. CASE Connect
  BY <1>21, <1>t, OwnConnect, OwnVConnect DEF OwnInv
<1>22. CASE Advance
  <2>1. PTypes' /\ Own'
    BY <1>22, <1>t, <1>v DEF Advance
  <2> QED
    BY <1>22, <1>t, <2>1, OwnAdvance DEF OwnInv
<1>23. CASE AcceptAgain
  <2>1. PTypes' /\ Own'
    BY <1>23, <1>t, <1>v DEF AcceptAgain
  <2> QED
    BY <1>23, <1>t, <2>1, OwnAcceptAgain DEF OwnInv
<1>24. CASE VerifierSend
  <2>1. PTypes' /\ Own'
    BY <1>24, <1>t, <1>v DEF VerifierSend
  <2> QED
    BY <1>24, <1>t, <2>1, OwnVerifierSend DEF OwnInv
<1>25. CASE VerifierRecv
  <2>1. PTypes' /\ Own'
    BY <1>25, <1>t, <1>v DEF VerifierRecv
  <2> QED
    BY <1>25, <1>t, <2>1, OwnVerifierRecv DEF OwnInv
<1>26. CASE VerifierServe
  <2>1. PTypes' /\ Own'
    BY <1>26, <1>t, <1>v DEF VerifierServe
  <2> QED
    BY <1>26, <1>t, <2>1, OwnVerifierServe DEF OwnInv
<1>27. CASE AcceptTimesOut
  <2>1. PTypes' /\ Own'
    BY <1>27, <1>t, <1>v DEF AcceptTimesOut
  <2>2. VerifierFails /\ mixed' = mixed /\ p2v' = p2v /\ v2p' = v2p
    BY <1>27 DEF AcceptTimesOut
  <2> QED
    BY <1>t, <2>1, <2>2, OwnVerifierFails DEF OwnInv
<1>28. CASE VerifierCrash
  <2>1. PTypes' /\ Own'
    BY <1>28, <1>t, <1>v DEF VerifierCrash
  <2>2. VerifierFails /\ mixed' = mixed /\ p2v' = p2v /\ v2p' = v2p
    BY <1>28 DEF VerifierCrash
  <2> QED
    BY <1>t, <2>1, <2>2, OwnVerifierFails DEF OwnInv
<1>29. CASE UNCHANGED vars
  BY <1>29, <1>t, <1>n, <1>v DEF OwnInv, vars
<1> QED
  BY <1>1, <1>2, <1>3, <1>4, <1>5, <1>6, <1>7, <1>8, <1>9, <1>10, <1>11, <1>12, <1>13, <1>14, <1>15, <1>16,
     <1>17, <1>18, <1>19, <1>20, <1>21, <1>22, <1>23, <1>24, <1>25, <1>26, <1>27, <1>28, <1>29 DEF Next,
     ProverStep, VerifierStep, Terminated

LEMMA OwnInit ==
    ASSUME Init
    PROVE  OwnInv
<1>1. PICK psk \in {NoPsk} \cup (IF Carried THEN {0} ELSE {}) :
         /\ prover = [ProverIdle EXCEPT !.session = psk]
         /\ verifier = [state |-> "ACCEPT", todo |-> <<>>, psk_shares |-> psk,
                         is_resumption_run |-> FALSE, resumed_handshake |-> FALSE,
                         psk_skipped |-> FALSE,
                         key_committed |-> FALSE, key_released |-> FALSE]
  BY DEF Init
<1>2. /\ p2v = <<>> /\ v2p = <<>> /\ popen = FALSE /\ vopen = FALSE
      /\ round = 0 /\ fault = FALSE /\ mixed = FALSE /\ origin = 0
  BY DEF Init
<1>3. psk \in Psks /\ NoPsk \in Psks
  BY RoundPsks
<1>4. "idle" \in Stages /\ <<>> \in Scripts /\ <<>> \in Seq(Records) /\ 0 \in Nat
      /\ "ACCEPT" \in VStates /\ "ACCEPT" \in Away /\ 0 <= MaxRounds /\ 0 <= MaxRecords
  BY Nil, SessionAssumption DEF Stages, VStates, Away
<1>5. PTypes
  <2>1. prover \in Provers
    BY <1>1, <1>3, <1>4 DEF Provers, ProverIdle
  <2> QED
    BY <1>2, <1>4, <2>1 DEF PTypes
<1>6. /\ prover.stage = "idle" /\ prover.todo = <<>> /\ prover.offer = NoPsk
      /\ prover.resuming = FALSE /\ prover.reused = FALSE /\ prover.psk_circuit = TRUE
      /\ prover.ticket = NoPsk /\ prover.recs = <<>> /\ prover.idx = 0 /\ prover.ok = FALSE
  BY <1>1 DEF ProverIdle
<1>7. OwnStage(prover, popen) /\ OwnTicket(prover, popen, round, fault)
  BY <1>2, <1>6 DEF OwnStage, OwnTicket, InRound, HsStages, Hello
<1>8. OwnRecords(prover, popen, fault, origin) /\ OwnPage(prover, popen, origin)
  BY <1>2, <1>4, <1>6, AppsEmpty DEF OwnRecords, OwnPage, HsStages
<1>9. VInv
  <2>1. verifier \in Verifiers
    BY <1>1, <1>3, <1>4 DEF Verifiers
  <2>2. verifier.state = "ACCEPT" /\ verifier.todo = <<>>
    BY <1>1
  <2> QED
    BY <1>2, <1>4, <2>1, <2>2, <<>> \in Seq(Messages) DEF VInv, VTypes, VOwn
<1> QED
  BY <1>5, <1>7, <1>8, <1>9 DEF OwnInv, Own

LEMMA OwnTypeOK == OwnInv => TypeOK
<1> SUFFICES ASSUME OwnInv PROVE TypeOK
  OBVIOUS
<1>t. /\ prover \in Provers /\ verifier \in Verifiers /\ p2v \in Seq(Messages) /\ v2p \in Seq(Messages)
      /\ {popen, vopen, fault, mixed} \subseteq BOOLEAN
      /\ round \in Nat /\ round <= MaxRounds /\ origin \in Nat
  BY DEF OwnInv, PTypes, VInv, VTypes
<1>1. prover.stage \in {"idle", "connect", "hello", "server_hello", "finished",
                         "established", "request", "reading", "submit", "open",
                         "replay", "psk", "stop", "quit"}
  BY <1>t DEF Provers, Stages, InRound, HsStages
<1>2. {prover.session, prover.offer, prover.ticket, verifier.psk_shares} \subseteq Psks
  BY <1>t DEF Provers, Verifiers
<1>3. Len(prover.recs) <= MaxRecords /\ prover.idx <= Len(prover.recs) /\ origin <= MaxRecords
  BY DEF OwnInv, Own, OwnRecords, OwnPage
<1>4. prover.recs \in Seq(Records) /\ Len(prover.recs) \in Nat /\ prover.idx \in Nat
      /\ prover.recs \in [1 .. Len(prover.recs) -> Records]
  BY <1>t, LenProperties, SeqDef DEF Provers
<1>5. prover.recs \in UNION {[1 .. n -> Records] : n \in 0 .. MaxRecords} /\ prover.idx \in 0 .. MaxRecords
  <2>1. Len(prover.recs) \in 0 .. MaxRecords /\ prover.idx \in 0 .. MaxRecords
    BY <1>3, <1>4, SessionAssumption
  <2> QED
    BY <1>4, <2>1
<1>6. verifier.state \in {States[i] : i \in DOMAIN States} \cup {"ACCEPT", "EXITED"}
  <2>1. verifier.state \in {States[i] : i \in 1 .. Len(States) - 1} \cup {"DONE", "ACCEPT", "EXITED"}
    BY <1>t, WalkStates DEF Verifiers, VStates, Away
  <2>2. 1 .. Len(States) - 1 \subseteq DOMAIN States /\ 25 \in DOMAIN States
    BY StatesDomain
  <2>3. States[25] = "DONE"
    BY DEF States
  <2>4. CASE verifier.state \in {States[i] : i \in 1 .. Len(States) - 1}
    <3>1. PICK i \in 1 .. Len(States) - 1 : verifier.state = States[i]
      BY <2>4
    <3> QED
      BY <2>2, <3>1
  <2>5. CASE verifier.state = "DONE"
    BY <2>2, <2>3, <2>5, Zenon
  <2> QED
    BY <2>1, <2>4, <2>5
<1>7. ASSUME NEW s \in Scripts PROVE Script(s)
  <2>1. \A i \in DOMAIN s : s[i] \in Instrs
    BY ElementOfSeq, LenProperties DEF Scripts
  <2> QED
    BY <2>1 DEF Script, Instrs, AnyInstr
<1>8. Script(prover.todo) /\ Script(verifier.todo)
  BY <1>t, <1>7 DEF Provers, Verifiers
<1>9. ASSUME NEW c \in Seq(Messages) PROVE \A i \in DOMAIN c : c[i].m[1] \in Names
  <2>1. \A i \in DOMAIN c : c[i] \in Messages
    BY ElementOfSeq, LenProperties
  <2> QED
    BY <2>1 DEF Messages
<1>10. \A c \in {p2v, v2p} : \A i \in DOMAIN c : c[i].m[1] \in Names
  BY <1>t, <1>9
<1>11. round \in 0 .. MaxRounds /\ origin \in 0 .. MaxRecords
  BY <1>t, <1>3, SessionAssumption
<1> QED
  BY <1>1, <1>2, <1>5, <1>6, <1>8, <1>10, <1>11, <1>t DEF TypeOK

\* What each party keeps of its own, whatever the other one does, is invariant:
\* the prover's stage, tickets and records, the verifier's state and latches.
LEMMA OwnAlways == Init /\ [][Next]_vars => []OwnInv
<1>1. Init => OwnInv
  BY OwnInit
<1>2. OwnInv /\ [Next]_vars => OwnInv'
  BY OwnStep
<1> QED
  BY <1>1, <1>2, PTL

\* The types of the variables, of both processes and of what is on the wire
\* between them, over any number of rounds and records.
THEOREM Typed == Spec => []TypeOK
<1>1. OwnInv => TypeOK
  BY OwnTypeOK
<1> QED
  BY <1>1, OwnAlways, PTL DEF Spec

\* true_surf_release: a round of the sealed-capture mode that the prover reports
\* as fetched has delivered every application record the origin sent, and the
\* response was closed by the origin, provided the origin does not pad its
\* records (with padding the model checker finds a short page, SessionPadded).
THEOREM PageDelivered == Padding = FALSE => (Spec => []DeliveredComplete)
<1> SUFFICES ASSUME Padding = FALSE PROVE Spec => []DeliveredComplete
  OBVIOUS
<1>1. OwnInv => DeliveredComplete
  BY DEF OwnInv, Own, OwnPage, DeliveredComplete
<1> QED
  BY <1>1, OwnAlways, PTL DEF Spec

=============================================================================
