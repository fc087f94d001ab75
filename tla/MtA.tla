------------------------------- MODULE MtA -------------------------------
(***************************************************************************)
(* The multiplicative-to-additive conversion of mta/MtA.cpp: for each of   *)
(* K instances the sender (the verifier) holds a, the receiver (the        *)
(* prover) holds b, and afterwards their outputs add up to a * b mod q.    *)
(* K is 1 in play_sender_inplace and 2 in play_sender_inplace_iknp_2,      *)
(* which runs both instances over one oblivious transfer.                  *)
(*                                                                         *)
(* The transfer is ideal.  What follows it goes over the TLS connection as *)
(* records: a write of the vector v is cut into records of at most PerRec  *)
(* numbers, and one SSL_read returns from one record only.  Random choices *)
(* are nondeterministic.                                                   *)
(***************************************************************************)
EXTENDS Integers, Sequences, SequencesExt

CONSTANTS
    q,          \* the modulus
    n,          \* BN_num_bits(q) + MtA::k, the length of the vectors
    K,          \* instances run together
    PerRec,     \* numbers that fit into one TLS record
    Deltas,     \* values the sender's masks take, in 1 .. q - 1
    Sigmas,     \* values the receiver's blinding takes, in 1 .. q - 1
    Faults      \* may the connection break?

MtAAssumption ==
    /\ q \in Nat /\ q >= 2 /\ n \in Nat /\ n >= 2
    /\ K \in Nat \ {0} /\ PerRec \in Nat \ {0}
    /\ Deltas \cup Sigmas \subseteq 1 .. q - 1 /\ Deltas # {} /\ Sigmas # {}
    /\ Faults \in BOOLEAN

VARIABLES
    a, b,           \* the inputs, per instance
    pcs, pcr,       \* sender: prepare, ot, read, done, failed
                    \* receiver: prepare, ot, write, done, failed
    delta,          \* sender's masks
    t, v, sigma,    \* receiver's choice bits, vector and blinding
    z,              \* what the transfer gave the receiver
    wire,           \* records on their way to the sender
    got,            \* numbers the sender has read, in order
    outs, outr,     \* the outputs
    broken

vars == <<a, b, pcs, pcr, delta, t, v, sigma, z, wire, got, outs, outr, broken>>

Inst == 1 .. K
Ix == 1 .. n
Zq == 0 .. q - 1
None == << >>

Sum(f) == FoldFunction(LAMBDA x, s: (x + s) % q, 0, f)
InnerProduct(x, y) == Sum([i \in Ix |-> (x[i] * y[i]) % q])

Init ==
    /\ a \in [Inst -> Zq] /\ b \in [Inst -> Zq]
    /\ pcs = "prepare" /\ pcr = "prepare"
    /\ delta = None /\ t = None /\ v = None /\ sigma = None /\ z = None
    /\ wire = <<>> /\ got = <<>> /\ outs = None /\ outr = None
    /\ broken = FALSE

-----------------------------------------------------------------------------
SenderPrepare ==
    /\ pcs = "prepare"
    /\ \E d \in [Inst -> [Ix -> Deltas]] : delta' = d
    /\ pcs' = "ot"
    /\ UNCHANGED <<a, b, pcr, t, v, sigma, z, wire, got, outs, outr, broken>>

\* generate_t_and_v_inplace: n - 1 random entries, one that makes the signed
\* sum b, swapped to a random place.
Signed(bit, x) == IF bit THEN x ELSE q - x

Total(ts, vs) == Sum([i \in 1 .. n - 1 |-> Signed(ts[i], vs[i])])

Swap(s, i, j) == [s EXCEPT ![i] = s[j], ![j] = s[i]]

TV(bb, ts, vs, pos) ==
    [t |-> Swap([ts EXCEPT ![n] = TRUE], n, pos),
     v |-> Swap([vs EXCEPT ![n] = (bb + q - Total(ts, vs)) % q], n, pos)]

ReceiverPrepare ==
    /\ pcr = "prepare"
    /\ \E ts \in [Inst -> [Ix -> BOOLEAN]], vs \in [Inst -> [Ix -> 1 .. q - 1]],
          pos \in [Inst -> 1 .. n - 1], s \in [Inst -> Sigmas] :
            \* the last entries are overwritten
            /\ \A k \in Inst : ts[k][n] /\ vs[k][n] = 1
            /\ LET tv == [k \in Inst |-> TV(b[k], ts[k], vs[k], pos[k])]
               IN  /\ t' = [k \in Inst |-> tv[k].t]
                   /\ v' = [k \in Inst |-> tv[k].v]
            /\ sigma' = s
    /\ pcr' = "ot"
    /\ UNCHANGED <<a, b, pcs, delta, z, wire, got, outs, outr, broken>>

\* produce_sender_pairs: what is obtained for a choice bit.
Pair(d, x, bit) == IF bit THEN (d + x) % q ELSE (d + q - x) % q

\* The transfer of all instances, in the order both sides concatenate them.
ObliviousTransfer ==
    /\ pcs = "ot" /\ pcr = "ot" /\ ~broken
    /\ z' = [k \in Inst |-> [i \in Ix |-> Pair(delta[k][i], a[k], t[k][i])]]
    /\ pcs' = "read" /\ pcr' = "write"
    /\ UNCHANGED <<a, b, delta, t, v, sigma, wire, got, outs, outr, broken>>

\* One SSL_write: records of at most PerRec numbers.
Records(s) ==
    LET m == (Len(s) + PerRec - 1) \div PerRec
        upto(i) == IF i * PerRec > Len(s) THEN Len(s) ELSE i * PerRec
    IN  [i \in 1 .. m |-> SubSeq(s, (i - 1) * PerRec + 1, upto(i))]

\* Mutant: all vectors, then all sigmas.
WrittenByKind ==
    FlattenSeq([k \in Inst |-> Records(v[k])])
        \o FlattenSeq([k \in Inst |-> Records(<<sigma[k]>>)])

\* The receiver writes v and sigma of each instance in turn, then computes.
Written ==
    FlattenSeq([k \in Inst |-> Records(v[k]) \o Records(<<sigma[k]>>)])

ReceiverShare(k) == (InnerProduct(v[k], z[k]) + sigma[k]) % q

ReceiverFinish ==
    /\ pcr = "write"
    /\ \/ /\ ~broken
          /\ wire' = wire \o Written
          /\ outr' = [k \in Inst |-> ReceiverShare(k)]
          /\ pcr' = "done"
       \/ broken /\ pcr' = "failed" /\ UNCHANGED <<wire, outr>>
       \/ \* written to a connection that the other end has lost
          /\ broken
          /\ outr' = [k \in Inst |-> ReceiverShare(k)]
          /\ pcr' = "done" /\ UNCHANGED wire
    /\ UNCHANGED <<a, b, pcs, delta, t, v, sigma, z, got, outs, broken>>

\* What the sender's next SSL_read asks for: the rest of the vector, or sigma.
PerInstance == n + 1

Wanted ==
    LET r == Len(got) % PerInstance IN IF r < n THEN n - r ELSE 1

\* Reads of the vector are repeated until it is complete.  A read returns what
\* is left of one record, and no more than was asked for.
ReadVector(rec) == IF Len(rec) < Wanted THEN Len(rec) ELSE Wanted

\* recv <= 0.
ReadFails == pcs' = "failed"

SenderRead ==
    /\ pcs = "read" /\ Len(got) < K * PerInstance
    /\ \/ /\ wire # <<>>
          /\ LET rec == Head(wire)
                 k == ReadVector(rec)
             IN  /\ got' = got \o SubSeq(rec, 1, k)
                 /\ wire' = IF k = Len(rec) THEN Tail(wire)
                            ELSE <<SubSeq(rec, k + 1, Len(rec))>> \o Tail(wire)
          /\ UNCHANGED pcs
       \/ wire = <<>> /\ broken /\ ReadFails /\ UNCHANGED <<got, wire>>
    /\ UNCHANGED <<a, b, pcr, delta, t, v, sigma, z, outs, outr, broken>>

SenderShare(vals, d, s) == (q - InnerProduct(vals, d) + q - s) % q

SenderFinish ==
    /\ pcs = "read" /\ Len(got) = K * PerInstance
    /\ outs' = [k \in Inst |->
                  LET base == (k - 1) * PerInstance
                  IN  SenderShare(SubSeq(got, base + 1, base + n), delta[k],
                                  got[base + n + 1])]
    /\ pcs' = "done"
    /\ UNCHANGED <<a, b, pcr, delta, t, v, sigma, z, wire, got, outr, broken>>

\* The transfer reports nothing: on a lost connection its reads yield garbage
\* and both sides go on to what follows.
OtFails ==
    /\ broken
    /\ \/ pcs = "ot" /\ pcs' = "read" /\ UNCHANGED <<pcr, z>>
       \/ /\ pcr = "ot" /\ pcr' = "write" /\ UNCHANGED pcs
          /\ \E c \in Zq : z' = [k \in Inst |-> [i \in Ix |-> c]]
    /\ UNCHANGED <<a, b, delta, t, v, sigma, wire, got, outs, outr, broken>>

Break ==
    /\ Faults /\ ~broken /\ broken' = TRUE
    /\ \E k \in 0 .. Len(wire) : wire' = SubSeq(wire, 1, k)
    /\ UNCHANGED <<a, b, pcs, pcr, delta, t, v, sigma, z, got, outs, outr>>

Ended == {"done", "failed"}
Done == pcs \in Ended /\ pcr \in Ended /\ UNCHANGED vars

Step ==
    \/ SenderPrepare \/ ReceiverPrepare \/ ObliviousTransfer
    \/ ReceiverFinish \/ SenderRead \/ SenderFinish \/ OtFails

Next == Step \/ Break \/ Done

\* Each party goes on as long as it can.
Spec == Init /\ [][Next]_vars /\ WF_vars(Step)

-----------------------------------------------------------------------------
\* The types of the variables.
TypeOK ==
    /\ a \in [Inst -> Zq] /\ b \in [Inst -> Zq]
    /\ pcs \in {"prepare", "ot", "read"} \union Ended
    /\ pcr \in {"prepare", "ot", "write"} \union Ended
    /\ delta # None => delta \in [Inst -> [Ix -> 1 .. q - 1]]
    /\ t # None => t \in [Inst -> [Ix -> BOOLEAN]]
    /\ v # None => v \in [Inst -> [Ix -> Zq]]
    /\ got \in Seq(Zq) /\ Len(got) <= K * PerInstance
    /\ outs # None => outs \in [Inst -> Zq]
    /\ outr # None => outr \in [Inst -> Zq]

\* The shares of every instance add up to its product, whatever the coins, the
\* place the last entry is swapped to and the cuts into records were: no number
\* of one instance is taken for one of the other, and no vector for a sigma.
ProductShared ==
    pcs = "done" /\ pcr = "done" =>
        \A k \in Inst : (outs[k] + outr[k]) % q = (a[k] * b[k]) % q

\* When both sides have finished nothing is left on the connection that a later
\* read of the same stream would take for its own.
NothingLeft == pcs = "done" /\ pcr = "done" => wire = <<>>

\* Both sides are through, on success or not: what has to happen in the end.
Returned == pcs \in Ended /\ pcr \in Ended

=============================================================================
