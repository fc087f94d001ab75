----------------------------- MODULE GcmShares -----------------------------
(***************************************************************************)
(* How prover and verifier get additive shares of the powers of H, the     *)
(* GHASH key of one traffic key, and what GHash::share makes of them:      *)
(* make_gcm_share, F2128_MTA::generate_shares_batched and GHash.hpp.       *)
(*                                                                         *)
(* A block of W bits is the set of its bits that are one, bit 0 the least  *)
(* significant, and GF(2^W) stands for GF(2^128).  make_gcm_shares is this *)
(* protocol twice in a row (client key, server key) and then               *)
(* GCM_SHARE_DONE; make_gcm_share_for, of a rotated key, is one of them    *)
(* without that byte.  The check of the transfer is represented by its     *)
(* messages alone, and the half of the transfer that only the check reads  *)
(* (a_hat, t[1]) is left out.                                              *)
(***************************************************************************)
EXTENDS Integers, Sequences, FiniteSets

CONSTANTS
    W, Poly,            \* the field: x^W is the sum of the x^i, i in Poly
    num_powers,
    gadget_elements,
    Coins,              \* the values random blocks take
    Masks,              \* those of the masks of the share circuit
    Contents, MaxBlocks,    \* the messages hashed
    Junk,               \* what a failed read leaves behind
    WaitsForDone,       \* derive_gcm_shares, or make_gcm_share_for alone?
    Faults              \* may the connection break?

Blocks == SUBSET (0 .. W - 1)

GcmAssumption ==
    /\ W \in Nat \ {0} /\ Poly \in Blocks
    /\ num_powers \in Nat \ {0} /\ num_powers % 2 = 0 /\ gadget_elements \in Nat
    /\ Coins \subseteq Blocks /\ Masks \subseteq Blocks /\ Contents \subseteq Blocks
    /\ MaxBlocks \in Nat /\ WaitsForDone \in BOOLEAN /\ Faults \in BOOLEAN

-----------------------------------------------------------------------------
(* The field in the order of F2128_MTA::mul: bit i is the coefficient of x^i. *)

Xor(a, b) == (a \ b) \cup (b \ a)
XorOver(S, f) == {k \in 0 .. W - 1 : Cardinality({j \in S : k \in f[j]}) % 2 = 1}

TimesX(a) ==
    LET s == {i + 1 : i \in a} IN IF W \in s THEN Xor(s \ {W}, Poly) ELSE s

TimesXTo[k \in 0 .. W - 1] ==
    [a \in Blocks |-> IF k = 0 THEN a ELSE TimesX(TimesXTo[k - 1][a])]

mul == [a \in Blocks, b \in Blocks |-> XorOver(b, [i \in b |-> TimesXTo[i][a]])]

One == {0}

\* W - 1 times: multiply by a, then square.
inv(a) ==
    LET curr[k \in 0 .. W - 1] ==
          IF k = 0 THEN One
          ELSE LET m == mul[curr[k - 1], a] IN mul[m, m]
    IN  curr[W - 1]

\* GHash::detail::bitrev.
bitrev(a) == {W - 1 - i : i \in a}

-----------------------------------------------------------------------------
Parties == {"prover", "verifier"}
Other(i) == IF i = "prover" THEN "verifier" ELSE "prover"
Both(x) == [i \in Parties |-> x]

l == num_powers \div 2          \* the multiplications: one per odd power
Idx == 0 .. l * gadget_elements - 1
Odd == 0 .. l - 1
Powers == 0 .. num_powers - 1

VARIABLES
    H,          \* AES(k, 0), in the order GCM writes it
    pc, wire,   \* wire[i]: messages on their way TO i
    xor_mask, in,
    gadget,     \* the gadget vector as each side has it
    ot,         \* what the transfer left: a_tilde and t_a, b and t_b
    out,        \* the table of power shares
    msg, tag,   \* the blocks hashed and the shares of their hash
    broken

vars == <<H, pc, wire, xor_mask, in, gadget, ot, out, msg, tag, broken>>

Init ==
    /\ H \in Blocks
    /\ pc = Both("circuit") /\ wire = Both(<<>>)
    /\ xor_mask = Both({}) /\ in = Both({}) /\ gadget = Both(Junk)
    /\ ot = Junk /\ out = Both(Junk) /\ msg = <<>> /\ tag = Both({})
    /\ broken = FALSE

Goto(i, s) == pc' = [pc EXCEPT ![i] = s]

Ended(i) == pc[i] \in {"done", "hashed", "failed", "aborted"}

\* SSL_write: on a broken connection the data is lost, unnoticed or not.
Send(i, kind, val, next, fail) ==
    \/ /\ wire' = IF broken THEN wire
                  ELSE [wire EXCEPT ![Other(i)] = Append(@, [kind |-> kind, val |-> val])]
       /\ Goto(i, next)
    \/ broken /\ Goto(i, fail) /\ UNCHANGED wire

\* SSL_read: the next message, whatever it is.
Receive(i, next) ==
    /\ wire[i] # <<>> /\ wire' = [wire EXCEPT ![i] = Tail(@)]
    /\ Goto(i, next)

\* Mutant: a closed connection is polled for ever.
NothingComesSpins(i, fail) ==
    wire[i] = <<>> /\ (broken \/ Ended(Other(i))) /\ UNCHANGED <<pc, wire>>

NothingComes(i, fail) ==
    /\ wire[i] = <<>> /\ (broken \/ Ended(Other(i)))
    /\ Goto(i, fail) /\ UNCHANGED wire

-----------------------------------------------------------------------------
(* make_gcm_share up to the conversion.                                    *)

\* The circuit reveals bitrev(H) * m_V + m_P; the prover strips its mask, the
\* verifier inverts its own, and the two products' factors are shared.  A mask
\* of zero has probability 2^-128 and is left out.
Input(i, revealed, mask) ==
    IF i = "prover" THEN Xor(revealed, mask) ELSE inv(mask)

run_gcm_share_circuit ==
    /\ \A i \in Parties : pc[i] = "circuit"
    /\ ~broken
    /\ \E mask \in [Parties -> Masks \ {{}}] :
          /\ xor_mask' = mask
          /\ LET revealed == Xor(mul[bitrev(H), mask["verifier"]], mask["prover"])
             IN  in' = [i \in Parties |-> Input(i, revealed, mask[i])]
    /\ pc' = Both("gadget")
    /\ UNCHANGED <<H, wire, gadget, ot, out, msg, tag, broken>>

\* The circuit fails, or has lost its output on the prover's side (see Circuits).
CircuitFails(i) ==
    /\ pc[i] = "circuit" /\ (broken \/ Ended(Other(i)))
    /\ Goto(i, "failed") \/ (i = "prover" /\ Goto(i, "gadget"))
    /\ UNCHANGED <<H, wire, xor_mask, in, gadget, ot, out, msg, tag, broken>>

\* Neither side looks whether the transfer of the gadget has worked.
generate_and_send_gadget ==
    /\ pc["prover"] = "gadget"
    /\ \E g \in [0 .. gadget_elements - 1 -> Coins] :
          /\ gadget' = [gadget EXCEPT !["prover"] = g]
          /\ Send("prover", "gadget", g, "ot", "ot")
    /\ UNCHANGED <<H, xor_mask, in, ot, out, msg, tag, broken>>

receive_gadget ==
    /\ pc["verifier"] = "gadget"
    /\ \/ /\ Receive("verifier", "ot")
          /\ gadget' = [gadget EXCEPT !["verifier"] = Head(wire["verifier"]).val]
       \/ NothingComes("verifier", "ot") /\ UNCHANGED gadget
    /\ UNCHANGED <<H, xor_mask, in, ot, out, msg, tag, broken>>

-----------------------------------------------------------------------------
(* The transfer.                                                           *)

\* Where element j of the gadget stands in multiplication i.
Slot(i, j) == i * gadget_elements + j
Gadget == 0 .. gadget_elements - 1

\* produce_b: the bits of beta select elements of the gadget.
produce_b(beta, g) ==
    [i \in Odd |-> XorOver({j \in Gadget : Slot(i, j) \in beta}, g)]

\* produce_alpha repeats a_tilde[i] for each element of the gadget;
\* prepare_batched_pairs and the OT give the prover the pad, or the pad and alpha.
Transferred(beta, pads, a) ==
    [k \in Idx |-> IF k \in beta THEN Xor(pads[k], a[k \div gadget_elements])
                   ELSE pads[k]]

do_ot ==
    /\ pc["prover"] = "ot" /\ pc["verifier"] = "ot"
    /\ ~broken
    /\ \E a \in [Odd -> Coins], pads \in [Idx -> Coins], beta \in SUBSET Idx :
          ot' = [a_tilde |-> a, t_a |-> pads, b |-> produce_b(beta, gadget["prover"]),
                 t_b |-> Transferred(beta, pads, a)]
    /\ pc' = Both("chi")
    /\ UNCHANGED <<H, wire, xor_mask, in, gadget, out, msg, tag, broken>>

\* Without the other side the transfer ends the process, or ends with nothing.
OtFails(i) ==
    /\ pc[i] = "ot" /\ (broken \/ Ended(Other(i)))
    /\ Goto(i, "chi") \/ Goto(i, "aborted")
    /\ UNCHANGED <<H, wire, xor_mask, in, gadget, ot, out, msg, tag, broken>>

-----------------------------------------------------------------------------
(* The messages whose values do not matter here: the randomness and the    *)
(* values of the check, the bandwidth, and GCM_SHARE_DONE.  State: what is *)
(* done there, the next state, and where a failure leads.                  *)

AfterBandwidth == IF WaitsForDone THEN "last" ELSE "done"

\* Mutant: GCM_SHARE_DONE is not looked at.
ProverTalksBlind ==
    [chi       |-> <<"send", "chi", "chi2", "chi2">>,
     chi2      |-> <<"recv", "chi", "check", "check">>,
     check     |-> <<"recv", "r", "verdict", "verdict">>,
     verdict   |-> <<"send", "verdict", "masked", "aborted">>,
     bandwidth |-> <<"send", "bandwidth", "last", "failed">>,
     last      |-> <<"recv", "done", "done", "done">>]

ProverTalks ==
    [chi       |-> <<"send", "chi", "chi2", "chi2">>,
     chi2      |-> <<"recv", "chi", "check", "check">>,
     check     |-> <<"recv", "r", "verdict", "verdict">>,
     verdict   |-> <<"send", "verdict", "masked", "aborted">>,
     bandwidth |-> <<"send", "bandwidth", AfterBandwidth, "failed">>,
     last      |-> <<"recv", "done", "done", "failed">>]

VerifierTalks ==
    [chi       |-> <<"recv", "chi", "chi2", "chi2">>,
     chi2      |-> <<"send", "chi", "check", "check">>,
     check     |-> <<"send", "r", "verdict", "aborted">>,
     verdict   |-> <<"recv", "verdict", "masked", "aborted">>,
     bandwidth |-> <<"recv", "bandwidth", AfterBandwidth, "failed">>,
     last      |-> <<"send", "done", "done", "failed">>]

Talks(i) == IF i = "prover" THEN ProverTalks ELSE VerifierTalks

Talk(i) ==
    /\ pc[i] \in DOMAIN Talks(i)
    /\ LET t == Talks(i)[pc[i]]
       IN  \/ t[1] = "send" /\ Send(i, t[2], 0, t[3], t[4])
           \/ t[1] = "recv" /\ (Receive(i, t[3]) \/ NothingComes(i, t[4]))
    /\ UNCHANGED <<H, xor_mask, in, gadget, ot, out, msg, tag, broken>>

-----------------------------------------------------------------------------
(* generate_shares_batched after the check.                                *)

\* out[2 i], before the conversion: the odd powers of this side's factor.
LocalPowers(i) ==
    LET sq == mul[in[i], in[i]]
        pow[k \in Odd] == IF k = 0 THEN in[i] ELSE mul[sq, pow[k - 1]]
    IN  pow

Random(i) == IF i = "prover" THEN ot.b ELSE ot.a_tilde
Masked(i) ==
    IF ot = Junk THEN Junk
    ELSE [k \in Odd |-> Xor(LocalPowers(i)[k], Random(i)[k])]

compute_share_of(my, other, k, t, g) ==
    Xor(XorOver(Gadget, [j \in Gadget |-> mul[t[Slot(k, j)], g[j]]]), mul[my, other])

\* The prover multiplies with b, the verifier with its own power.
MultShares(i, other) ==
    [k \in Odd |->
        IF i = "prover"
        THEN compute_share_of(ot.b[k], other[k], k, ot.t_b, gadget[i])
        ELSE compute_share_of(LocalPowers(i)[k], other[k], k, ot.t_a, gadget[i])]

\* compute_squares, run from every even index: out[lhs] is the square of out[rhs].
Rhs(lhs) == (lhs - 1) \div 2

PowerShares(odd) ==
    LET table[k \in Powers] ==
          IF k % 2 = 0 THEN odd[k \div 2] ELSE mul[table[Rhs(k)], table[Rhs(k)]]
    IN  table

\* A read that fails, or a transfer that has, leaves a table of no meaning.
Table(i, other) ==
    IF Junk \in {other, ot, gadget[i]} THEN Junk ELSE PowerShares(MultShares(i, other))

\* The verifier writes its masked powers and then reads the prover's; the prover
\* reads first.  No result is looked at.
SendMasked(i) ==
    /\ pc[i] = (IF i = "prover" THEN "masked2" ELSE "masked")
    /\ LET next == IF i = "prover" THEN "bandwidth" ELSE "masked2"
       IN  Send(i, "masked", Masked(i), next, next)
    /\ UNCHANGED <<H, xor_mask, in, gadget, ot, out, msg, tag, broken>>

ReadMasked(i) ==
    /\ pc[i] = (IF i = "prover" THEN "masked" ELSE "masked2")
    /\ LET next == IF i = "prover" THEN "masked2" ELSE "bandwidth"
       IN  \/ /\ Receive(i, next)
              /\ out' = [out EXCEPT ![i] = Table(i, Head(wire[i]).val)]
           \/ NothingComes(i, next) /\ UNCHANGED out
    /\ UNCHANGED <<H, xor_mask, in, gadget, ot, msg, tag, broken>>

-----------------------------------------------------------------------------
(* GHash::share: block j of n meets powers[n - j].                         *)

Messages == UNION {[1 .. n -> Contents] : n \in 1 .. MaxBlocks}
\* Mutant: the table is walked forwards.
PairsForward(n, j) == j - 1

Pairs(n, j) == n - j

share(powers, blocks) ==
    LET n == Len(blocks)
    IN  bitrev(XorOver(1 .. n,
                 [j \in 1 .. n |-> mul[bitrev(blocks[j]), powers[Pairs(n, j)]]]))

\* Both sides evaluate the same public blocks: header, ciphertext, lengths.
Hash ==
    /\ \A i \in Parties : pc[i] = "done"
    /\ \E m \in Messages :
          /\ Len(m) <= num_powers
          /\ msg' = m
          /\ tag' = [i \in Parties |-> share(out[i], m)]
    /\ pc' = Both("hashed")
    /\ UNCHANGED <<H, wire, xor_mask, in, gadget, ot, out, broken>>

Break ==
    /\ Faults /\ ~broken /\ broken' = TRUE
    /\ UNCHANGED <<H, pc, wire, xor_mask, in, gadget, ot, out, msg, tag>>

Done ==
    /\ \A i \in Parties : Ended(i)
    /\ \E i \in Parties : pc[i] # "done"
    /\ UNCHANGED vars

Step ==
    \/ run_gcm_share_circuit \/ generate_and_send_gadget \/ receive_gadget \/ do_ot
    \/ \E i \in Parties :
          CircuitFails(i) \/ OtFails(i) \/ Talk(i) \/ SendMasked(i) \/ ReadMasked(i)

Next == Step \/ Hash \/ Break \/ Done

\* Each side goes on as long as it can.
Spec == Init /\ [][Next]_vars /\ WF_vars(Step)

-----------------------------------------------------------------------------
TableOf == [Powers -> Blocks]

\* The types of the variables.
TypeOK ==
    /\ H \in Blocks /\ xor_mask \in [Parties -> Blocks] /\ in \in [Parties -> Blocks]
    /\ \A i \in Parties :
          /\ gadget[i] = Junk \/ gadget[i] \in [Gadget -> Blocks]
          /\ out[i] = Junk \/ out[i] \in TableOf
          /\ Len(wire[i]) <= 3
          /\ pc[i] \in DOMAIN Talks(i) \cup
                {"circuit", "gadget", "ot", "masked", "masked2", "done", "hashed",
                 "failed", "aborted"}
    /\ tag \in [Parties -> Blocks] /\ msg \in Seq(Contents)

\* The powers of bitrev(H), one multiplication after the other.
PowerOf ==
    LET pow[k \in Powers] ==
          IF k = 0 THEN bitrev(H) ELSE mul[pow[k - 1], bitrev(H)]
    IN  pow

Combine == /\ \A i \in Parties : out[i] # Junk
           /\ \A k \in Powers : Xor(out["prover"][k], out["verifier"][k]) = PowerOf[k]

\* When both sides report success, and already when the prover has seen
\* GCM_SHARE_DONE, the two tables add up to the powers of H, although no side
\* looks at the results of the reads that fill them.
PowersShared ==
    /\ (\A i \in Parties : pc[i] = "done") => Combine
    /\ WaitsForDone /\ pc["prover"] = "done" => Combine

\* GHASH as SP 800-38D computes it on blocks in their own order: shift right
\* and reduce, one block after the other.
GcmShift(v) ==
    LET s == {i - 1 : i \in v \ {0}} IN IF 0 \in v THEN Xor(s, bitrev(Poly)) ELSE s

GcmMul(x, y) ==
    LET v[i \in 0 .. W - 1] == IF i = 0 THEN y ELSE GcmShift(v[i - 1])
    IN  XorOver({i \in 0 .. W - 1 : W - 1 - i \in x}, v)

GHASH(blocks) ==
    LET y[j \in 0 .. Len(blocks)] ==
          IF j = 0 THEN {} ELSE GcmMul(Xor(y[j - 1], blocks[j]), H)
    IN  y[Len(blocks)]

\* The two shares of the tag's hash add up to GHASH of the record under H,
\* whatever the masks, the pads and the choice bits were.
GhashShared ==
    pc["prover"] = "hashed" => Xor(tag["prover"], tag["verifier"]) = GHASH(msg)

\* Nobody takes one message for another.
Expects(i) ==
    CASE pc[i] \in DOMAIN Talks(i) /\ Talks(i)[pc[i]][1] = "recv" -> Talks(i)[pc[i]][2]
      [] pc[i] = "gadget" /\ i = "verifier" -> "gadget"
      [] pc[i] = (IF i = "prover" THEN "masked" ELSE "masked2") -> "masked"
      [] OTHER -> "nothing"

StreamInStep ==
    \A i \in Parties :
        wire[i] # <<>> /\ Expects(i) # "nothing" => Head(wire[i]).kind = Expects(i)

\* Both sides are through, on success or not: what has to happen in the end.
Returned == \A i \in Parties : Ended(i)

=============================================================================
