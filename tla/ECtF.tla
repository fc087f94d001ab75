------------------------------- MODULE ECtF -------------------------------
(***************************************************************************)
(* mta/ectf.cpp: the prover holds a point P of the curve y^2 = x^3 + A x + *)
(* B over GF(p), the verifier a point V, and both end with additive shares *)
(* of the x-coordinate of P + V, the secret of the key exchange.  Each     *)
(* party is a process that walks through ectf_internal; the MtA between    *)
(* them is the ideal one (see MtA): random shares of the product.  The     *)
(* exchange of the deltas is a write followed by a read on the connection. *)
(*                                                                         *)
(* The temporaries that ectf_internal reuses are modelled as far as a step *)
(* reads what an earlier one left in them.                                 *)
(***************************************************************************)
EXTENDS Integers, Sequences, FiniteSets

CONSTANTS
    p, A, B,    \* the field and the curve
    Coins,      \* values a random share or a leftover takes
    Faults      \* may the connection break?

ECtFAssumption ==
    /\ p \in Nat /\ p > 3 /\ A \in 0 .. p - 1 /\ B \in 0 .. p - 1
    /\ Coins \subseteq 0 .. p - 1 /\ Coins # {} /\ Faults \in BOOLEAN

Fp == 0 .. p - 1
Add(u, w) == (u + w) % p
Sub(u, w) == (u + p - w) % p
Mul(u, w) == (u * w) % p

Cubic(u) == (u * u * u + A * u + B) % p
Points == {pt \in Fp \X Fp : Mul(pt[2], pt[2]) = Cubic(pt[1])}

Parties == {"prover", "verifier"}
Other(i) == IF i = "prover" THEN "verifier" ELSE "prover"

VARIABLES
    pt,         \* the points
    pc,         \* start, invert, write, read, slope, lambda, gamma, final,
                \* done, failed
    rho,        \* the blinding factors
    tmp4,       \* the temporary negate_if_verifier subtracts from
    xin, yin,   \* x_input and y_input
    mu,         \* this party's delta while the two are exchanged
    wire,       \* deltas on their way TO a party
    delta,      \* the inverse of their sum
    eta, lambda, gamma, out,
    broken

vars == <<pt, pc, rho, tmp4, xin, yin, mu, wire, delta, eta, lambda, gamma, out,
          broken>>

Both(x) == [i \in Parties |-> x]

Init ==
    /\ pt \in [Parties -> Points]
    /\ pc = Both("start") /\ rho = Both(0) /\ tmp4 = Both(0)
    /\ xin = Both(0) /\ yin = Both(0) /\ mu = Both(0) /\ wire = Both(<<>>)
    /\ delta = Both(0) /\ eta = Both(0) /\ lambda = Both(0) /\ gamma = Both(0)
    /\ out = Both(0) /\ broken = FALSE

-----------------------------------------------------------------------------
\* The verifier's input is tmp_4 - in, which is -in as long as tmp_4 is zero.
negate_if_verifier(i, in) == IF i = "verifier" THEN Sub(tmp4[i], in) ELSE in

Prepare(i) ==
    /\ pc[i] = "start"
    /\ \E r \in 1 .. p - 1 : rho' = [rho EXCEPT ![i] = r]
    /\ xin' = [xin EXCEPT ![i] = negate_if_verifier(i, pt[i][1])]
    /\ pc' = [pc EXCEPT ![i] = "invert"]
    /\ UNCHANGED <<pt, tmp4, yin, mu, wire, delta, eta, lambda, gamma, out, broken>>

\* vector_mta_2: shares of the two cross products, summed.  The prover offers
\* (blind, val) and the verifier (val, blind), so that each val meets the other
\* side's blind.
Cross(val, blind) ==
    Add(Mul(val["prover"], blind["verifier"]), Mul(val["verifier"], blind["prover"]))

\* scale_plus_share: val * blind plus the share of the cross products.  The
\* prover's share is a coin.
ScaledShares(val, blind, coin) ==
    [i \in Parties |->
        Add(Mul(val[i], blind[i]),
            IF i = "prover" THEN coin ELSE Sub(Cross(val, blind), coin))]

\* share_inversion, the joint part: the fourth temporary is scratch space of
\* the MtA and keeps a share.
ShareInversion ==
    /\ \A i \in Parties : pc[i] = "invert"
    /\ ~broken
    /\ \E c \in Coins : mu' = ScaledShares(xin, rho, c)
    /\ \E left \in [Parties -> Coins] : tmp4' = left
    /\ pc' = Both("write")
    /\ UNCHANGED <<pt, rho, xin, yin, wire, delta, eta, lambda, gamma, out, broken>>

\* A write on a broken connection is lost, or fails as in MtAFails.
WriteDelta(i) ==
    /\ pc[i] = "write"
    /\ wire' = IF broken THEN wire ELSE [wire EXCEPT ![Other(i)] = Append(@, mu[i])]
    /\ pc' = [pc EXCEPT ![i] = "read"]
    /\ UNCHANGED <<pt, rho, tmp4, xin, yin, mu, delta, eta, lambda, gamma, out,
                   broken>>

Inverses(u) == {w \in Fp : Mul(u, w) = 1}

\* BN_mod_inverse fails on zero.
ReadDelta(i) ==
    /\ pc[i] = "read"
    /\ \/ /\ wire[i] # <<>>
          /\ wire' = [wire EXCEPT ![i] = Tail(@)]
          /\ LET sum == Add(mu[i], Head(wire[i]))
             IN  IF Inverses(sum) = {}
                 THEN pc' = [pc EXCEPT ![i] = "failed"] /\ UNCHANGED delta
                 ELSE /\ delta' = [delta EXCEPT ![i] = CHOOSE w \in Inverses(sum) : TRUE]
                      /\ pc' = [pc EXCEPT ![i] = "slope"]
       \/ /\ wire[i] = <<>>
          /\ broken \/ pc[Other(i)] = "failed"
          /\ pc' = [pc EXCEPT ![i] = "failed"] /\ UNCHANGED <<wire, delta>>
    /\ UNCHANGED <<pt, rho, tmp4, xin, yin, mu, eta, lambda, gamma, out, broken>>

\* Mutant: the temporaries are taken to be zero still
KeepTemporaries(i) == tmp4

\* BN_zero(tmp_5), BN_zero(tmp_4), the input for the slope, and the blinding
\* factor scaled by the inverse.
ZeroTemporaries(i) == [tmp4 EXCEPT ![i] = 0]

PrepareSlope(i) ==
    /\ pc[i] = "slope"
    /\ tmp4' = ZeroTemporaries(i)
    /\ yin' = [yin EXCEPT ![i] =
                  IF i = "verifier" THEN Sub(tmp4'[i], pt[i][2]) ELSE pt[i][2]]
    /\ eta' = [eta EXCEPT ![i] = Mul(rho[i], delta[i])]
    /\ pc' = [pc EXCEPT ![i] = "lambda"]
    /\ UNCHANGED <<pt, rho, xin, mu, wire, delta, lambda, gamma, out, broken>>

ComputeLambda ==
    /\ \A i \in Parties : pc[i] = "lambda"
    /\ ~broken
    /\ \E c \in Coins : lambda' = ScaledShares(yin, eta, c)
    /\ pc' = Both("gamma")
    /\ UNCHANGED <<pt, rho, tmp4, xin, yin, mu, wire, delta, eta, gamma, out, broken>>

ComputeGamma ==
    /\ \A i \in Parties : pc[i] = "gamma"
    /\ ~broken
    /\ \E c \in Coins :
          gamma' = [i \in Parties |->
                      IF i = "prover" THEN c
                      ELSE Sub(Mul(lambda["prover"], lambda["verifier"]), c)]
    /\ pc' = Both("final")
    /\ UNCHANGED <<pt, rho, tmp4, xin, yin, mu, wire, delta, eta, lambda, out, broken>>

FinalShare(i) ==
    Sub(Add(Add(gamma[i], gamma[i]), Mul(lambda[i], lambda[i])), pt[i][1])

Finish(i) ==
    /\ pc[i] = "final"
    /\ out' = [out EXCEPT ![i] = FinalShare(i)]
    /\ pc' = [pc EXCEPT ![i] = "done"]
    /\ UNCHANGED <<pt, rho, tmp4, xin, yin, mu, wire, delta, eta, lambda, gamma,
                   broken>>

\* A party that needs the other one for an MtA and finds the connection gone,
\* or whose last message of an MtA the break has swallowed, so that the MtA has
\* ended for the other side only.
Stranded(i) ==
    \/ pc[i] \in {"invert", "lambda", "gamma"} /\ (broken \/ pc[Other(i)] = "failed")
    \/ pc[i] \in {"write", "final"} /\ broken

MtAFails(i) ==
    /\ Stranded(i)
    /\ pc' = [pc EXCEPT ![i] = "failed"]
    /\ UNCHANGED <<pt, rho, tmp4, xin, yin, mu, wire, delta, eta, lambda, gamma,
                   out, broken>>

\* The prover is the receiver of every MtA, whose transfer and writes need not
\* notice that the connection is gone: it may go on with a share of nothing.
MtAUnnoticed ==
    /\ broken
    /\ \E c \in Coins :
          \/ /\ pc["prover"] = "invert"
             /\ mu' = [mu EXCEPT !["prover"] =
                         Add(Mul(xin["prover"], rho["prover"]), c)]
             /\ pc' = [pc EXCEPT !["prover"] = "write"]
             /\ UNCHANGED <<lambda, gamma>>
          \/ /\ pc["prover"] = "lambda"
             /\ lambda' = [lambda EXCEPT !["prover"] =
                             Add(Mul(yin["prover"], eta["prover"]), c)]
             /\ pc' = [pc EXCEPT !["prover"] = "gamma"]
             /\ UNCHANGED <<mu, gamma>>
          \/ /\ pc["prover"] = "gamma"
             /\ gamma' = [gamma EXCEPT !["prover"] = c]
             /\ pc' = [pc EXCEPT !["prover"] = "final"]
             /\ UNCHANGED <<mu, lambda>>
    /\ UNCHANGED <<pt, rho, tmp4, xin, yin, wire, delta, eta, out, broken>>

Break ==
    /\ Faults /\ ~broken /\ broken' = TRUE
    /\ UNCHANGED <<pt, pc, rho, tmp4, xin, yin, mu, wire, delta, eta, lambda,
                   gamma, out>>

Ended(i) == pc[i] \in {"done", "failed"}
Done == (\A i \in Parties : Ended(i)) /\ UNCHANGED vars

Step ==
    \/ \E i \in Parties :
          \/ Prepare(i) \/ WriteDelta(i) \/ ReadDelta(i) \/ PrepareSlope(i)
          \/ Finish(i) \/ MtAFails(i)
    \/ ShareInversion \/ ComputeLambda \/ ComputeGamma \/ MtAUnnoticed

Next == Step \/ Break \/ Done

\* Each party goes on as long as it can, and a joint MtA comes to an end.
Spec == Init /\ [][Next]_vars /\ WF_vars(Step)

-----------------------------------------------------------------------------
\* The types of the variables.
TypeOK ==
    /\ pt \in [Parties -> Points]
    /\ pc \in [Parties -> {"start", "invert", "write", "read", "slope", "lambda",
                           "gamma", "final", "done", "failed"}]
    /\ {rho, tmp4, xin, yin, mu, delta, eta, lambda, gamma, out}
         \subseteq [Parties -> Fp]
    /\ \A i \in Parties : wire[i] \in Seq(Fp) /\ Len(wire[i]) <= 1

\* The third intersection of a line with the curve has this x-coordinate: the
\* line through both points leaves a monic cubic with these three roots.
IsSumX(P, V, x3) ==
    \E l, m \in Fp :
        /\ Add(Mul(l, P[1]), m) = P[2] /\ Add(Mul(l, V[1]), m) = V[2]
        /\ \A u \in Fp :
              Sub(Cubic(u), Mul(Add(Mul(l, u), m), Add(Mul(l, u), m)))
                = Mul(Mul(Sub(u, P[1]), Sub(u, V[1])), Sub(u, x3))

\* When both sides are done their shares add up to the x-coordinate of the sum
\* of the two points, whatever the coins and whatever the MtA left in the
\* temporaries.
SecretShared ==
    (\A i \in Parties : pc[i] = "done") =>
        IsSumX(pt["prover"], pt["verifier"], Add(out["prover"], out["verifier"]))

\* Both sides fail, or none, as long as the connection holds; and they fail only
\* where the formula has no value (equal x-coordinates) or the blinding factors
\* cancel.
FailTogether ==
    ~broken =>
        /\ (\E i \in Parties : pc[i] = "failed") =>
              \/ pt["prover"][1] = pt["verifier"][1]
              \/ Add(rho["prover"], rho["verifier"]) = 0
        /\ (\E i \in Parties : pc[i] = "done") =>
              \A i \in Parties : pc[i] # "failed"

\* Both sides are through, on success or not: what has to happen in the end.
Returned == \A i \in Parties : Ended(i)

=============================================================================
