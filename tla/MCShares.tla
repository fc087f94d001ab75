------------------------------ MODULE MCShares ------------------------------
(***************************************************************************)
(* The three protocols that turn secrets into shares, for TLC: MtA, ECtF   *)
(* and GcmShares.  The variable part says which of them runs, and never    *)
(* changes; variables that only the others have stay at Unused.  Variables *)
(* of the same name are shared.                                            *)
(*   "mta"   two instances over one transfer, modulo 3                     *)
(*   "ectf"  the curve y^2 = x^3 + 2 x + 3 over GF(7), all pairs of points *)
(*   "gcm"   four powers in GF(8), ended by GCM_SHARE_DONE                 *)
(*   "hash"  the shares of a single key, and the hash of messages of as    *)
(*           many blocks as there are powers                               *)
(* In the first three the connection may break.                            *)
(***************************************************************************)
EXTENDS Integers

CONSTANT Junk

VARIABLES
    part, wire, broken, pc, delta, out,
    a, b, pcs, pcr, t, v, sigma, z, got, outs, outr,            \* MtA
    pt, rho, tmp4, xin, yin, mu, eta, lambda, gamma,            \* ECtF
    H, xor_mask, in, gadget, ot, msg, tag                       \* GcmShares

mtaOnly == <<a, b, pcs, pcr, t, v, sigma, z, got, outs, outr>>
ectfOnly == <<pt, rho, tmp4, xin, yin, mu, eta, lambda, gamma>>
gcmOnly == <<H, xor_mask, in, gadget, ot, msg, tag>>
mcvars == <<part, wire, broken, pc, delta, out, mtaOnly, ectfOnly, gcmOnly>>

M == INSTANCE MtA WITH q <- 3, n <- 2, K <- 2, PerRec <- 1, Deltas <- {1},
                       Sigmas <- {1, 2}, Faults <- TRUE
E == INSTANCE ECtF WITH p <- 7, A <- 2, B <- 3, Coins <- {3, 4}, Faults <- TRUE
G == INSTANCE GcmShares WITH W <- 3, Poly <- {0, 1}, num_powers <- 4,
        gadget_elements <- 1, Coins <- {{0}, {0, 1}}, Masks <- {{1}},
        Contents <- {{0}}, MaxBlocks <- 1, WaitsForDone <- TRUE, Faults <- TRUE
S == INSTANCE GcmShares WITH W <- 3, Poly <- {0, 1}, num_powers <- 4,
        gadget_elements <- 2, Coins <- {{0, 2}}, Masks <- {{1}},
        Contents <- {{}, {0}, {1, 2}}, MaxBlocks <- 4, WaitsForDone <- FALSE,
        Faults <- FALSE

ASSUME M!MtAAssumption /\ E!ECtFAssumption /\ G!GcmAssumption /\ S!GcmAssumption

Unused == "unused"
MtAIdle ==
    /\ a = Unused /\ b = Unused /\ pcs = Unused /\ pcr = Unused /\ t = Unused
    /\ v = Unused /\ sigma = Unused /\ z = Unused /\ got = Unused
    /\ outs = Unused /\ outr = Unused
ECtFIdle ==
    /\ pt = Unused /\ rho = Unused /\ tmp4 = Unused /\ xin = Unused /\ yin = Unused
    /\ mu = Unused /\ eta = Unused /\ lambda = Unused /\ gamma = Unused
GcmIdle ==
    /\ H = Unused /\ xor_mask = Unused /\ in = Unused /\ gadget = Unused
    /\ ot = Unused /\ msg = Unused /\ tag = Unused

MCInit ==
    \/ /\ part = "mta" /\ M!Init /\ ECtFIdle /\ GcmIdle
       /\ pc = Unused /\ out = Unused
    \/ part = "ectf" /\ E!Init /\ MtAIdle /\ GcmIdle
    \/ /\ part \in {"gcm", "hash"} /\ MtAIdle /\ ECtFIdle /\ delta = Unused
       /\ \/ part = "gcm" /\ G!Init
          \/ part = "hash" /\ S!Init

NotMtA == UNCHANGED <<pc, out, ectfOnly, gcmOnly>>
NotECtF == UNCHANGED <<mtaOnly, gcmOnly>>
NotGcm == UNCHANGED <<delta, mtaOnly, ectfOnly>>

MCNext ==
    /\ \/ part = "mta"  /\ M!Next /\ NotMtA
       \/ part = "ectf" /\ E!Next /\ NotECtF
       \/ part = "gcm"  /\ G!Next /\ NotGcm
       \/ part = "hash" /\ S!Next /\ NotGcm
    /\ UNCHANGED part

\* The progress that each specification counts on.
Steps ==
    /\ \/ part = "mta"  /\ M!Step /\ NotMtA
       \/ part = "ectf" /\ E!Step /\ NotECtF
       \/ part = "gcm"  /\ G!Step /\ NotGcm
       \/ part = "hash" /\ S!Step /\ NotGcm
    /\ UNCHANGED part

MCSpec == MCInit /\ [][MCNext]_mcvars /\ WF_mcvars(Steps)

-----------------------------------------------------------------------------
\* The outputs of both instances add up to their products, and nothing is left
\* on the connection (ProductShared and NothingLeft of MtA.cpp's model).
ProductsShared ==
    part = "mta" => M!TypeOK /\ M!ProductShared /\ M!NothingLeft

\* The outputs add up to the x-coordinate of the sum of the points, and both
\* sides fail together, only where they must (SecretShared and FailTogether of
\* the model of ectf.cpp).
CoordinateShared ==
    part = "ectf" => E!TypeOK /\ E!SecretShared /\ E!FailTogether

\* When the prover has seen GCM_SHARE_DONE the tables add up to the powers of
\* H, although nobody looks at the reads that fill them, and no message is
\* taken for another (PowersShared and StreamInStep).
TablesShared ==
    /\ part = "gcm"  => G!TypeOK /\ G!PowersShared /\ G!StreamInStep
    /\ part = "hash" => S!TypeOK /\ S!PowersShared /\ S!StreamInStep

\* The shares of the hash add up to GHASH of the record (GHash.hpp).
HashShared == part = "hash" => S!GhashShared

\* Neither side is left waiting, whenever the connection breaks and whoever has
\* failed (MtA.cpp, ectf.cpp, F2128MtA.inl).
BothReturn ==
    <>(CASE part = "mta" -> M!Returned
         [] part = "ectf" -> E!Returned
         [] OTHER -> G!Returned)

=============================================================================
