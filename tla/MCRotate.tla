------------------------------ MODULE MCRotate ------------------------------
(***************************************************************************)
(* RotateSession for TLC, in three configurations (conf, which never       *)
(* changes):                                                               *)
(*   "epoch"  three requests, each released in its own epoch               *)
(*   "late"   two requests, tickets at any time, polls that expire         *)
(*   "batch"  everything released at the end, an origin that sends records *)
(*            of five bytes and KeyUpdates of its own                      *)
(***************************************************************************)
EXTENDS RotateSession

VARIABLE conf

mcvars == <<rvars, conf>>

Ep == INSTANCE RotateSession WITH Flow <- "epoch", NRequests <- 3, Short <- FALSE,
        MaxTickets <- 1, LateTickets <- FALSE, MaxUpdates <- 0, Timeouts <- FALSE
La == INSTANCE RotateSession WITH Flow <- "epoch", NRequests <- 2, Short <- FALSE,
        MaxUpdates <- 0, MaxKey <- 4
Ba == INSTANCE RotateSession WITH Flow <- "batch", NRequests <- 1,
        MaxTickets <- 1, Timeouts <- FALSE, MaxKey <- 4

MCInit ==
    \/ conf = "epoch" /\ Ep!RInit
    \/ conf = "late"  /\ La!RInit
    \/ conf = "batch" /\ Ba!RInit

MCNext ==
    /\ \/ conf = "epoch" /\ Ep!RNext
       \/ conf = "late"  /\ La!RNext
       \/ conf = "batch" /\ Ba!RNext
    /\ UNCHANGED conf

\* The steps of RotateSession's fairness, in the configuration at hand.
ProverSteps ==
    /\ \/ conf = "epoch" /\ Ep!Prover
       \/ conf = "late"  /\ La!Prover
       \/ conf = "batch" /\ Ba!Prover
    /\ UNCHANGED conf

OriginSteps ==
    /\ \/ conf = "epoch" /\ Ep!Origin
       \/ conf = "late"  /\ La!Origin
       \/ conf = "batch" /\ Ba!Origin
    /\ UNCHANGED conf

PskDoneSteps ==
    /\ \/ conf = "epoch" /\ Ep!PskDone
       \/ conf = "late"  /\ La!PskDone
       \/ conf = "batch" /\ Ba!PskDone
    /\ UNCHANGED conf

MCSpec ==
    /\ MCInit /\ [][MCNext]_mcvars
    /\ WF_mcvars(ProverSteps) /\ WF_mcvars(OriginSteps) /\ WF_mcvars(PskDoneSteps)

-----------------------------------------------------------------------------
\* RightResponse and DeliveredAttested: what a release hands out is the whole
\* response to its request, all of it attested under the origin's key and
\* number.
DeliveredRightly ==
    /\ RightResponse
    /\ conf = "batch" => Ba!DeliveredAttested
    /\ conf # "batch" => Ep!DeliveredAttested

\* ReleasedKeysClosed as long as no poll expires: the verifier's share of a key
\* goes out only after the origin has stopped sealing under it.
ReleasedInTime ==
    /\ conf = "epoch" => Ep!ReleasedKeysClosed
    /\ conf = "batch" => Ba!ReleasedKeysClosed

=============================================================================
