----------------------------- MODULE MCSession -----------------------------
(***************************************************************************)
(* Session for TLC, in three configurations that one run goes through: the *)
(* variable conf says which and never changes.                             *)
(*   "sealed"  two rounds of the sealed-capture mode, an origin that sends *)
(*             tickets of every supported width but 0, tampered records    *)
(*   "dying"   two rounds in which either process may die at any time      *)
(*   "masked"  a round of the masked mode that may start from a ticket     *)
(*             handed over, with every kind of record                      *)
(* The constants of the .cfg are those of "masked", except for the bounds, *)
(* which are the largest of the three.                                     *)
(***************************************************************************)
EXTENDS Session

VARIABLE conf

mcvars == <<vars, conf>>

Se == INSTANCE Session WITH Mode <- "True", Crash <- FALSE, Carried <- FALSE,
        Kinds <- {"app", "nst1", "nst8", "nstX", "close"}
Dy == INSTANCE Session WITH Mode <- "True", Tamper <- FALSE, Carried <- FALSE,
        Kinds <- {"app", "nst0", "close"}, MaxRecords <- 2
Ma == INSTANCE Session WITH MaxRounds <- 1

MCInit ==
    \/ conf = "sealed" /\ Se!Init
    \/ conf = "dying"  /\ Dy!Init
    \/ conf = "masked" /\ Ma!Init

MCNext ==
    /\ \/ conf = "sealed" /\ Se!Next
       \/ conf = "dying"  /\ Dy!Next
       \/ conf = "masked" /\ Ma!Next
    /\ UNCHANGED conf

\* The steps Session!Fairness is about, in the configuration at hand.
ProverSteps ==
    /\ \/ conf = "sealed" /\ Se!ProverStep
       \/ conf = "dying"  /\ Dy!ProverStep
       \/ conf = "masked" /\ Ma!ProverStep
    /\ UNCHANGED conf

VerifierSteps ==
    /\ \/ conf = "sealed" /\ Se!VerifierStep
       \/ conf = "dying"  /\ Dy!VerifierStep
       \/ conf = "masked" /\ Ma!VerifierStep
    /\ UNCHANGED conf

TimesOut == AcceptTimesOut /\ UNCHANGED conf

Quits ==
    /\ \/ conf = "sealed" /\ Se!Quit
       \/ conf = "dying"  /\ Dy!Quit
       \/ conf = "masked" /\ Ma!Quit
    /\ UNCHANGED conf

MCSpec ==
    /\ MCInit /\ [][MCNext]_mcvars
    /\ WF_mcvars(ProverSteps) /\ WF_mcvars(VerifierSteps)
    /\ WF_mcvars(TimesOut) /\ WF_mcvars(Quits)

-----------------------------------------------------------------------------
\* LockStep and the types of Session, in every configuration: whoever is about
\* to read finds something on the wire that it can read, whatever the origin
\* sends, declines or tampers with (send_command, Server::run).
InLockStep ==
    /\ TypeOK
    /\ conf = "sealed" => Se!LockStep
    /\ conf = "dying"  => Dy!LockStep
    /\ conf = "masked" => Ma!LockStep

\* DeliveredComplete of the sealed-capture mode: a fetched page is the whole
\* page, closed by the origin, whoever dies meanwhile (true_surf_release).
PageComplete ==
    /\ conf = "sealed" => Se!DeliveredComplete
    /\ conf = "dying"  => Dy!DeliveredComplete

=============================================================================
