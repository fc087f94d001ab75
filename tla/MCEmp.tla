------------------------------- MODULE MCEmp -------------------------------
(***************************************************************************)
(* The emp layer for TLC: the byte channel (EmpStream) and the circuits    *)
(* that run on it (Circuits), one at a time.  The variable part says which *)
(* of the two is at work, and for the circuits in which mode; it never     *)
(* changes, and what is not at work stays as it was.  (Circuits already    *)
(* takes the channel for the byte stream that EmpStream is shown to be.)   *)
(***************************************************************************)
EXTENDS EmpStream

CONSTANTS gcm_iters, vfy_iters, ks_iters, aes_enc_iters, tag_iters, rotate_iters,
          MaxOps

VARIABLES
    pc, todo, at, run_times, exec_times, uses, hdr, out, ops, psk, cur, tainted,
    alive,      \* is the connection of the circuits alive?
    part        \* "stream", "rotate" or "keystream"

circuitVars == <<pc, todo, at, run_times, exec_times, uses, hdr, out, alive, ops,
                 psk, cur, tainted>>
mcvars == <<vars, circuitVars, part>>

Ro == INSTANCE Circuits WITH Mode <- "Rotate", Resumed <- FALSE, MaxBatches <- 2,
                             up <- alive
Ks == INSTANCE Circuits WITH Mode <- "Keystream", Resumed <- TRUE, MaxBatches <- 3,
                             up <- alive

ASSUME BudgetsAssumption == Ro!CircuitsAssumption /\ Ks!CircuitsAssumption

StreamIdle == Init /\ cuts = {N} /\ ends = {N} /\ turns = {}

MCInit ==
    \/ part = "stream"    /\ Init /\ Ro!Init
    \/ part = "rotate"    /\ StreamIdle /\ Ro!Init
    \/ part = "keystream" /\ StreamIdle /\ Ks!Init

MCNext ==
    /\ \/ part = "stream"    /\ Next /\ UNCHANGED circuitVars
       \/ part = "rotate"    /\ Ro!Next /\ UNCHANGED vars
       \/ part = "keystream" /\ Ks!Next /\ UNCHANGED vars
    /\ UNCHANGED part

\* The progress that either specification counts on.
Progresses ==
    /\ \/ part = "stream"    /\ Progress /\ UNCHANGED circuitVars
       \/ part = "rotate"    /\ Ro!Progress /\ UNCHANGED vars
       \/ part = "keystream" /\ Ks!Progress /\ UNCHANGED vars
    /\ UNCHANGED part

MCSpec == MCInit /\ [][MCNext]_mcvars /\ WF_mcvars(Progresses)

-----------------------------------------------------------------------------
\* InStep and the types of Circuits: prover and verifier build and run the same
\* circuits in the same order and preprocess again before the same run, each by
\* its own counters (do_preproc, exec_small_internal).
CircuitsInStep ==
    /\ part = "stream" => TypeOK
    /\ part = "rotate" => Ro!TypeOK /\ Ro!InStep
    /\ part = "keystream" => Ks!TypeOK /\ Ks!InStep

\* FreshMaterial: no garbled circuit is evaluated twice or indexed past what
\* was preprocessed (exec_times in amortized_2pc.h).
MaterialFresh == Ro!FreshMaterial

\* NothingFromALostRun: nothing but a rotation succeeds on the zeros a lost
\* output leaves behind (exec_small_internal).
NothingFromZeros == Ro!NothingFromALostRun

\* Whatever breaks, a run of the channel returns (Returns; recv_data_internal)
\* and both programs come to an end (Terminates; Util::process_data).
Ends ==
    /\ part = "stream" => Returns
    /\ part # "stream" => Ro!Terminates

=============================================================================
