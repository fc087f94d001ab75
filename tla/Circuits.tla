------------------------------ MODULE Circuits ------------------------------
(***************************************************************************)
(* The two-party circuits and their preprocessing budgets                  *)
(* (ssl/EmpWrapperAG2PC.cpp): what do_preproc and exec_small_internal do   *)
(* on the prover (ALICE) and on the verifier (BOB), each with its own      *)
(* counters, over one connection that may break at any point.              *)
(*                                                                         *)
(* A circuit is preprocessed for a fixed number of runs.  Each party       *)
(* decides by its own run_times when to preprocess again; preprocessing    *)
(* and the online phase are interactive, so the parties have to take the   *)
(* same decision.  An amortized circuit gives its output to BOB only, who  *)
(* sends it on; a receive that fails leaves ALICE with zeros, and          *)
(* exec_small_internal still returns true.                                 *)
(***************************************************************************)
EXTENDS Integers, Sequences

CONSTANTS
    Mode,        \* "Keystream", "True" or "Rotate" (SurfMode.hpp)
    Resumed,     \* does the handshake compute a PSK binder?
    gcm_iters, vfy_iters, ks_iters, aes_enc_iters, tag_iters, rotate_iters,
                 \* runs of one preprocessing, per amortized circuit
    MaxBatches,  \* batches of one AES_ENC or KS_DERIVE request
    MaxOps,      \* bound on the requests after the handshake
    Faults       \* may the connection break?

Single    == {"hs", "ts", "rms", "psk", "psk_8", "psk_0", "binder"}
Amortized == {"gcm", "vfy", "ks", "enc", "tag", "rotate"}
Circuit   == Single \cup Amortized
Party     == {"prover", "verifier"}

CircuitsAssumption ==
    /\ Mode \in {"Keystream", "True", "Rotate"}
    /\ {Resumed, Faults} \subseteq BOOLEAN
    /\ {gcm_iters, vfy_iters, ks_iters, aes_enc_iters, tag_iters, rotate_iters}
          \subseteq Nat \ {0}
    /\ MaxBatches \in Nat \ {0} /\ MaxOps \in Nat

VARIABLES
    pc,      \* per party: "setup", "idle", "run", "done" or "fail"
    todo,    \* per party: circuits it still has to build, or to run
    at,      \* per party, within a run: "enter", "online" or "output"
    run_times, exec_times,  \* per party and circuit: the wrapper's counter, emp's
    uses,    \* per party and circuit: runs since the last preprocessing
    hdr,     \* requests the verifier has not read
    out,     \* circuit outputs BOB has sent and ALICE has not received
    up,      \* is the connection alive?
    ops,     \* requests after the handshake
    psk,     \* prover: are the three PSK circuits still there?
    cur,     \* prover: the request it is in, or was in last
    tainted  \* prover: has it gone on with an output it never received?

vars == <<pc, todo, at, run_times, exec_times, uses, hdr, out, up, ops, psk,
          cur, tainted>>
counters == <<run_times, exec_times, uses>>
-----------------------------------------------------------------------------
\* preprocess_circuits: the circuits the prover builds, in order.
ProverSet ==
    <<"hs", "ts", "gcm", "rms", "psk", "psk_8", "psk_0", "binder", "vfy">>
    \o (IF Mode = "Keystream" THEN <<"ks">> ELSE <<>>) \o <<"enc", "tag">>
    \o (IF Mode = "Rotate" THEN <<"rotate">> ELSE <<>>)

\* Server::do_preproc: the circuits the verifier builds, in order.
VerifierSet ==
    <<"hs", "ts", "gcm", "rms", "psk", "psk_8", "psk_0", "binder", "vfy">>
    \o (IF Mode \notin {"True", "Rotate"} THEN <<"ks">> ELSE <<>>)
    \o <<"enc", "tag">>
    \o (IF Mode = "Rotate" THEN <<"rotate">> ELSE <<>>)

\* The circuits of the handshake: binder, KS_WAIT, DERIVE_TS, the GCM shares of
\* both keys, DERIVE_RES.
Handshake ==
    (IF Resumed THEN <<"binder">> ELSE <<>>) \o <<"hs", "ts", "gcm", "gcm", "rms">>

Times(c, n) == [i \in 1 .. n |-> c]

\* The runs a request asks for; both sides compute the number of batches from
\* the length the request carries.
Runs(op) == IF op.name = "ROTATE_KEY" THEN <<"rotate", "gcm">> ELSE Times(op.c, op.n)

Req(name, c, n) == [name |-> name, c |-> c, n |-> n]

PskAllowed == psk

\* encrypt_request, verify_record_tag, derive_keystream, rotate_traffic_keys and
\* derive_psk_keys, with the circuits each needs.
Requests ==
    {Req("AES_ENC", "enc", n) : n \in {k \in 1 .. MaxBatches : k <= aes_enc_iters}}
    \cup {Req("GCM_TAG", "tag", 1), Req("GCM_VERIFY", "vfy", 1)}
    \cup (IF Mode = "Keystream"
          THEN {Req("KS_DERIVE", "ks", n) : n \in 1 .. MaxBatches} ELSE {})
    \cup (IF Mode = "Rotate" THEN {Req("ROTATE_KEY", "rotate", 1)} ELSE {})
    \cup (IF PskAllowed
          THEN {Req("DERIVE_PSK", c, 1) : c \in {"psk", "psk_8", "psk_0"}} ELSE {})

Init ==
    /\ pc = [q \in Party |-> "setup"]
    /\ todo = [q \in Party |-> IF q = "prover" THEN ProverSet ELSE VerifierSet]
    /\ at = [q \in Party |-> "enter"]
    /\ run_times = [q \in Party |-> [c \in Circuit |-> 0]]
    /\ exec_times = [q \in Party |-> [c \in Circuit |-> 0]]
    /\ uses = [q \in Party |-> [c \in Circuit |-> 0]]
    /\ hdr = <<>> /\ out = <<>> /\ up = TRUE /\ ops = 0 /\ psk = TRUE
    /\ cur = Req("HANDSHAKE", "", 0) /\ tainted = FALSE
-----------------------------------------------------------------------------
(* One party *)

Iters == [gcm |-> gcm_iters, vfy |-> vfy_iters, ks |-> ks_iters,
          enc |-> aes_enc_iters, tag |-> tag_iters, rotate |-> rotate_iters]

Cur(q) == Head(todo[q])
InRun(q) == pc[q] = "run" /\ todo[q] # <<>>

SpentLate(q, c) == c \in Amortized /\ run_times[q][c] > Iters[c]

\* run_times has reached the number of preprocessed runs.  A single circuit
\* returns before run_times is counted, so its test never holds.
Spent(q, c) == IF c \in Single THEN run_times[q][c] > 0 ELSE run_times[q][c] = Iters[c]

\* What the party does next on the connection.
Wants(q) ==
    IF pc[q] = "setup" /\ todo[q] # <<>> THEN [do |-> "preproc", c |-> Cur(q)]
    ELSE IF InRun(q) /\ at[q] = "enter"
    THEN [do |-> IF Spent(q, Cur(q)) THEN "preproc" ELSE "online", c |-> Cur(q)]
    ELSE IF InRun(q) /\ at[q] = "online" THEN [do |-> "online", c |-> Cur(q)]
    ELSE [do |-> "none", c |-> ""]

\* do_preproc on both sides: both counters rewind.
Reset(f, c) == [q \in Party |-> [f[q] EXCEPT ![c] = 0]]

\* emp's own counter, rewound by function_dependent.
ResetExec(f, c) == Reset(f, c)

Preprocess ==
    /\ up
    /\ Wants("prover").do = "preproc" /\ Wants("verifier") = Wants("prover")
    /\ LET c == Cur("prover") IN
       /\ run_times' = Reset(run_times, c)
       /\ exec_times' = ResetExec(exec_times, c)
       /\ uses' = Reset(uses, c)
    /\ IF pc["prover"] = "setup"
       THEN todo' = [q \in Party |-> Tail(todo[q])] /\ UNCHANGED at
       ELSE at' = [q \in Party |-> "online"] /\ UNCHANGED todo
    /\ UNCHANGED <<pc, hdr, out, up, ops, psk, cur, tainted>>

\* The circuits are built: the handshake's runs follow.
SetupDone(q) ==
    /\ pc[q] = "setup" /\ todo[q] = <<>>
    /\ pc' = [pc EXCEPT ![q] = "run"]
    /\ todo' = [todo EXCEPT ![q] = Handshake]
    /\ UNCHANGED <<at, counters, hdr, out, up, ops, psk, cur, tainted>>

Bump(f, q, c) == [f EXCEPT ![q][c] = @ + 1]
BumpBoth(f, c) == [q \in Party |-> [f[q] EXCEPT ![c] = @ + 1]]

\* The online phase.  A single circuit ends here for both parties, without
\* counting the run; for an amortized one the output is still to be handed on.
Online ==
    /\ up
    /\ Wants("prover").do = "online" /\ Wants("verifier") = Wants("prover")
    /\ LET c == Cur("prover") IN
       /\ uses' = BumpBoth(uses, c)
       /\ IF c \in Single
          THEN /\ todo' = [q \in Party |-> Tail(todo[q])]
               /\ at' = [q \in Party |-> "enter"]
               /\ UNCHANGED exec_times
          ELSE /\ exec_times' = BumpBoth(exec_times, c)
               /\ at' = [q \in Party |-> "output"]
               /\ UNCHANGED todo
    /\ UNCHANGED <<pc, run_times, hdr, out, up, ops, psk, cur, tainted>>

FinishRun(q) ==
    /\ run_times' = Bump(run_times, q, Cur(q))
    /\ todo' = [todo EXCEPT ![q] = Tail(@)]
    /\ at' = [at EXCEPT ![q] = "enter"]

EvaluateUncounted ==
    /\ InRun("verifier") /\ at["verifier"] = "output"
    /\ todo' = [todo EXCEPT !["verifier"] = Tail(@)]
    /\ at' = [at EXCEPT !["verifier"] = "enter"]
    /\ out' = IF up THEN Append(out, Cur("verifier")) ELSE out
    /\ UNCHANGED <<pc, counters, hdr, up, ops, psk, cur, tainted>>

\* BOB evaluates and sends the output on.  On a dead connection he either still
\* has what ALICE sent, and loses the output in the send, which nothing checks
\* afterwards, or the online phase failed.
Evaluate ==
    /\ InRun("verifier") /\ at["verifier"] = "output"
    /\ FinishRun("verifier")
    /\ out' = IF up THEN Append(out, Cur("verifier")) ELSE out
    /\ UNCHANGED <<pc, exec_times, uses, hdr, up, ops, psk, cur, tainted>>

ZeroPassesTag == {"gcm", "rotate", "tag"}

\* The circuits whose output has no repeated-bit byte: zeros look like any
\* other output.  In the others a zero byte means cheated, or not ok.
ZeroPasses == {"gcm", "rotate"}

\* ALICE receives the output, or her receive fails and she holds zeros.
Receive ==
    /\ InRun("prover") /\ at["prover"] = "output"
    /\ \/ /\ out # <<>> /\ out' = Tail(out)
          /\ FinishRun("prover") /\ UNCHANGED <<pc, tainted>>
       \/ /\ out = <<>> /\ ~up /\ UNCHANGED out
          /\ IF Cur("prover") \in ZeroPasses
             THEN FinishRun("prover") /\ tainted' = TRUE /\ UNCHANGED pc
             ELSE /\ pc' = [pc EXCEPT !["prover"] = "fail"]
                  /\ UNCHANGED <<run_times, todo, at, tainted>>
       \* What was sent before the connection broke may be lost with it.
       \/ /\ out # <<>> /\ ~up /\ out' = <<>>
          /\ UNCHANGED <<pc, run_times, todo, at, tainted>>
    /\ UNCHANGED <<exec_times, uses, hdr, up, ops, psk, cur>>

\* The party is inside an interaction, or waits for a request.
Waiting(q) ==
    \/ Wants(q).do # "none"
    \/ q = "verifier" /\ InRun(q) /\ at[q] = "output"
    \/ q = "verifier" /\ pc[q] = "idle" /\ hdr = <<>>

\* An interaction on a dead connection: has_io_failed, and the run is abandoned.
IoFails(q) ==
    /\ ~up /\ Waiting(q)
    /\ pc' = [pc EXCEPT ![q] = "fail"]
    /\ UNCHANGED <<todo, at, counters, hdr, out, up, ops, psk, cur, tainted>>

\* The requests of this run are complete.
RunsDone(q) ==
    /\ pc[q] = "run" /\ todo[q] = <<>>
    /\ pc' = [pc EXCEPT ![q] = "idle"]
    /\ UNCHANGED <<todo, at, counters, hdr, out, up, ops, psk, cur, tainted>>

-----------------------------------------------------------------------------
(* Requests *)

\* The header goes out; on a dead connection the write may still succeed.
Ask(op) ==
    /\ pc["prover"] = "idle" /\ ops < MaxOps
    /\ ops' = ops + 1
    /\ hdr' = IF up THEN Append(hdr, op) ELSE hdr
    /\ psk' = (psk /\ op.name # "DERIVE_PSK")
    /\ cur' = op
    /\ \/ /\ pc' = [pc EXCEPT !["prover"] = "run"]
          /\ todo' = [todo EXCEPT !["prover"] = Runs(op)]
       \/ ~up /\ pc' = [pc EXCEPT !["prover"] = "fail"] /\ UNCHANGED todo
    /\ UNCHANGED <<at, counters, out, up, tainted>>

\* STOP.
AskStop ==
    /\ pc["prover"] = "idle"
    /\ hdr' = IF up THEN Append(hdr, Req("STOP", "", 0)) ELSE hdr
    /\ pc' = [pc EXCEPT !["prover"] = "done"]
    /\ UNCHANGED <<todo, at, counters, out, up, ops, psk, cur, tainted>>

Serve ==
    /\ pc["verifier"] = "idle" /\ hdr # <<>>
    /\ hdr' = Tail(hdr)
    /\ IF Head(hdr).name = "STOP"
       THEN pc' = [pc EXCEPT !["verifier"] = "done"] /\ UNCHANGED todo
       ELSE /\ pc' = [pc EXCEPT !["verifier"] = "run"]
            /\ todo' = [todo EXCEPT !["verifier"] = Runs(Head(hdr))]
    /\ UNCHANGED <<at, counters, out, up, ops, psk, cur, tainted>>

\* The connection breaks.
Break ==
    /\ Faults /\ up /\ up' = FALSE
    /\ UNCHANGED <<pc, todo, at, counters, hdr, out, ops, psk, cur, tainted>>

Ended == (\A q \in Party : pc[q] \in {"done", "fail"}) /\ UNCHANGED vars

Progress ==
    \/ Preprocess \/ Online \/ Evaluate \/ Receive \/ Serve \/ AskStop
    \/ \E q \in Party : SetupDone(q) \/ RunsDone(q) \/ IoFails(q)
    \/ \E op \in Requests : Ask(op)

Next == Progress \/ Break \/ Ended

\* Both programs go on as long as they can; the connection need not break.
Spec == Init /\ [][Next]_vars /\ WF_vars(Progress)
-----------------------------------------------------------------------------
(* Properties *)

\* What the prover asks for once the handshake is done.
ReqNames == {"AES_ENC", "GCM_TAG", "GCM_VERIFY", "KS_DERIVE", "ROTATE_KEY",
             "DERIVE_PSK", "STOP"}

\* The types of the variables.
TypeOK ==
    /\ pc \in [Party -> {"setup", "run", "idle", "done", "fail"}]
    /\ todo \in [Party -> Seq(Circuit)]
    /\ at \in [Party -> {"enter", "online", "output"}]
    /\ run_times \in [Party -> [Circuit -> Nat]]
    /\ exec_times \in [Party -> [Circuit -> Nat]]
    /\ uses \in [Party -> [Circuit -> Nat]]
    /\ hdr \in Seq([name : ReqNames, c : Circuit \cup {""}, n : Nat])
    /\ out \in Seq(Circuit) /\ ops \in 0 .. MaxOps
    /\ {up, psk, tainted} \subseteq BOOLEAN

\* The parties never do different things on the connection: they build the same
\* circuits in the same order, run the circuit the other runs, and preprocess
\* again before the same run, although each goes by its own counter.
InStep ==
    (Wants("prover").do # "none" /\ Wants("verifier").do # "none")
        => Wants("prover") = Wants("verifier")

Budget(c) == IF c \in Single THEN 1 ELSE Iters[c]

\* No garbled circuit is evaluated twice and none is indexed past the end of
\* what was preprocessed (mac[exec_times], GT[exec_times] in emp).
FreshMaterial ==
    \A q \in Party, c \in Circuit :
        uses[q][c] <= Budget(c) /\ exec_times[q][c] <= Budget(c)

\* A request other than a rotation that returns success to its caller has
\* received every output it and the requests before it were computed from: no
\* record is sealed, opened or taken as verified on the zeros a failed receive
\* leaves behind.
NothingFromALostRun ==
    tainted /\ pc["prover"] = "idle" => cur.name = "ROTATE_KEY"

\* Both programs come to an end, whatever breaks.
Terminates == <>(\A q \in Party : pc[q] \in {"done", "fail"})

=============================================================================
