------------------------------ MODULE Handoff ------------------------------
(***************************************************************************)
(* Rounds that run as one process per side (benchmarks/MultiGet.b.cpp):    *)
(* what one round leaves for the next crosses the process boundary in      *)
(* files (ssl/Roundhandoff.hpp).  The prover keeps the origin's ticket and *)
(* its share of the PSK in two files, the verifier its share in a third,   *)
(* and the asset queue and its cursor are two more.                        *)
(*                                                                         *)
(* A round's protocol is one step here (module Session is about it); its   *)
(* outcome is                                                              *)
(*   fail    one side gave up, so both exit without saving                 *)
(*   skip    no NewSessionTicket: the prover sent PSK_SKIP                 *)
(*   psk     a PSK was derived and its ticket captured                     *)
(* Each file is written by truncating it and then filling it, and no       *)
(* write is atomic with another.                                           *)
(***************************************************************************)
EXTENDS Integers, Sequences

CONSTANTS
    FullOutcomes, ResumedOutcomes,  \* what may become of a round, by kind
    Kills,       \* who may be killed in the middle: a subset of
                 \* {"prover", "verifier"}
    NAssets,     \* length of the asset queue
    MaxRounds    \* bound on the rounds

ASSUME HandoffAssumption ==
    /\ FullOutcomes \cup ResumedOutcomes \subseteq {"fail", "skip", "psk"}
    /\ Kills \subseteq {"prover", "verifier"}
    /\ NAssets \in Nat \ {0} /\ MaxRounds \in Nat

VARIABLES
    files,      \* contents on disk: a number, None or Torn
    prover, verifier,  \* the processes: pc, mem (PSK share), pending writes
    round,      \* rounds started; a PSK is known by the round that derived it
    kind,       \* "full" or "resumed", of the current round
    rc,         \* the prover's exit code in the last round it finished
    worked,     \* the verifier's, TRUE for exit code 0
    fetched,    \* assets of the queue on disk that have been fetched
    queue_ok,   \* did the full round that wrote the queue return 0?
    before,     \* files as they were when the round started
    new_session \* GetResult::new_session of the current round

vars == <<files, prover, verifier, round, kind, rc, worked, fetched, queue_ok,
          before, new_session>>

None == -1       \* no such file
Torn == -2       \* truncated and not yet filled
ZeroShare == 0   \* a Server that has never been given a share
Off == [pc |-> "off", mem |-> ZeroShare, writes |-> <<>>]

Readable(f) == files[f] \notin {None, Torn}

-----------------------------------------------------------------------------
(* Starting a round *)

\* read_cursor: an unreadable cursor counts as 0.
read_cursor == IF Readable("cursor") THEN files["cursor"] ELSE 0

\* prover_resumed_round up to do_single_get: the queue, the cursor, then
\* load_prover.  A round that stops here never connects.
ResumeStops ==
    \/ ~Readable("assets")
    \/ read_cursor >= NAssets
    \/ ~Readable("prover_psk") \/ ~Readable("session")

StartRound(k) ==
    /\ prover.pc = "off" /\ verifier.pc = "off" /\ round < MaxRounds
    /\ k = "resumed" => ~ResumeStops
    /\ round' = round + 1 /\ kind' = k /\ before' = files
    /\ new_session' = FALSE
    /\ prover' = [Off EXCEPT !.pc = "get",
                             !.mem = IF k = "resumed" THEN files["prover_psk"]
                                     ELSE ZeroShare]
    /\ verifier' = [Off EXCEPT !.pc = "accepted"]
    /\ rc' = 1 /\ worked' = FALSE
    /\ UNCHANGED <<files, fetched, queue_ok>>

\* The verifier follows the run type the prover declared.
LoadShare ==
    /\ verifier.pc = "accepted"
    /\ verifier' = IF kind = "resumed" /\ ~Readable("verifier_psk")
                   THEN Off
                   ELSE [verifier EXCEPT
                           !.pc = "run",
                           !.mem = IF kind = "resumed" THEN files["verifier_psk"]
                                   ELSE ZeroShare]
    /\ UNCHANGED <<files, prover, round, kind, rc, worked, fetched, queue_ok,
                   before, new_session>>

-----------------------------------------------------------------------------
(* The protocol *)

\* The origin accepts the ticket only if both halves are those of its PSK.
Resumes == files["session"] = prover.mem /\ prover.mem = verifier.mem

Outcomes ==
    IF kind = "full" THEN FullOutcomes
    ELSE IF Resumes THEN ResumedOutcomes ELSE {"fail"}

save_prover_session_only(psk) == << <<"session", psk>> >>

\* What the prover writes once do_single_get has returned.
save_prover(psk) == << <<"session", psk>>, <<"prover_psk", psk>> >>

FullWritesKeepCursor(outcome) ==
    << <<"assets", round>> >>
    \o (IF outcome = "psk" THEN save_prover(round) ELSE <<>>)

FullWrites(outcome) ==
    << <<"assets", round>>, <<"cursor", 0>> >>
    \o (IF outcome = "psk" THEN save_prover(round) ELSE <<>>)

ResumedWrites(outcome) ==
    << <<"cursor", read_cursor + 1>> >>
    \o (IF outcome = "psk" THEN save_prover(round) ELSE <<>>)

\* A full round without a session to save returns 1.
ProverRc(outcome) == IF kind = "full" /\ outcome = "skip" THEN 1 ELSE 0

save_share_as_loaded(outcome) == << <<"verifier_psk", verifier.mem>> >>

\* The verifier saves whatever it holds, on every round that worked.
save_share(outcome) ==
    << <<"verifier_psk", IF outcome = "psk" THEN round ELSE verifier.mem>> >>

\* do_single_get and the verifier's run return.
Conclude(outcome) ==
    /\ prover.pc = "get" /\ verifier.pc = "run"
    /\ IF outcome = "fail"
       THEN /\ prover' = Off /\ verifier' = Off
            /\ UNCHANGED <<fetched, new_session>>
       ELSE /\ prover' = [prover EXCEPT
                 !.pc = IF ProverRc(outcome) = 0 THEN "saving" ELSE "saving_fails",
                 !.writes = IF kind = "full" THEN FullWrites(outcome)
                            ELSE ResumedWrites(outcome)]
            /\ verifier' = [verifier EXCEPT !.pc = "saving",
                                            !.writes = save_share(outcome)]
            /\ new_session' = (outcome = "psk")
            /\ fetched' = IF kind = "full" THEN fetched
                          ELSE fetched \cup {read_cursor}
    /\ UNCHANGED <<files, round, kind, rc, worked, queue_ok, before>>

Run(outcome) == outcome \in Outcomes /\ Conclude(outcome)

\* The other side of the connection has gone.
PeerGone ==
    \/ /\ prover.pc = "get" /\ verifier.pc = "off" /\ prover' = Off
       /\ UNCHANGED verifier
    \/ /\ verifier.pc \in {"accepted", "run"} /\ prover.pc # "get"
       /\ verifier' = Off /\ UNCHANGED prover

PeerGoneStep ==
    /\ PeerGone
    /\ UNCHANGED <<files, round, kind, rc, worked, fetched, queue_ok, before,
                   new_session>>

-----------------------------------------------------------------------------
(* Files: write_file, write_assets, write_cursor *)

\* The next pending write of a process: first the file is truncated, then it
\* gets its contents and the process goes on to its next write.
WriteStep(proc, proc2) ==
    /\ proc.writes # <<>>
    /\ LET f == Head(proc.writes)[1] v == Head(proc.writes)[2] IN
       \/ files[f] # Torn /\ files' = [files EXCEPT ![f] = Torn] /\ proc2 = proc
       \/ files[f] = Torn /\ files' = [files EXCEPT ![f] = v]
                          /\ proc2 = [proc EXCEPT !.writes = Tail(@)]

\* A new queue has no fetched assets yet.
ProverWrites ==
    /\ prover.pc \in {"saving", "saving_fails"}
    /\ WriteStep(prover, prover')
    /\ LET new_queue == Head(prover.writes)[1] = "assets" IN
       /\ fetched' = IF new_queue THEN {} ELSE fetched
       /\ queue_ok' = IF new_queue THEN FALSE ELSE queue_ok
    /\ UNCHANGED <<verifier, round, kind, rc, worked, before, new_session>>

VerifierWrites ==
    /\ verifier.pc = "saving"
    /\ WriteStep(verifier, verifier')
    /\ UNCHANGED <<prover, round, kind, rc, worked, fetched, queue_ok, before,
                   new_session>>

ProverExits ==
    /\ prover.pc \in {"saving", "saving_fails"} /\ prover.writes = <<>>
    /\ prover' = Off
    /\ rc' = IF prover.pc = "saving" THEN 0 ELSE 1
    /\ queue_ok' = (queue_ok \/ (kind = "full" /\ prover.pc = "saving"))
    /\ UNCHANGED <<files, verifier, round, kind, worked, fetched, before, new_session>>

VerifierExits ==
    /\ verifier.pc = "saving" /\ verifier.writes = <<>>
    /\ verifier' = Off /\ worked' = TRUE
    /\ UNCHANGED <<files, prover, round, kind, rc, fetched, queue_ok, before, new_session>>

-----------------------------------------------------------------------------
(* The runner: run_multiget.sh stops what is left of a round *)

\* A timeout or a signal ends the prover wherever it is.
KillProver ==
    /\ "prover" \in Kills /\ prover.pc # "off"
    /\ prover' = Off
    /\ UNCHANGED <<files, verifier, round, kind, rc, worked, fetched, queue_ok,
                   before, new_session>>

\* run_round kills the verifier as soon as the prover has exited.
KillVerifier ==
    /\ "verifier" \in Kills /\ verifier.pc # "off" /\ prover.pc = "off"
    /\ verifier' = Off
    /\ UNCHANGED <<files, prover, round, kind, rc, worked, fetched, queue_ok,
                   before, new_session>>

\* No further round can be started.
Finished ==
    /\ prover.pc = "off" /\ verifier.pc = "off" /\ round = MaxRounds
    /\ UNCHANGED vars

Init ==
    /\ files = [f \in {"assets", "cursor", "session", "prover_psk",
                       "verifier_psk"} |-> None]
    /\ prover = Off /\ verifier = Off /\ round = 0 /\ kind = "full"
    /\ rc = 1 /\ worked = FALSE /\ fetched = {} /\ queue_ok = FALSE
    /\ before = files /\ new_session = FALSE

Next ==
    \/ \E k \in {"full", "resumed"} : StartRound(k)
    \/ LoadShare
    \/ \E outcome \in {"fail", "skip", "psk"} : Run(outcome)
    \/ PeerGoneStep
    \/ ProverWrites \/ VerifierWrites \/ ProverExits \/ VerifierExits
    \/ KillProver \/ KillVerifier \/ Finished

Spec == Init /\ [][Next]_vars

-----------------------------------------------------------------------------
(* Properties *)

Between == prover.pc = "off" /\ verifier.pc = "off"
PskFiles == {"session", "prover_psk", "verifier_psk"}
Agree == \A f, g \in PskFiles : files[f] = files[g]

\* The types of the variables; the cursor never points past the queue's end.
TypeOK ==
    /\ \A f \in PskFiles \cup {"assets"} : files[f] \in Torn .. MaxRounds
    /\ files["cursor"] \in Torn .. NAssets
    /\ prover.pc \in {"off", "get", "saving", "saving_fails"}
    /\ verifier.pc \in {"off", "accepted", "run", "saving"}
    /\ prover.mem \in 0 .. MaxRounds /\ verifier.mem \in 0 .. MaxRounds
    /\ round \in 0 .. MaxRounds /\ kind \in {"full", "resumed"} /\ rc \in {0, 1}
    /\ {worked, queue_ok, new_session} \subseteq BOOLEAN
    /\ fetched \subseteq 0 .. NAssets - 1

\* Between two rounds the three PSK files belong together: the ticket and the
\* two shares, which two processes write without talking to each other, are
\* all of the same PSK, or there are none ("every resumed round consumes it
\* in do_ks / do_psk_binder and re-saves whatever it ends up holding").
Consistent == Between => Agree

\* No asset is passed over: once a full round has reported its queue, every
\* asset before the cursor has been fetched, whoever was killed, at whichever
\* write, and however often the round was retried ("Advance the cursor only
\* on success, so a failed round can be retried against the same asset").
NoAssetSkipped ==
    queue_ok => \A i \in 0 .. read_cursor - 1 : i \in fetched

\* Whatever files earlier rounds left, torn or mismatched ones included, a full
\* round that both sides call a success leaves a handoff that can be resumed,
\* and a queue at its start.
FullRepairs ==
    Between /\ kind = "full" /\ rc = 0 /\ worked =>
        /\ Agree /\ files["session"] = round
        /\ files["assets"] = round /\ files["cursor"] = 0

\* A round without a new session leaves the three PSK files as they were
\* ("When false the handoff on disk is unchanged and still describes the
\* session we just used", GetResult), so that the next round can replay the
\* same ticket.
SkipKeepsHandoff ==
    Between /\ round > 0 /\ ~new_session =>
        \A f \in PskFiles : files[f] = before[f]
=============================================================================
