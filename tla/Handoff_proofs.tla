-------------------------- MODULE Handoff_proofs --------------------------
(***************************************************************************)
(* Proofs about Handoff for every number of rounds and every length of the *)
(* asset queue, and about the two configurations of MCHandoff.             *)
(***************************************************************************)
EXTENDS MCHandoff, TLAPS

\* A process is killed, or gives up because its peer has gone.
ProverLeaves ==
    /\ prover' = Off
    /\ UNCHANGED <<files, verifier, round, kind, rc, worked, fetched, queue_ok,
                   before, new_session>>

VerifierLeaves ==
    /\ verifier' = Off
    /\ UNCHANGED <<files, prover, round, kind, rc, worked, fetched, queue_ok,
                   before, new_session>>

\* The steps of every configuration: any outcome, and either process may leave
\* at any time.
Step ==
    \/ \E k \in {"full", "resumed"} : StartRound(k)
    \/ LoadShare
    \/ \E outcome \in {"fail", "skip", "psk"} : Conclude(outcome)
    \/ ProverWrites \/ VerifierWrites \/ ProverExits \/ VerifierExits
    \/ ProverLeaves \/ VerifierLeaves \/ UNCHANGED vars

LEMMA NextIsStep == [Next]_vars => Step
BY DEF Next, Step, Run, PeerGoneStep, PeerGone, KillProver, KillVerifier,
       Finished, ProverLeaves, VerifierLeaves

-----------------------------------------------------------------------------
(* Lists of pending writes *)

LEMMA One == ASSUME NEW a
             PROVE  <<a>> # <<>> /\ Head(<<a>>) = a /\ Tail(<<a>>) = <<>>
OBVIOUS

LEMMA Two == ASSUME NEW a, NEW b
             PROVE  <<a, b>> # <<>> /\ Head(<<a, b>>) = a /\ Tail(<<a, b>>) = <<b>>
OBVIOUS

LEMMA Three == ASSUME NEW a, NEW b, NEW c
               PROVE  /\ <<a, b, c>> # <<>> /\ Head(<<a, b, c>>) = a
                      /\ Tail(<<a, b, c>>) = <<b, c>>
OBVIOUS

LEMMA Four == ASSUME NEW a, NEW b, NEW c, NEW d
              PROVE  /\ <<a, b, c, d>> # <<>> /\ Head(<<a, b, c, d>>) = a
                     /\ Tail(<<a, b, c, d>>) = <<b, c, d>>
OBVIOUS

LEMMA TwoAndTwo == ASSUME NEW a, NEW b, NEW c, NEW d
                   PROVE  <<a, b>> \o <<c, d>> = <<a, b, c, d>>
<1> DEFINE S == {a, b, c, d}
           s == <<a, b>> \o <<c, d>>
<1>1. <<a, b>> \in Seq(S) /\ <<c, d>> \in Seq(S)
  OBVIOUS
<1>2. s \in Seq(S) /\ Len(s) = 4
  BY <1>1
<1>3. s[1] = a /\ s[2] = b /\ s[3] = c /\ s[4] = d
  BY <1>1
<1> HIDE DEF s
<1>4. s = <<a, b, c, d>>
  BY <1>2, <1>3
<1> QED
  BY <1>4 DEF s

LEMMA OneAndTwo == ASSUME NEW a, NEW c, NEW d PROVE <<a>> \o <<c, d>> = <<a, c, d>>
<1> DEFINE S == {a, c, d}
           s == <<a>> \o <<c, d>>
<1>1. <<a>> \in Seq(S) /\ <<c, d>> \in Seq(S)
  OBVIOUS
<1>2. s \in Seq(S) /\ Len(s) = 3
  BY <1>1
<1>3. s[1] = a /\ s[2] = c /\ s[3] = d
  BY <1>1
<1> HIDE DEF s
<1>4. s = <<a, c, d>>
  BY <1>2, <1>3
<1> QED
  BY <1>4 DEF s

LEMMA AndNone == ASSUME NEW a, NEW b
                 PROVE  <<a, b>> \o <<>> = <<a, b>> /\ <<a>> \o <<>> = <<a>>
<1> DEFINE S == {a, b}
<1>1. <<>> \in Seq(S) /\ <<a, b>> \in Seq(S) /\ <<a>> \in Seq(S)
  OBVIOUS
<1> QED
  BY <1>1

-----------------------------------------------------------------------------
(* The inductive invariant *)

FileNames == PskFiles \cup {"assets", "cursor"}
IsProcess(x) == x = [pc |-> x.pc, mem |-> x.mem, writes |-> x.writes]

FileType ==
    /\ files = [f \in FileNames |-> files[f]]
    /\ \A f \in PskFiles \cup {"assets"} : files[f] \in Torn .. MaxRounds
    /\ files["cursor"] \in Torn .. NAssets

ProverType ==
    /\ IsProcess(prover) /\ prover.mem \in 0 .. MaxRounds
    /\ prover.pc \in {"off", "get", "saving", "saving_fails"}

VerifierType ==
    /\ IsProcess(verifier) /\ verifier.mem \in 0 .. MaxRounds
    /\ verifier.pc \in {"off", "accepted", "run", "saving"}

CountType ==
    /\ round \in 0 .. MaxRounds /\ kind \in {"full", "resumed"} /\ rc \in {0, 1}
    /\ fetched \subseteq 0 .. NAssets - 1

FlagType == {worked, queue_ok, new_session} \subseteq BOOLEAN

\* A round that is about to fetch the asset at the cursor has one there.
AtAsset == prover.pc = "get" /\ kind = "resumed" => read_cursor < NAssets

Types == FileType /\ ProverType /\ VerifierType /\ CountType /\ AtAsset

LEMMA TypesSuffice == Types /\ FlagType => TypeOK
BY DEF Types, FlagType, FileType, ProverType, VerifierType, CountType, TypeOK

Assets == <<"assets", round>>
Cursor(n) == <<"cursor", n>>
Session == <<"session", round>>
ProverPsk == <<"prover_psk", round>>

\* What the prover of a full round still has to write, and what is in the files
\* it has written already.
FullPlan ==
    /\ new_session
    /\ \/ prover.writes = <<Assets, Cursor(0), Session, ProverPsk>>
       \/ /\ files["assets"] = round
          /\ \/ prover.writes = <<Cursor(0), Session, ProverPsk>>
             \/ /\ files["cursor"] = 0
                /\ \/ prover.writes = <<Session, ProverPsk>>
                   \/ /\ files["session"] = round
                      /\ \/ prover.writes = <<ProverPsk>>
                         \/ prover.writes = <<>> /\ files["prover_psk"] = round

\* Without a ticket it writes the queue only.
TicketlessPlan ==
    /\ kind = "full" /\ ~new_session
    /\ prover.writes \in {<<Assets, Cursor(0)>>, <<Cursor(0)>>, <<>>}

\* A resumed round moves the cursor past assets that have been fetched.
ResumedPlan ==
    \/ \E n \in 1 .. NAssets :
          /\ queue_ok => \A i \in 0 .. n - 1 : i \in fetched
          /\ \/ new_session /\ prover.writes = <<Cursor(n), Session, ProverPsk>>
             \/ ~new_session /\ prover.writes = <<Cursor(n)>>
    \/ new_session /\ prover.writes = <<Session, ProverPsk>>
    \/ new_session /\ files["session"] = round /\ prover.writes = <<ProverPsk>>
    \/ /\ prover.writes = <<>>
       /\ new_session => files["session"] = round /\ files["prover_psk"] = round

ProverPlans ==
    /\ prover.pc = "saving" /\ kind = "full" => FullPlan
    /\ prover.pc = "saving_fails" => TicketlessPlan
    /\ prover.pc = "saving" /\ kind = "resumed" => ResumedPlan
    /\ rc = 0 => prover.pc = "off"
    /\ rc = 0 /\ kind = "full" =>
          /\ new_session
          /\ files["assets"] = round /\ files["cursor"] = 0
          /\ files["session"] = round /\ files["prover_psk"] = round

\* The share the verifier saves.
Share == IF new_session THEN round ELSE verifier.mem

VerifierPlans ==
    /\ verifier.pc = "saving" =>
          \/ verifier.writes = << <<"verifier_psk", Share>> >>
          \/ verifier.writes = <<>> /\ files["verifier_psk"] = Share
    /\ worked => verifier.pc = "off" /\ (new_session => files["verifier_psk"] = round)

Inv == Types /\ ProverPlans /\ VerifierPlans /\ NoAssetSkipped

LEMMA InitInv == Init => Inv
<1> SUFFICES ASSUME Init PROVE Inv
  OBVIOUS
<1>1. FileType
  BY HandoffAssumption DEF Init, FileType, FileNames, PskFiles, None, Torn
<1>2. ProverType /\ VerifierType /\ AtAsset
  BY HandoffAssumption DEF Init, ProverType, VerifierType, AtAsset, IsProcess, Off,
                           ZeroShare
<1>3. CountType
  BY HandoffAssumption DEF Init, CountType
<1>4. ProverPlans /\ VerifierPlans /\ NoAssetSkipped
  BY DEF Init, ProverPlans, VerifierPlans, NoAssetSkipped, Off
<1> QED
  BY <1>1, <1>2, <1>3, <1>4 DEF Inv, Types

\* One write of a process changes one file, to Torn or to what was planned.
LEMMA WriteChanges ==
    ASSUME NEW proc, NEW proc2, IsProcess(proc), WriteStep(proc, proc2)
    PROVE  /\ proc.writes # <<>> /\ IsProcess(proc2)
           /\ proc2.pc = proc.pc /\ proc2.mem = proc.mem
           /\ LET w == Head(proc.writes) IN
              \/ /\ files' = [files EXCEPT ![w[1]] = Torn]
                 /\ proc2.writes = proc.writes
              \/ /\ files' = [files EXCEPT ![w[1]] = w[2]]
                 /\ proc2.writes = Tail(proc.writes)
BY DEF WriteStep, IsProcess

LEMMA CursorKept == files' = files => read_cursor' = read_cursor
BY DEF read_cursor, Readable

LEMMA PlansKept ==
    /\ prover'.pc = prover.pc /\ prover'.writes = prover.writes
    /\ UNCHANGED <<files, round, kind, rc, fetched, queue_ok, new_session>>
    /\ ProverPlans
    => ProverPlans'
BY DEF ProverPlans, FullPlan, TicketlessPlan, ResumedPlan, Assets, Cursor, Session,
       ProverPsk

LEMMA StartInv == ASSUME Inv, NEW k \in {"full", "resumed"}, StartRound(k) PROVE Inv'
<1>1. UNCHANGED <<files, fetched, queue_ok>> /\ FileType'
  BY DEF StartRound, Inv, Types, FileType
<1>2. CountType' /\ kind' = k /\ rc' = 1
  <2>1. round' \in 0 .. MaxRounds
    BY HandoffAssumption DEF StartRound, Inv, Types, CountType
  <2>2. kind' = k /\ rc' = 1 /\ fetched' = fetched
    BY DEF StartRound
  <2> QED
    BY <2>1, <2>2 DEF Inv, Types, CountType
<1>3. prover'.pc = "get" /\ verifier'.pc = "accepted" /\ VerifierType'
  BY HandoffAssumption DEF StartRound, Off, VerifierType, IsProcess, ZeroShare
<1>4. k = "resumed" => files["prover_psk"] \in 0 .. MaxRounds
  BY HandoffAssumption DEF StartRound, ResumeStops, Readable, Inv, Types, FileType,
                           PskFiles, None, Torn
<1>5. ProverType'
  <2>1. IsProcess(prover') /\ prover'.pc = "get"
    BY DEF StartRound, Off, IsProcess
  <2>2. prover'.mem = IF k = "resumed" THEN files["prover_psk"] ELSE 0
    BY DEF StartRound, Off, ZeroShare
  <2> QED
    BY <1>4, <2>1, <2>2, HandoffAssumption DEF ProverType
<1>6. k = "resumed" => read_cursor < NAssets
  BY HandoffAssumption DEF StartRound, ResumeStops, read_cursor, Readable, Inv, Types,
                           FileType, None, Torn
<1>7. AtAsset' /\ NoAssetSkipped'
  BY <1>1, <1>2, <1>6, CursorKept DEF AtAsset, NoAssetSkipped, Inv
<1>8. worked' = FALSE
  BY DEF StartRound
<1> QED
  BY <1>1, <1>2, <1>3, <1>5, <1>7, <1>8 DEF Inv, Types, ProverPlans, VerifierPlans

LEMMA LoadInv == ASSUME Inv, LoadShare PROVE Inv'
<1>1. /\ UNCHANGED <<files, prover, round, kind, rc, fetched, queue_ok, new_session>>
      /\ verifier.pc = "accepted" /\ worked' = worked
  BY DEF LoadShare
<1>2. verifier'.pc \in {"off", "run"}
  BY DEF LoadShare, Inv, Types, VerifierType, IsProcess, Off
<1>2a. ~worked
  BY <1>1 DEF Inv, VerifierPlans
<1>3. kind = "resumed" /\ Readable("verifier_psk")
        => files["verifier_psk"] \in 0 .. MaxRounds
  BY DEF Readable, Inv, Types, FileType, PskFiles, None, Torn
<1>4. VerifierType'
  <2>1. IsProcess(verifier')
    BY DEF LoadShare, Inv, Types, VerifierType, IsProcess, Off
  <2>2. verifier'.mem = IF kind = "resumed" /\ Readable("verifier_psk")
                        THEN files["verifier_psk"] ELSE 0
    BY DEF LoadShare, Inv, Types, VerifierType, IsProcess, Off, ZeroShare
  <2> QED
    BY <1>2, <1>3, <2>1, <2>2, HandoffAssumption DEF VerifierType
<1>5. FileType' /\ ProverType' /\ CountType' /\ AtAsset' /\ NoAssetSkipped'
  BY <1>1, CursorKept DEF Inv, Types, FileType, ProverType, CountType, AtAsset,
                          NoAssetSkipped
<1>6. ProverPlans'
  BY <1>1, PlansKept DEF Inv
<1> QED
  BY <1>1, <1>2, <1>2a, <1>4, <1>5, <1>6 DEF Inv, Types, VerifierPlans

\* The plans of a round that ends well.
LEMMA PlansMade ==
    ASSUME NEW outcome \in {"skip", "psk"}
    PROVE  /\ FullWrites(outcome) =
                 IF outcome = "psk" THEN <<Assets, Cursor(0), Session, ProverPsk>>
                                    ELSE <<Assets, Cursor(0)>>
           /\ ResumedWrites(outcome) =
                 IF outcome = "psk" THEN <<Cursor(read_cursor + 1), Session, ProverPsk>>
                                    ELSE <<Cursor(read_cursor + 1)>>
<1> DEFINE c == Cursor(read_cursor + 1)
<1>1. save_prover(round) = <<Session, ProverPsk>>
  BY DEF save_prover, Session, ProverPsk
<1>2. /\ <<Assets, Cursor(0)>> \o <<Session, ProverPsk>>
             = <<Assets, Cursor(0), Session, ProverPsk>>
      /\ <<Assets, Cursor(0)>> \o <<>> = <<Assets, Cursor(0)>>
      /\ <<c>> \o <<Session, ProverPsk>> = <<c, Session, ProverPsk>>
      /\ <<c>> \o <<>> = <<c>>
  <2> HIDE DEF c
  <2> DEFINE z == Cursor(0)
             s == Session
             q == ProverPsk
             t == Assets
  <2> HIDE DEF z, s, q, t
  <2>1. <<t, z>> \o <<s, q>> = <<t, z, s, q>>
    BY TwoAndTwo, Zenon
  <2>2. <<t, z>> \o <<>> = <<t, z>>
    BY AndNone
  <2>3. <<c>> \o <<s, q>> = <<c, s, q>>
    BY OneAndTwo, Zenon
  <2>4. <<c>> \o <<>> = <<c>>
    BY AndNone
  <2> QED
    BY <2>1, <2>2, <2>3, <2>4, Zenon DEF z, s, q, t
<1>3. /\ FullWrites(outcome) = <<Assets, Cursor(0)>>
            \o (IF outcome = "psk" THEN save_prover(round) ELSE <<>>)
      /\ ResumedWrites(outcome) = <<c>>
            \o (IF outcome = "psk" THEN save_prover(round) ELSE <<>>)
  BY DEF FullWrites, ResumedWrites, Assets, Cursor
<1> QED
  BY <1>1, <1>2, <1>3, Zenon

LEMMA ConcludeInv ==
    ASSUME Inv, NEW outcome \in {"fail", "skip", "psk"}, Conclude(outcome) PROVE Inv'
<1>1. /\ UNCHANGED <<files, round, kind, rc, worked, queue_ok>> /\ FileType'
      /\ prover.pc = "get" /\ verifier.pc = "run"
  BY DEF Conclude, Inv, Types, FileType
<1>2. rc # 0 /\ ~worked /\ rc \in {0, 1}
  BY <1>1 DEF Inv, ProverPlans, VerifierPlans, Types, CountType
<1>3. CASE outcome = "fail"
  <2>1. prover' = Off /\ verifier' = Off /\ UNCHANGED <<fetched, new_session>>
    BY <1>3 DEF Conclude
  <2>2. ProverType' /\ VerifierType' /\ AtAsset' /\ prover'.pc = "off" /\ verifier'.pc = "off"
    BY <2>1, HandoffAssumption DEF Off, ProverType, VerifierType, AtAsset, IsProcess, ZeroShare
  <2>3. CountType' /\ NoAssetSkipped'
    BY <1>1, <2>1, CursorKept DEF Inv, Types, CountType, NoAssetSkipped
  <2>4. ProverPlans' /\ VerifierPlans'
    BY <1>1, <1>2, <2>2 DEF ProverPlans, VerifierPlans
  <2> QED
    BY <1>1, <2>2, <2>3, <2>4 DEF Inv, Types
<1>4. CASE outcome # "fail"
  <2>1. /\ prover'.pc = IF ProverRc(outcome) = 0 THEN "saving" ELSE "saving_fails"
        /\ prover'.writes = IF kind = "full" THEN FullWrites(outcome)
                            ELSE ResumedWrites(outcome)
        /\ prover'.mem = prover.mem /\ IsProcess(prover')
    BY <1>4 DEF Conclude, Inv, Types, ProverType, IsProcess
  <2>2. /\ verifier'.pc = "saving" /\ verifier'.writes = save_share(outcome)
        /\ verifier'.mem = verifier.mem /\ IsProcess(verifier')
    BY <1>4 DEF Conclude, Inv, Types, VerifierType, IsProcess
  <2>3. fetched' = IF kind = "full" THEN fetched ELSE fetched \cup {read_cursor}
    BY <1>4 DEF Conclude
  <2>3a. new_session' <=> outcome = "psk"
    BY <1>4, Zenon DEF Conclude
  <2>4. kind \in {"full", "resumed"} /\ (kind = "resumed" => read_cursor \in 0 .. NAssets - 1)
    BY <1>1, HandoffAssumption
       DEF Inv, Types, AtAsset, CountType, FileType, read_cursor, Readable, None, Torn
  <2>5. ProverType' /\ VerifierType' /\ CountType' /\ AtAsset'
    BY <1>1, <2>1, <2>2, <2>3, <2>4 DEF Inv, Types, ProverType, VerifierType, CountType,
                                        AtAsset
  <2>6. NoAssetSkipped'
    BY <1>1, <2>3, CursorKept DEF Inv, NoAssetSkipped
  <2>7. VerifierPlans'
    BY <1>1, <1>2, <2>2, <2>3a DEF VerifierPlans, Share, save_share
  <2>8. ASSUME kind = "full" PROVE ProverPlans'
    <3>1. CASE outcome = "psk"
      <4>1. prover'.pc = "saving" /\ new_session'
            /\ prover'.writes = <<Assets, Cursor(0), Session, ProverPsk>>
        BY <2>1, <2>3a, <2>8, <3>1, PlansMade DEF ProverRc
      <4>2. prover'.writes = <<Assets, Cursor(0), Session, ProverPsk>>'
        BY <1>1, <4>1 DEF Assets, Cursor, Session, ProverPsk
      <4>3. FullPlan'
        BY <4>1, <4>2, Zenon DEF FullPlan
      <4> QED
        BY <1>1, <1>2, <2>8, <4>1, <4>3 DEF ProverPlans
    <3>2. CASE outcome = "skip"
      <4>1. prover'.pc = "saving_fails" /\ ~new_session'
            /\ prover'.writes = <<Assets, Cursor(0)>>
        BY <2>1, <2>3a, <2>8, <3>2, PlansMade DEF ProverRc
      <4>2. prover'.writes = <<Assets, Cursor(0)>>'
        BY <1>1, <4>1 DEF Assets, Cursor
      <4>3. TicketlessPlan'
        BY <1>1, <2>8, <4>1, <4>2, Zenon DEF TicketlessPlan
      <4> QED
        BY <1>1, <1>2, <2>8, <4>1, <4>3 DEF ProverPlans
    <3> QED
      BY <1>4, <3>1, <3>2
  <2>9. ASSUME kind = "resumed" PROVE ProverPlans'
    <3>1. read_cursor + 1 \in 1 .. NAssets
      BY <2>4, <2>9, HandoffAssumption
    <3>2. queue_ok' => \A i \in 0 .. (read_cursor + 1) - 1 : i \in fetched'
      BY <1>1, <2>3, <2>4, <2>9 DEF Inv, NoAssetSkipped
    <3>3. ResumedPlan'
      <4> DEFINE n == read_cursor + 1
      <4>1. \/ new_session' /\ prover'.writes = <<Cursor(n), Session, ProverPsk>>
            \/ ~new_session' /\ prover'.writes = <<Cursor(n)>>
        BY <1>4, <2>1, <2>3a, <2>9, PlansMade
      <4>2. <<Session, ProverPsk>>' = <<Session, ProverPsk>>
        BY <1>1 DEF Session, ProverPsk
      <4>3. <<Cursor(n), Session, ProverPsk>> = <<<<"cursor", n>>, Session', ProverPsk'>>
        BY <4>2 DEF Cursor
      <4>4. n \in 1 .. NAssets /\ (queue_ok' => \A i \in 0 .. n - 1 : i \in fetched')
        BY <3>1, <3>2
      <4> HIDE DEF n
      <4> QED
        BY <4>1, <4>3, <4>4, Zenon DEF ResumedPlan, Cursor
    <3> QED
      BY <1>1, <1>2, <2>1, <2>9, <3>3 DEF ProverPlans, ProverRc
  <2> QED
    BY <1>1, <2>4, <2>5, <2>6, <2>7, <2>8, <2>9 DEF Inv, Types
<1> QED
  BY <1>3, <1>4

LEMMA LeaveInv == ASSUME Inv, ProverLeaves \/ VerifierLeaves PROVE Inv'
<1>1. /\ UNCHANGED <<files, round, kind, rc, worked, fetched, queue_ok, new_session>>
      /\ FileType' /\ CountType' /\ NoAssetSkipped'
  BY CursorKept DEF ProverLeaves, VerifierLeaves, Inv, Types, FileType, CountType,
                    NoAssetSkipped
<1>2. Off.pc = "off" /\ IsProcess(Off) /\ Off.mem \in 0 .. MaxRounds
  BY HandoffAssumption DEF Off, IsProcess, ZeroShare
<1>3. CASE ProverLeaves
  <2>1. prover'.pc = "off" /\ verifier' = verifier /\ ProverType' /\ VerifierType'
    BY <1>2, <1>3 DEF ProverLeaves, Inv, Types, ProverType, VerifierType
  <2>2. AtAsset'
    BY <2>1 DEF AtAsset
  <2>3. ProverPlans'
    BY <1>1, <2>1 DEF Inv, ProverPlans
  <2>4. VerifierPlans'
    BY <1>1, <2>1 DEF Inv, VerifierPlans, Share
  <2> QED
    BY <1>1, <2>1, <2>2, <2>3, <2>4 DEF Inv, Types
<1>4. CASE VerifierLeaves
  <2>1. verifier'.pc = "off" /\ prover' = prover /\ ProverType' /\ VerifierType'
    BY <1>2, <1>4 DEF VerifierLeaves, Inv, Types, ProverType, VerifierType
  <2>2. AtAsset'
    BY <1>1, <2>1, CursorKept DEF AtAsset, Inv, Types
  <2>3. ProverPlans'
    BY <1>1, <2>1, PlansKept DEF Inv
  <2>4. VerifierPlans'
    BY <1>1, <2>1 DEF Inv, VerifierPlans
  <2> QED
    BY <1>1, <2>1, <2>2, <2>3, <2>4 DEF Inv, Types
<1> QED
  BY <1>3, <1>4

LEMMA ExitInv == ASSUME Inv, ProverExits \/ VerifierExits PROVE Inv'
<1>1. /\ UNCHANGED <<files, round, kind, fetched, new_session>>
      /\ FileType'
  BY DEF ProverExits, VerifierExits, Inv, Types, FileType
<1>2. Off.pc = "off" /\ IsProcess(Off) /\ Off.mem \in 0 .. MaxRounds
  BY HandoffAssumption DEF Off, IsProcess, ZeroShare
<1>3. CASE ProverExits
  <2>1. /\ prover'.pc = "off" /\ UNCHANGED <<verifier, worked>>
        /\ ProverType' /\ VerifierType'
    BY <1>2, <1>3 DEF ProverExits, Inv, Types, ProverType, VerifierType
  <2>2. /\ prover.pc \in {"saving", "saving_fails"} /\ prover.writes = <<>>
        /\ rc' = IF prover.pc = "saving" THEN 0 ELSE 1
    BY <1>3 DEF ProverExits
  <2>3. queue_ok' => queue_ok \/ (kind = "full" /\ prover.pc = "saving")
    BY <1>3, Zenon DEF ProverExits
  <2>4. AtAsset' /\ CountType'
    BY <1>1, <2>1, <2>2 DEF AtAsset, Inv, Types, CountType
  <2>5. ASSUME kind = "full", prover.pc = "saving"
        PROVE  /\ new_session /\ files["assets"] = round /\ files["cursor"] = 0
               /\ files["session"] = round /\ files["prover_psk"] = round
    BY <2>2, <2>5, One, Two, Three, Four DEF Inv, ProverPlans, FullPlan
  <2>6. NoAssetSkipped'
    <3>1. CASE queue_ok
      BY <1>1, <3>1, CursorKept DEF Inv, NoAssetSkipped
    <3>2. CASE kind = "full" /\ prover.pc = "saving"
      <4>1. read_cursor = 0
        BY <2>5, <3>2 DEF read_cursor, Readable
      <4> QED
        BY <1>1, <4>1, CursorKept DEF NoAssetSkipped
    <3> QED
      BY <2>3, <3>1, <3>2 DEF NoAssetSkipped
  <2>7. ProverPlans'
    BY <1>1, <2>1, <2>2, <2>5 DEF ProverPlans
  <2>8. VerifierPlans'
    BY <1>1, <2>1 DEF Inv, VerifierPlans, Share
  <2> QED
    BY <1>1, <2>1, <2>4, <2>6, <2>7, <2>8 DEF Inv, Types
<1>4. CASE VerifierExits
  <2>1. /\ verifier'.pc = "off" /\ UNCHANGED <<prover, rc, queue_ok>>
        /\ ProverType' /\ VerifierType' /\ CountType'
    BY <1>1, <1>2, <1>4 DEF VerifierExits, Inv, Types, ProverType, VerifierType, CountType
  <2>2. AtAsset' /\ NoAssetSkipped'
    BY <1>1, <2>1, CursorKept DEF AtAsset, Inv, Types, NoAssetSkipped
  <2>3. ProverPlans'
    BY <1>1, <2>1, PlansKept DEF Inv
  <2>4. new_session => files["verifier_psk"] = round
    BY <1>4, One DEF VerifierExits, Inv, VerifierPlans, Share
  <2>5. VerifierPlans'
    BY <1>1, <2>1, <2>4 DEF VerifierPlans
  <2> QED
    BY <1>1, <2>1, <2>2, <2>3, <2>5 DEF Inv, Types
<1> QED
  BY <1>3, <1>4

\* What the prover may be about to write.
LEMMA HeadOfPlan ==
    ASSUME Inv, prover.pc \in {"saving", "saving_fails"}, prover.writes # <<>>
    PROVE  \/ Head(prover.writes) \in {Assets, Session, ProverPsk}
           \/ \E n \in 0 .. NAssets :
                 /\ Head(prover.writes) = Cursor(n)
                 /\ queue_ok => \A i \in 0 .. n - 1 : i \in fetched
<1>0. 0 \in 0 .. NAssets /\ \A i \in 0 .. 0 - 1 : i \in fetched
  BY HandoffAssumption
<1>1. CASE prover.pc = "saving" /\ kind = "full"
  <2>1. FullPlan
    BY <1>1 DEF Inv, ProverPlans
  <2>2. Head(prover.writes) \in {Assets, Cursor(0), Session, ProverPsk}
    BY <2>1, One, Two, Three, Four DEF FullPlan
  <2> QED
    BY <1>0, <2>2
<1>2. CASE prover.pc = "saving_fails"
  <2>1. TicketlessPlan
    BY <1>2 DEF Inv, ProverPlans
  <2>2. Head(prover.writes) \in {Assets, Cursor(0)}
    BY <2>1, One, Two DEF TicketlessPlan
  <2> QED
    BY <1>0, <2>2
<1>3. CASE prover.pc = "saving" /\ kind = "resumed"
  <2>1. ResumedPlan
    BY <1>3 DEF Inv, ProverPlans
  <2>2. CASE Head(prover.writes) \in {Session, ProverPsk}
    BY <2>2
  <2>3. CASE Head(prover.writes) \notin {Session, ProverPsk}
    <3>1. PICK n \in 1 .. NAssets :
            /\ queue_ok => \A i \in 0 .. n - 1 : i \in fetched
            /\ \/ prover.writes = <<Cursor(n), Session, ProverPsk>>
               \/ prover.writes = <<Cursor(n)>>
      BY <2>1, <2>3, One, Two DEF ResumedPlan
    <3>2. Head(prover.writes) = Cursor(n) /\ n \in 0 .. NAssets
      BY <3>1, One, Three, HandoffAssumption
    <3> QED
      BY <3>1, <3>2
  <2> QED
    BY <2>2, <2>3
<1> QED
  BY <1>1, <1>2, <1>3 DEF Inv, Types, CountType

\* A write leaves the files of the right types, the other side's share alone,
\* and no asset before the cursor that has not been fetched.
LEMMA ProverWritesFiles ==
    ASSUME Inv, ProverWrites
    PROVE  /\ FileType' /\ NoAssetSkipped' /\ CountType'
           /\ files'["verifier_psk"] = files["verifier_psk"]
<1> DEFINE w == Head(prover.writes)
<1>1. /\ prover.pc \in {"saving", "saving_fails"} /\ prover.writes # <<>>
      /\ \/ files' = [files EXCEPT ![w[1]] = Torn]
         \/ files' = [files EXCEPT ![w[1]] = w[2]]
  BY WriteChanges DEF ProverWrites, Inv, Types, ProverType
<1>2. /\ fetched' = IF w[1] = "assets" THEN {} ELSE fetched
      /\ UNCHANGED <<round, kind, rc>>
  BY DEF ProverWrites
<1>3. queue_ok' => queue_ok /\ w[1] # "assets"
  BY Zenon DEF ProverWrites
<1>4. CountType'
  BY <1>2 DEF Inv, Types, CountType
<1>5. round \in 0 .. MaxRounds /\ Torn = -2
  BY DEF Inv, Types, CountType, Torn
<1>6. DOMAIN files = FileNames /\ FileType
  BY DEF Inv, Types, FileType
<1> HIDE DEF w
<1>7. ASSUME w \in {Assets, Session, ProverPsk}
      PROVE  FileType' /\ NoAssetSkipped' /\ files'["verifier_psk"] = files["verifier_psk"]
  <2>1. w[1] \in {"assets", "session", "prover_psk"} /\ w[2] = round
    BY <1>7 DEF Assets, Session, ProverPsk
  <2>2. FileType'
    <3>1. round \in Torn .. MaxRounds /\ Torn \in Torn .. MaxRounds
      BY <1>5, HandoffAssumption
    <3>2. files'["cursor"] = files["cursor"]
      BY <1>1, <1>6, <2>1 DEF FileNames
    <3>3. \A f \in PskFiles \cup {"assets"} : files'[f] \in {files[f], round, Torn}
      BY <1>1, <1>6, <2>1 DEF FileNames, PskFiles
    <3>4. files' = [f \in FileNames |-> files'[f]]
      BY <1>1, <1>6 DEF FileType
    <3> HIDE DEF Torn
    <3> QED
      BY <1>6, <3>1, <3>2, <3>3, <3>4 DEF FileType
  <2>3. files'["cursor"] = files["cursor"] /\ files'["verifier_psk"] = files["verifier_psk"]
    BY <1>1, <1>6, <2>1 DEF FileNames, PskFiles
  <2>4. read_cursor' = read_cursor
    BY <2>3 DEF read_cursor, Readable
  <2>5. NoAssetSkipped'
    BY <1>2, <1>3, <2>4 DEF Inv, NoAssetSkipped
  <2> QED
    BY <2>2, <2>3, <2>5
<1>8. ASSUME NEW n \in 0 .. NAssets, w = Cursor(n),
             queue_ok => \A i \in 0 .. n - 1 : i \in fetched
      PROVE  FileType' /\ NoAssetSkipped' /\ files'["verifier_psk"] = files["verifier_psk"]
  <2>1. w[1] = "cursor" /\ w[2] = n
    BY <1>8 DEF Cursor
  <2>2. FileType'
    BY <1>1, <1>5, <1>6, <2>1, HandoffAssumption DEF FileType, FileNames, PskFiles, Torn
  <2>3. files'["cursor"] \in {Torn, n} /\ files'["verifier_psk"] = files["verifier_psk"]
    BY <1>1, <1>6, <2>1 DEF FileNames, PskFiles
  <2>4. read_cursor' \in {0, n}
    BY <2>3, HandoffAssumption DEF read_cursor, Readable, Torn, None
  <2>5. fetched' = fetched /\ (queue_ok' => \A i \in 0 .. n - 1 : i \in fetched)
    BY <1>2, <1>3, <1>8, <2>1
  <2>6. NoAssetSkipped'
    <3> SUFFICES ASSUME queue_ok', NEW i \in 0 .. read_cursor' - 1 PROVE i \in fetched'
      BY DEF NoAssetSkipped
    <3>1. CASE read_cursor' = n
      BY <2>5, <3>1
    <3>2. CASE read_cursor' = 0
      <4>1. i \in 0 .. 0 - 1
        BY <3>2
      <4> QED
        BY <4>1
    <3> QED
      BY <2>4, <3>1, <3>2
  <2> QED
    BY <2>2, <2>3, <2>6
<1>9. \/ w \in {Assets, Session, ProverPsk}
      \/ \E n \in 0 .. NAssets :
            /\ w = Cursor(n)
            /\ queue_ok => \A i \in 0 .. n - 1 : i \in fetched
  BY <1>1, HeadOfPlan DEF w
<1>10. CASE w \in {Assets, Session, ProverPsk}
  BY <1>4, <1>7, <1>10
<1>11. CASE w \notin {Assets, Session, ProverPsk}
  <2>1. PICK n \in 0 .. NAssets :
          /\ w = Cursor(n)
          /\ queue_ok => \A i \in 0 .. n - 1 : i \in fetched
    BY <1>9, <1>11
  <2> QED
    BY <1>4, <1>8, <2>1
<1> QED
  BY <1>10, <1>11

\* A write takes the prover's plan one entry further, or leaves it.
LEMMA ProverWritesPlans == ASSUME Inv, ProverWrites PROVE ProverPlans'
<1> DEFINE w == Head(prover.writes)
           Same(f) == files'[f] = files[f]
<1>1. /\ prover.pc \in {"saving", "saving_fails"} /\ prover'.pc = prover.pc
      /\ \/ files' = [files EXCEPT ![w[1]] = Torn] /\ prover'.writes = prover.writes
         \/ files' = [files EXCEPT ![w[1]] = w[2]] /\ prover'.writes = Tail(prover.writes)
  BY WriteChanges DEF ProverWrites, Inv, Types, ProverType
<1>2. UNCHANGED <<round, kind, rc, new_session>> /\ prover.writes # <<>>
  BY DEF ProverWrites, WriteStep
<1>3. DOMAIN files = {"session", "prover_psk", "verifier_psk", "assets", "cursor"}
  BY DEF Inv, Types, FileType, FileNames, PskFiles
<1>4. /\ Assets' = Assets /\ Session' = Session /\ ProverPsk' = ProverPsk
      /\ Cursor(0)' = Cursor(0)
  BY <1>2 DEF Assets, Cursor, Session, ProverPsk
<1>5. rc # 0
  BY <1>1 DEF Inv, ProverPlans
<1>6. /\ \A f \in DOMAIN files : f # w[1] => Same(f)
      /\ \/ prover'.writes = prover.writes
         \/ /\ prover'.writes = Tail(prover.writes)
            /\ w[1] \in DOMAIN files => files'[w[1]] = w[2]
  BY <1>1
<1>7. /\ Assets[1] = "assets" /\ Assets[2] = round
      /\ Cursor(0)[1] = "cursor" /\ Cursor(0)[2] = 0
      /\ Session[1] = "session" /\ Session[2] = round
      /\ ProverPsk[1] = "prover_psk" /\ ProverPsk[2] = round
  BY DEF Assets, Cursor, Session, ProverPsk
<1>8. CASE prover.pc = "saving" /\ kind = "full"
  <2>1. FullPlan
    BY <1>8 DEF Inv, ProverPlans
  <2>2. ASSUME prover.writes = <<Assets, Cursor(0), Session, ProverPsk>> PROVE FullPlan'
    <3>1. w = Assets /\ Tail(prover.writes) = <<Cursor(0), Session, ProverPsk>>
      BY <2>2, Four
    <3>2. \/ prover'.writes = <<Assets, Cursor(0), Session, ProverPsk>>
          \/ /\ files'["assets"] = round
             /\ prover'.writes = <<Cursor(0), Session, ProverPsk>>
      BY <1>3, <1>6, <1>7, <2>2, <3>1
    <3> QED
      BY <1>2, <1>4, <2>1, <3>2 DEF FullPlan
  <2>3. ASSUME prover.writes = <<Cursor(0), Session, ProverPsk>>,
               files["assets"] = round
        PROVE  FullPlan'
    <3>1. w = Cursor(0) /\ Tail(prover.writes) = <<Session, ProverPsk>>
      BY <2>3, Three
    <3>2. /\ files'["assets"] = round
          /\ \/ prover'.writes = <<Cursor(0), Session, ProverPsk>>
             \/ files'["cursor"] = 0 /\ prover'.writes = <<Session, ProverPsk>>
      BY <1>3, <1>6, <1>7, <2>3, <3>1
    <3> QED
      BY <1>2, <1>4, <2>1, <3>2 DEF FullPlan
  <2>4. ASSUME prover.writes = <<Session, ProverPsk>>,
               files["assets"] = round,
               files["cursor"] = 0
        PROVE  FullPlan'
    <3>1. w = Session /\ Tail(prover.writes) = <<ProverPsk>>
      BY <2>4, Two
    <3>2. /\ files'["assets"] = round /\ files'["cursor"] = 0
          /\ \/ prover'.writes = <<Session, ProverPsk>>
             \/ files'["session"] = round /\ prover'.writes = <<ProverPsk>>
      BY <1>3, <1>6, <1>7, <2>4, <3>1
    <3> QED
      BY <1>2, <1>4, <2>1, <3>2 DEF FullPlan
  <2>5. ASSUME prover.writes = <<ProverPsk>>,
               files["assets"] = round,
               files["cursor"] = 0,
               files["session"] = round
        PROVE  FullPlan'
    <3>1. w = ProverPsk /\ Tail(prover.writes) = <<>>
      BY <2>5, One
    <3>2. /\ files'["assets"] = round /\ files'["cursor"] = 0
          /\ files'["session"] = round
          /\ \/ prover'.writes = <<ProverPsk>>
             \/ files'["prover_psk"] = round /\ prover'.writes = <<>>
      BY <1>3, <1>6, <1>7, <2>5, <3>1
    <3> QED
      BY <1>2, <1>4, <2>1, <3>2 DEF FullPlan
  <2>6. FullPlan'
    BY <1>2, <2>1, <2>2, <2>3, <2>4, <2>5 DEF FullPlan
  <2> QED
    BY <1>1, <1>2, <1>5, <1>8, <2>6 DEF ProverPlans
<1>9. CASE prover.pc = "saving_fails"
  <2>1. TicketlessPlan
    BY <1>9 DEF Inv, ProverPlans
  <2>2. ASSUME prover.writes = <<Assets, Cursor(0)>>
        PROVE  prover'.writes \in {<<Assets, Cursor(0)>>, <<Cursor(0)>>}
    BY <1>6, <2>2, Two
  <2>3. ASSUME prover.writes = <<Cursor(0)>>
        PROVE  prover'.writes \in {<<Cursor(0)>>, <<>>}
    BY <1>6, <2>3, One
  <2>4. TicketlessPlan'
    BY <1>2, <1>4, <2>1, <2>2, <2>3 DEF TicketlessPlan
  <2> QED
    BY <1>1, <1>2, <1>5, <1>9, <2>4 DEF ProverPlans
<1>10. CASE prover.pc = "saving" /\ kind = "resumed"
  <2>1. ResumedPlan
    BY <1>10 DEF Inv, ProverPlans
  <2>2. ASSUME NEW n \in 1 .. NAssets,
               queue_ok => \A i \in 0 .. n - 1 : i \in fetched,
               \/ new_session /\ prover.writes = <<Cursor(n), Session, ProverPsk>>
               \/ ~new_session /\ prover.writes = <<Cursor(n)>>
        PROVE  ResumedPlan'
    <3>1. w = Cursor(n) /\ w[1] = "cursor" /\ Cursor(n)' = Cursor(n)
      BY <2>2, One, Three DEF Cursor
    <3>2. \/ prover'.writes = prover.writes
          \/ new_session /\ prover'.writes = <<Session, ProverPsk>>
          \/ ~new_session /\ prover'.writes = <<>>
      <4>1. Tail(<<Cursor(n)>>) = <<>>
        BY One
      <4>2. Tail(<<Cursor(n), Session, ProverPsk>>) = <<Session, ProverPsk>>
        BY Three
      <4> QED
        BY <1>6, <2>2, <4>1, <4>2, Zenon
    <3>3. fetched' = fetched /\ queue_ok' = queue_ok
      <4>1. w[1] # "assets"
        BY <3>1
      <4> QED
        BY <4>1, Zenon DEF ProverWrites
    <3>4. CASE prover'.writes = prover.writes
      <4>1. queue_ok' => \A i \in 0 .. n - 1 : i \in fetched'
        BY <2>2, <3>3
      <4>2. \/ new_session' /\ prover'.writes = <<Cursor(n)', Session', ProverPsk'>>
            \/ ~new_session' /\ prover'.writes = <<Cursor(n)'>>
        BY <1>2, <1>4, <2>2, <3>1, <3>4
      <4> QED
        BY <4>1, <4>2 DEF ResumedPlan
    <3>5. CASE new_session /\ prover'.writes = <<Session, ProverPsk>>
      BY <1>2, <1>4, <3>5 DEF ResumedPlan
    <3>6. CASE ~new_session /\ prover'.writes = <<>>
      BY <1>2, <3>6 DEF ResumedPlan
    <3> QED
      BY <3>2, <3>4, <3>5, <3>6
  <2>3. ASSUME new_session, prover.writes = <<Session, ProverPsk>>
        PROVE  ResumedPlan'
    <3>1. w = Session /\ Tail(prover.writes) = <<ProverPsk>>
      BY <2>3, Two
    <3>2. \/ prover'.writes = <<Session, ProverPsk>>
          \/ files'["session"] = round /\ prover'.writes = <<ProverPsk>>
      BY <1>3, <1>6, <1>7, <2>3, <3>1
    <3> QED
      BY <1>2, <1>4, <2>3, <3>2 DEF ResumedPlan
  <2>4. ASSUME new_session, files["session"] = round, prover.writes = <<ProverPsk>>
        PROVE  ResumedPlan'
    <3>1. w = ProverPsk /\ Tail(prover.writes) = <<>>
      BY <2>4, One
    <3>2. /\ files'["session"] = round
          /\ \/ prover'.writes = <<ProverPsk>>
             \/ files'["prover_psk"] = round /\ prover'.writes = <<>>
      BY <1>3, <1>6, <1>7, <2>4, <3>1
    <3> QED
      BY <1>2, <1>4, <2>4, <3>2 DEF ResumedPlan
  <2>5. ResumedPlan'
    BY <1>2, <2>1, <2>2, <2>3, <2>4 DEF ResumedPlan
  <2> QED
    BY <1>1, <1>2, <1>5, <1>10, <2>5 DEF ProverPlans
<1> QED
  BY <1>1, <1>8, <1>9, <1>10 DEF Inv, Types, CountType

LEMMA ProverWritesInv == ASSUME Inv, ProverWrites PROVE Inv'
<1>1. /\ UNCHANGED <<verifier, round, worked, new_session>>
      /\ prover.pc \in {"saving", "saving_fails"}
  BY DEF ProverWrites
<1>2. prover'.pc = prover.pc /\ ProverType'
  BY WriteChanges DEF ProverWrites, Inv, Types, ProverType
<1>3. AtAsset' /\ VerifierType'
  BY <1>1, <1>2 DEF AtAsset, Inv, Types, VerifierType
<1>4. VerifierPlans'
  BY <1>1, ProverWritesFiles DEF Inv, VerifierPlans, Share
<1> QED
  BY <1>2, <1>3, <1>4, ProverWritesFiles, ProverWritesPlans DEF Inv, Types

LEMMA VerifierWritesInv == ASSUME Inv, VerifierWrites PROVE Inv'
<1> DEFINE w == Head(verifier.writes)
<1>1. /\ UNCHANGED <<prover, round, kind, rc, worked, fetched, queue_ok, new_session>>
      /\ verifier.pc = "saving" /\ verifier.writes # <<>>
  BY DEF VerifierWrites, WriteStep
<1>2. /\ verifier'.pc = verifier.pc /\ verifier'.mem = verifier.mem
      /\ IsProcess(verifier')
      /\ \/ files' = [files EXCEPT ![w[1]] = Torn] /\ verifier'.writes = verifier.writes
         \/ /\ files' = [files EXCEPT ![w[1]] = w[2]]
            /\ verifier'.writes = Tail(verifier.writes)
  BY WriteChanges DEF VerifierWrites, Inv, Types, VerifierType
<1>3. verifier.writes = << <<"verifier_psk", Share>> >>
  BY <1>1 DEF Inv, VerifierPlans
<1>4. w = <<"verifier_psk", Share>> /\ Tail(verifier.writes) = <<>>
  BY <1>3, One
<1>5. Share' = Share /\ Share \in 0 .. MaxRounds
  BY <1>1, <1>2 DEF Share, Inv, Types, CountType, VerifierType
<1>6. /\ \A f \in {"session", "prover_psk", "assets", "cursor"} : files'[f] = files[f]
      /\ \/ verifier'.writes = verifier.writes
         \/ verifier'.writes = <<>> /\ files'["verifier_psk"] = Share
  <2>1. w[1] = "verifier_psk" /\ w[2] = Share
    BY <1>4
  <2>2. DOMAIN files = {"session", "prover_psk", "verifier_psk", "assets", "cursor"}
    BY DEF Inv, Types, FileType, FileNames, PskFiles
  <2> HIDE DEF w
  <2> QED
    BY <1>2, <1>4, <2>1, <2>2
<1>7. FileType'
  BY <1>2, <1>4, <1>5, HandoffAssumption
     DEF Inv, Types, FileType, FileNames, PskFiles, Torn
<1>8. VerifierPlans'
  <2>1. ~worked'
    BY <1>1 DEF Inv, VerifierPlans
  <2>2. << <<"verifier_psk", Share'>> >> = verifier.writes
    BY <1>3, <1>5
  <2> QED
    BY <1>5, <1>6, <2>1, <2>2 DEF VerifierPlans
<1>9. read_cursor' = read_cursor
  BY <1>6 DEF read_cursor, Readable
<1>10. CountType' /\ AtAsset' /\ NoAssetSkipped' /\ ProverType' /\ VerifierType'
  BY <1>1, <1>2, <1>9 DEF Inv, Types, CountType, AtAsset, NoAssetSkipped, ProverType,
                          VerifierType
<1>11. ProverPlans'
  BY <1>1, <1>6 DEF Inv, ProverPlans, FullPlan, TicketlessPlan, ResumedPlan, Assets,
                    Cursor, Session, ProverPsk
<1> QED
  BY <1>7, <1>8, <1>10, <1>11 DEF Inv, Types

LEMMA StepInv == Inv /\ Step => Inv'
<1> SUFFICES ASSUME Inv, Step PROVE Inv'
  OBVIOUS
<1>1. CASE UNCHANGED vars
  <2>1. /\ UNCHANGED <<files, prover, verifier, round, kind, rc, worked, fetched, queue_ok,
                       new_session>>
        /\ read_cursor' = read_cursor
    BY <1>1, CursorKept DEF vars
  <2>2. Types' /\ NoAssetSkipped'
    BY <2>1 DEF Inv, Types, FileType, ProverType, VerifierType, CountType, AtAsset,
                NoAssetSkipped
  <2>3. ProverPlans'
    BY <2>1, PlansKept DEF Inv
  <2>4. VerifierPlans'
    BY <2>1 DEF Inv, VerifierPlans, Share
  <2> QED
    BY <2>2, <2>3, <2>4 DEF Inv
<1> QED
  BY <1>1, StartInv, LoadInv, ConcludeInv, LeaveInv, ExitInv, ProverWritesInv,
     VerifierWritesInv DEF Step

LEMMA StepFlags == FlagType /\ Step => FlagType'
<1> SUFFICES ASSUME FlagType, Step PROVE FlagType'
  OBVIOUS
<1>1. worked' \in BOOLEAN
  BY Zenon DEF FlagType, Step, StartRound, LoadShare, Conclude, ProverWrites,
      VerifierWrites, ProverExits, VerifierExits, ProverLeaves, VerifierLeaves, vars
<1>2. queue_ok' \in BOOLEAN
  BY Zenon DEF FlagType, Step, StartRound, LoadShare, Conclude, ProverWrites,
      VerifierWrites, ProverExits, VerifierExits, ProverLeaves, VerifierLeaves, vars
<1>3. new_session' \in BOOLEAN
  BY Zenon DEF FlagType, Step, StartRound, LoadShare, Conclude, ProverWrites,
      VerifierWrites, ProverExits, VerifierExits, ProverLeaves, VerifierLeaves, vars
<1> QED
  BY <1>1, <1>2, <1>3 DEF FlagType

LEMMA InitFlags == Init => FlagType
BY Zenon DEF Init, FlagType

LEMMA InvRepairs == Inv => FullRepairs
BY DEF Inv, ProverPlans, VerifierPlans, FullRepairs, Between, Agree, PskFiles

\* The variables keep their types and the cursor never points past the end of
\* the queue, whoever is killed between any two writes (prover_resumed_round
\* and Roundhandoff.hpp).
THEOREM TypeCorrect == Spec => []TypeOK
<1>1. Init => Inv /\ FlagType
  BY InitInv, InitFlags
<1>2. Inv /\ FlagType /\ [Next]_vars => Inv' /\ FlagType'
  BY NextIsStep, StepInv, StepFlags
<1>3. Inv /\ FlagType => TypeOK
  BY TypesSuffice DEF Inv
<1> QED
  BY <1>1, <1>2, <1>3, PTL DEF Spec

\* Once a full round has reported its queue every asset before the cursor has
\* been fetched: prover_resumed_round writes the cursor after the GET, and
\* prover_full_round the queue before its cursor, for queues of any length and
\* kills at every write.
THEOREM AssetsFetched == Spec => []NoAssetSkipped
<1>1. Inv /\ [Next]_vars => Inv'
  BY NextIsStep, StepInv
<1>2. Inv => NoAssetSkipped
  BY DEF Inv
<1> QED
  BY <1>1, <1>2, InitInv, PTL DEF Spec

\* A full round that both sides call a success leaves a handoff that can be
\* resumed, whatever the rounds before it left (prover_full_round and
\* verifier_round in MultiGet.b.cpp).
THEOREM FullRoundRepairs == Spec => []FullRepairs
<1>1. Inv /\ [Next]_vars => Inv'
  BY NextIsStep, StepInv
<1> QED
  BY <1>1, InitInv, InvRepairs, PTL DEF Spec

-----------------------------------------------------------------------------
(* The clean configuration: nobody is killed, full rounds get a ticket *)

CleanStep ==
    \/ \E k \in {"full", "resumed"} : StartRound(k)
    \/ LoadShare
    \/ \E outcome \in {"fail", "skip", "psk"} :
          (outcome = "skip" => kind # "full") /\ Conclude(outcome)
    \/ PeerGoneStep
    \/ ProverWrites \/ VerifierWrites \/ ProverExits \/ VerifierExits
    \/ UNCHANGED vars

LEMMA CleanNext == [Clean!Next]_vars => CleanStep
<1> SUFFICES ASSUME [Clean!Next]_vars PROVE CleanStep
  OBVIOUS
<1>1. ASSUME NEW k \in {"full", "resumed"}, Clean!StartRound(k) PROVE StartRound(k)
  BY <1>1 DEF Clean!StartRound, StartRound, Clean!ResumeStops, ResumeStops,
      Clean!Readable, Readable, Clean!read_cursor, read_cursor, Clean!None, None,
      Clean!Torn, Torn, Clean!Off, Off, Clean!ZeroShare, ZeroShare
<1>2. ASSUME Clean!LoadShare PROVE LoadShare
  BY <1>2 DEF Clean!LoadShare, LoadShare, Clean!Readable, Readable, Clean!None, None,
      Clean!Torn, Torn, Clean!Off, Off, Clean!ZeroShare, ZeroShare
<1>3. ASSUME NEW outcome \in {"fail", "skip", "psk"}, Clean!Run(outcome)
      PROVE  (outcome = "skip" => kind # "full") /\ Conclude(outcome)
  <2>1. outcome = "skip" => kind # "full"
    BY <1>3 DEF Clean!Run, Clean!Outcomes
  <2>2. Conclude(outcome)
    BY <1>3 DEF Clean!Run, Clean!Conclude, Conclude, Clean!Off, Off, Clean!ProverRc,
        ProverRc, Clean!FullWrites, FullWrites, Clean!ResumedWrites, ResumedWrites,
        Clean!save_prover, save_prover, Clean!save_share, save_share,
        Clean!read_cursor, read_cursor, Clean!Readable, Readable, Clean!None, None,
        Clean!Torn, Torn, Clean!ZeroShare, ZeroShare
  <2> QED
    BY <2>1, <2>2
<1>4. ASSUME Clean!PeerGoneStep PROVE PeerGoneStep
  BY <1>4 DEF Clean!PeerGoneStep, PeerGoneStep, Clean!PeerGone, PeerGone, Clean!Off, Off,
      Clean!ZeroShare, ZeroShare
<1>5. ASSUME Clean!ProverWrites PROVE ProverWrites
  BY <1>5 DEF Clean!ProverWrites, ProverWrites, Clean!WriteStep, WriteStep, Clean!Torn,
      Torn
<1>6. ASSUME Clean!VerifierWrites PROVE VerifierWrites
  BY <1>6 DEF Clean!VerifierWrites, VerifierWrites, Clean!WriteStep, WriteStep,
      Clean!Torn, Torn
<1>7. ASSUME Clean!ProverExits PROVE ProverExits
  BY <1>7 DEF Clean!ProverExits, ProverExits, Clean!Off, Off, Clean!ZeroShare, ZeroShare
<1>8. ASSUME Clean!VerifierExits PROVE VerifierExits
  BY <1>8 DEF Clean!VerifierExits, VerifierExits, Clean!Off, Off, Clean!ZeroShare,
      ZeroShare
<1>9. ~Clean!KillProver /\ ~Clean!KillVerifier
  BY DEF Clean!KillProver, Clean!KillVerifier
<1>10. Clean!Finished => UNCHANGED vars
  BY DEF Clean!Finished, Clean!vars, vars
<1>11. CASE Clean!Next
  BY <1>1, <1>2, <1>3, <1>4, <1>5, <1>6, <1>7, <1>8, <1>9, <1>10, <1>11
     DEF Clean!Next, CleanStep
<1> QED
  BY <1>11 DEF CleanStep

LEMMA CleanIsStep == CleanStep => Step
BY DEF CleanStep, Step, PeerGoneStep, PeerGone, ProverLeaves, VerifierLeaves

Started ==
    <<prover.pc, verifier.pc>> \in
        {<<"off", "off">>, <<"get", "accepted">>, <<"get", "run">>,
         <<"saving", "saving">>, <<"saving", "off">>, <<"off", "saving">>}

\* While the protocol runs the three files are those the round started from,
\* and what the verifier has loaded is one of them.
Loaded ==
    prover.pc = "get" =>
        /\ ~new_session
        /\ kind = "resumed" => Readable("verifier_psk")
        /\ kind = "resumed" /\ verifier.pc = "run" =>
              verifier.mem = before["verifier_psk"]

\* Without a new session nothing changes; with one each side, once it is done,
\* has left the new PSK.
Saved ==
    /\ \A f, g \in PskFiles : before[f] = before[g]
    /\ ~new_session =>
          /\ files["session"] = before["session"]
          /\ files["prover_psk"] = before["prover_psk"]
          /\ verifier.pc = "saving" => verifier.mem = before["verifier_psk"]
          /\ verifier.pc # "saving" => files["verifier_psk"] = before["verifier_psk"]
    /\ new_session =>
          /\ prover.pc = "off" => files["session"] = round /\ files["prover_psk"] = round
          /\ verifier.pc = "off" => files["verifier_psk"] = round

CleanInv == Started /\ Loaded /\ Saved

LEMMA CleanAgree == CleanInv => Consistent /\ SkipKeepsHandoff
BY DEF CleanInv, Saved, Consistent, SkipKeepsHandoff, Between, Agree, PskFiles

LEMMA CleanInit == Init => CleanInv
BY DEF Init, CleanInv, Started, Loaded, Saved, Off, PskFiles

LEMMA CleanStart ==
    ASSUME CleanInv, NEW k \in {"full", "resumed"}, StartRound(k) PROVE CleanInv'
<1>1. /\ prover.pc = "off" /\ verifier.pc = "off" /\ kind' = k
      /\ files' = files /\ before' = files /\ ~new_session'
      /\ prover'.pc = "get" /\ verifier'.pc = "accepted"
  BY DEF StartRound, Off
<1>2. Agree
  BY <1>1, CleanAgree DEF Consistent, Between
<1>3. k = "resumed" => files["session"] \notin {None, Torn}
  BY DEF StartRound, ResumeStops, Readable
<1>4. Started'
  BY <1>1 DEF Started
<1>5. Loaded'
  BY <1>1, <1>2, <1>3 DEF Loaded, Agree, PskFiles, Readable, None, Torn
<1>6. Saved'
  BY <1>1, <1>2 DEF Saved, Agree, PskFiles
<1> QED
  BY <1>4, <1>5, <1>6 DEF CleanInv

LEMMA CleanLoad == ASSUME Inv, CleanInv, LoadShare PROVE CleanInv'
<1>1. /\ UNCHANGED <<files, prover, round, kind, before, new_session>>
      /\ verifier.pc = "accepted"
  BY DEF LoadShare
<1>2. prover.pc = "get" /\ ~new_session
  BY <1>1 DEF CleanInv, Started, Loaded
<1>3. kind = "resumed" => Readable("verifier_psk")
  BY <1>2 DEF CleanInv, Loaded
<1>4. /\ verifier'.pc = "run"
      /\ kind = "resumed" => verifier'.mem = files["verifier_psk"]
  BY <1>3 DEF LoadShare, Inv, Types, VerifierType, IsProcess
<1>5. files["verifier_psk"] = before["verifier_psk"]
  BY <1>1, <1>2 DEF CleanInv, Saved
<1>6. Started' /\ Loaded'
  BY <1>1, <1>2, <1>3, <1>4, <1>5 DEF Started, Loaded, Readable, None, Torn
<1>7. Saved'
  BY <1>1, <1>2, <1>4, <1>5 DEF CleanInv, Saved
<1> QED
  BY <1>6, <1>7 DEF CleanInv

LEMMA CleanConclude ==
    ASSUME Inv, CleanInv, NEW outcome \in {"fail", "skip", "psk"},
           outcome = "skip" => kind # "full", Conclude(outcome)
    PROVE  CleanInv'
<1>1. /\ UNCHANGED <<files, round, kind, before>>
      /\ prover.pc = "get" /\ verifier.pc = "run"
  BY DEF Conclude
<1>2. ~new_session /\ kind \in {"full", "resumed"}
  BY <1>1 DEF CleanInv, Loaded, Inv, Types, CountType
<1>3. /\ files["session"] = before["session"]
      /\ files["prover_psk"] = before["prover_psk"]
      /\ files["verifier_psk"] = before["verifier_psk"]
      /\ \A f, g \in PskFiles : before[f] = before[g]
  BY <1>1, <1>2 DEF CleanInv, Saved
<1>4. CASE outcome = "fail"
  <2>1. /\ prover'.pc = "off" /\ verifier'.pc = "off" /\ ~new_session'
    BY <1>2, <1>4 DEF Conclude, Off
  <2>2. Started' /\ Loaded'
    BY <2>1 DEF Started, Loaded
  <2>3. Saved'
    BY <1>1, <1>3, <2>1 DEF Saved
  <2> QED
    BY <2>2, <2>3 DEF CleanInv
<1>5. CASE outcome # "fail"
  <2>1. /\ prover'.pc = "saving" /\ verifier'.pc = "saving"
        /\ verifier'.mem = verifier.mem
    BY <1>5 DEF Conclude, ProverRc, Inv, Types, ProverType, VerifierType, IsProcess
  <2>2. new_session' <=> outcome = "psk"
    BY <1>5, Zenon DEF Conclude
  <2>3. ~new_session' => verifier.mem = before["verifier_psk"]
    BY <1>1, <1>2, <1>5, <2>2 DEF CleanInv, Loaded
  <2>4. Started' /\ Loaded'
    BY <2>1 DEF Started, Loaded
  <2>5. Saved'
    BY <1>1, <1>3, <2>1, <2>3 DEF Saved
  <2> QED
    BY <2>4, <2>5 DEF CleanInv
<1> QED
  BY <1>4, <1>5

LEMMA CleanPeer == CleanInv => ~PeerGone
BY DEF CleanInv, Started, PeerGone

LEMMA CleanProverWrites == ASSUME Inv, CleanInv, ProverWrites PROVE CleanInv'
<1> DEFINE w == Head(prover.writes)
<1>1. /\ UNCHANGED <<verifier, round, kind, before, new_session>>
      /\ prover.pc \in {"saving", "saving_fails"} /\ prover.writes # <<>>
  BY DEF ProverWrites, WriteStep
<1>2. /\ prover'.pc = prover.pc
      /\ \/ files' = [files EXCEPT ![w[1]] = Torn]
         \/ files' = [files EXCEPT ![w[1]] = w[2]]
  BY WriteChanges DEF ProverWrites, Inv, Types, ProverType
<1>3. prover.pc = "saving"
  BY <1>1 DEF CleanInv, Started
<1>4. Started' /\ Loaded'
  BY <1>1, <1>2, <1>3 DEF CleanInv, Started, Loaded
<1>5. DOMAIN files = {"session", "prover_psk", "verifier_psk", "assets", "cursor"}
  BY DEF Inv, Types, FileType, FileNames, PskFiles
<1>6. files'["verifier_psk"] = files["verifier_psk"]
  BY ProverWritesFiles
<1>7. CASE new_session
  BY <1>1, <1>2, <1>3, <1>4, <1>6, <1>7 DEF CleanInv, Saved
<1>8. CASE ~new_session
  <2>1. PICK n \in 1 .. NAssets : prover.writes = <<Cursor(n)>>
    BY <1>1, <1>3, <1>8 DEF Inv, ProverPlans, FullPlan, ResumedPlan, Types, CountType
  <2>2. w[1] = "cursor"
    BY <2>1, One DEF Cursor
  <2> HIDE DEF w
  <2>3. files'["session"] = files["session"] /\ files'["prover_psk"] = files["prover_psk"]
    BY <1>2, <1>5, <2>2
  <2> QED
    BY <1>1, <1>4, <1>6, <1>8, <2>3 DEF CleanInv, Saved
<1> QED
  BY <1>7, <1>8

LEMMA CleanVerifierWrites == ASSUME Inv, CleanInv, VerifierWrites PROVE CleanInv'
<1> DEFINE w == Head(verifier.writes)
<1>1. /\ UNCHANGED <<prover, round, kind, before, new_session>>
      /\ verifier.pc = "saving" /\ verifier.writes # <<>>
  BY DEF VerifierWrites, WriteStep
<1>2. /\ verifier'.pc = verifier.pc /\ verifier'.mem = verifier.mem
      /\ \/ files' = [files EXCEPT ![w[1]] = Torn]
         \/ files' = [files EXCEPT ![w[1]] = w[2]]
  BY WriteChanges DEF VerifierWrites, Inv, Types, VerifierType
<1>3. w[1] = "verifier_psk"
  BY <1>1, One DEF Inv, VerifierPlans
<1>4. DOMAIN files = {"session", "prover_psk", "verifier_psk", "assets", "cursor"}
  BY DEF Inv, Types, FileType, FileNames, PskFiles
<1> HIDE DEF w
<1>5. files'["session"] = files["session"] /\ files'["prover_psk"] = files["prover_psk"]
  BY <1>2, <1>3, <1>4
<1>6. Started' /\ prover.pc # "get"
  BY <1>1, <1>2 DEF CleanInv, Started
<1>7. Loaded' /\ Saved'
  BY <1>1, <1>2, <1>5, <1>6 DEF CleanInv, Loaded, Saved
<1> QED
  BY <1>6, <1>7 DEF CleanInv

LEMMA CleanExits == ASSUME Inv, CleanInv, ProverExits \/ VerifierExits PROVE CleanInv'
<1>1. UNCHANGED <<files, round, kind, before, new_session>>
  BY DEF ProverExits, VerifierExits
<1>2. CASE ProverExits
  <2>1. /\ prover'.pc = "off" /\ verifier' = verifier /\ prover.writes = <<>>
        /\ prover.pc \in {"saving", "saving_fails"}
    BY <1>2 DEF ProverExits, Off
  <2>2. prover.pc = "saving" /\ Started' /\ Loaded'
    BY <2>1 DEF CleanInv, Started, Loaded
  <2>3. new_session => files["session"] = round /\ files["prover_psk"] = round
    BY <2>1, <2>2, One, Two, Three, Four
       DEF Inv, ProverPlans, FullPlan, ResumedPlan, Types, CountType
  <2> QED
    BY <1>1, <2>1, <2>2, <2>3 DEF CleanInv, Saved
<1>3. CASE VerifierExits
  <2>1. /\ verifier'.pc = "off" /\ prover' = prover
        /\ verifier.pc = "saving" /\ verifier.writes = <<>>
    BY <1>3 DEF VerifierExits, Off
  <2>2. prover.pc # "get" /\ Started' /\ Loaded'
    BY <2>1 DEF CleanInv, Started, Loaded
  <2>3. files["verifier_psk"] = Share
    BY <2>1, One DEF Inv, VerifierPlans
  <2> QED
    BY <1>1, <2>1, <2>2, <2>3 DEF CleanInv, Saved, Share
<1> QED
  BY <1>2, <1>3

LEMMA CleanStepInv == Inv /\ CleanInv /\ CleanStep => CleanInv'
<1> SUFFICES ASSUME Inv, CleanInv, CleanStep PROVE CleanInv'
  OBVIOUS
<1>1. CASE UNCHANGED vars
  BY <1>1 DEF vars, CleanInv, Started, Loaded, Saved, Readable, None, Torn
<1>2. ~PeerGoneStep
  BY CleanPeer DEF PeerGoneStep
<1> QED
  BY <1>1, <1>2, CleanStart, CleanLoad, CleanConclude, CleanProverWrites,
     CleanVerifierWrites, CleanExits DEF CleanStep

-----------------------------------------------------------------------------
(* Both configurations *)

LEMMA KilledNext == Inv /\ [Killed!Next]_vars => Step
<1> SUFFICES ASSUME Inv, [Killed!Next]_vars PROVE Step
  OBVIOUS
<1>1. ASSUME NEW k \in {"full", "resumed"}, Killed!StartRound(k) PROVE StartRound(k)
  <2>1. round < MaxRounds
    BY <1>1, HandoffAssumption DEF Killed!StartRound, Inv, Types, CountType
  <2> QED
    BY <1>1, <2>1 DEF Killed!StartRound, StartRound, Killed!ResumeStops, ResumeStops,
      Killed!Readable, Readable, Killed!read_cursor, read_cursor, Killed!None, None,
      Killed!Torn, Torn, Killed!Off, Off, Killed!ZeroShare, ZeroShare
<1>2. ASSUME Killed!LoadShare PROVE LoadShare
  BY <1>2 DEF Killed!LoadShare, LoadShare, Killed!Readable, Readable, Killed!None, None,
      Killed!Torn, Torn, Killed!Off, Off, Killed!ZeroShare, ZeroShare
<1>3. ASSUME NEW outcome \in {"fail", "skip", "psk"}, Killed!Run(outcome)
      PROVE  Conclude(outcome)
  BY <1>3 DEF Killed!Run, Killed!Conclude, Conclude, Killed!Off, Off, Killed!ProverRc,
      ProverRc, Killed!FullWrites, FullWrites, Killed!ResumedWrites, ResumedWrites,
      Killed!save_prover, save_prover, Killed!save_share, save_share,
      Killed!read_cursor, read_cursor, Killed!Readable, Readable, Killed!None, None,
      Killed!Torn, Torn, Killed!ZeroShare, ZeroShare
<1>4. ASSUME Killed!PeerGoneStep \/ Killed!KillProver \/ Killed!KillVerifier
      PROVE  ProverLeaves \/ VerifierLeaves
  BY <1>4 DEF Killed!PeerGoneStep, Killed!PeerGone, Killed!KillProver,
      Killed!KillVerifier, ProverLeaves, VerifierLeaves, Killed!Off, Off,
      Killed!ZeroShare, ZeroShare
<1>5. ASSUME Killed!ProverWrites PROVE ProverWrites
  BY <1>5 DEF Killed!ProverWrites, ProverWrites, Killed!WriteStep, WriteStep,
      Killed!Torn, Torn
<1>6. ASSUME Killed!VerifierWrites PROVE VerifierWrites
  BY <1>6 DEF Killed!VerifierWrites, VerifierWrites, Killed!WriteStep, WriteStep,
      Killed!Torn, Torn
<1>7. ASSUME Killed!ProverExits PROVE ProverExits
  BY <1>7 DEF Killed!ProverExits, ProverExits, Killed!Off, Off, Killed!ZeroShare,
      ZeroShare
<1>8. ASSUME Killed!VerifierExits PROVE VerifierExits
  BY <1>8 DEF Killed!VerifierExits, VerifierExits, Killed!Off, Off, Killed!ZeroShare,
      ZeroShare
<1>9. Killed!Finished => UNCHANGED vars
  BY DEF Killed!Finished, Killed!vars, vars
<1>10. CASE Killed!Next
  BY <1>1, <1>2, <1>3, <1>4, <1>5, <1>6, <1>7, <1>8, <1>9, <1>10 DEF Killed!Next, Step
<1> QED
  BY <1>10 DEF Step

MCInv ==
    /\ Inv /\ FlagType
    /\ conf \in {"clean", "killed"} /\ (conf = "clean" => CleanInv)

LEMMA MCInitInv == MCInit => MCInv
<1>1. Clean!Init => Init
  BY DEF Clean!Init, Init, Clean!None, None, Clean!Off, Off, Clean!ZeroShare, ZeroShare
<1>2. Killed!Init => Init
  BY DEF Killed!Init, Init, Killed!None, None, Killed!Off, Off, Killed!ZeroShare,
         ZeroShare
<1> QED
  BY <1>1, <1>2, InitInv, InitFlags, CleanInit DEF MCInit, MCInv

LEMMA MCStepInv == MCInv /\ [MCNext]_mcvars => MCInv'
<1> SUFFICES ASSUME MCInv, [MCNext]_mcvars PROVE MCInv'
  OBVIOUS
<1>1. conf' = conf
  BY DEF MCNext, mcvars
<1>2. CASE conf = "clean"
  <2>1. [Clean!Next]_vars
    BY <1>2 DEF MCNext, mcvars
  <2>2. CleanStep
    BY <2>1, CleanNext
  <2> QED
    BY <1>1, <1>2, <2>2, CleanIsStep, StepInv, StepFlags, CleanStepInv DEF MCInv
<1>3. CASE conf = "killed"
  <2>1. [Killed!Next]_vars
    BY <1>3 DEF MCNext, mcvars
  <2> QED
    BY <1>1, <1>3, <2>1, KilledNext, StepInv, StepFlags DEF MCInv
<1> QED
  BY <1>2, <1>3 DEF MCInv

\* While nobody is killed, the ticket and the two shares that two processes
\* write without talking to each other are of one PSK between any two rounds,
\* and a round without a new session leaves them as they were (save_prover,
\* save_verifier and GetResult::new_session).
THEOREM CleanRoundsAgree == MCSpec => []CleanHandoff
<1>1. MCInv => CleanHandoff
  BY TypesSuffice, CleanAgree DEF MCInv, Inv, CleanHandoff
<1> QED
  BY <1>1, MCInitInv, MCStepInv, PTL DEF MCSpec

\* Under both configurations no asset is passed over and a successful full round
\* repairs the handoff (prover_resumed_round, prover_full_round).
THEOREM BothConfigurations == MCSpec => [](NoAssetSkipped /\ FullRepairs)
<1>1. MCInv => NoAssetSkipped /\ FullRepairs
  BY InvRepairs DEF MCInv, Inv
<1> QED
  BY <1>1, MCInitInv, MCStepInv, PTL DEF MCSpec
=============================================================================
