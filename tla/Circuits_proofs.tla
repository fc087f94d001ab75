-------------------------- MODULE Circuits_proofs --------------------------
(***************************************************************************)
(* Proofs about Circuits, for every mode, every number of preprocessed     *)
(* runs and every bound on the requests.  They take CircuitsAssumption as  *)
(* a hypothesis, which MCEmp assumes of its two instances.                 *)
(***************************************************************************)
EXTENDS Circuits, TLAPS

P == "prover"
V == "verifier"
PskCircuits == {"psk", "psk_8", "psk_0"}

-----------------------------------------------------------------------------
(* The material: it is enough to look at the prover, whose online phases    *)
(* and preprocessings are also the verifier's.                              *)

\* A run that uses up a preprocessed instance is counted once it has ended.
Pending(c) == IF at[P] = "output" /\ c = Cur(P) THEN 1 ELSE 0

Counted ==
    /\ uses[P] = uses[V] /\ exec_times[P] = exec_times[V]
    /\ \A c \in Amortized :
          /\ uses[P][c] = run_times[P][c] + Pending(c) /\ exec_times[P][c] = uses[P][c]
          /\ uses[P][c] <= Iters[c]
    /\ \A c \in Single :
          run_times[P][c] = 0 /\ exec_times[P][c] = 0 /\ uses[P][c] <= 1

InPlace ==
    /\ at[P] # "enter" =>
          pc[P] \in {"run", "fail"} /\ todo[P] # <<>> /\ Cur(P) \in Amortized
    /\ at[P] = "online" => run_times[P][Cur(P)] = 0
    /\ pc[P] = "idle" => todo[P] = <<>>

\* A single circuit that is still to be run has not been run.
Once ==
    /\ pc[P] = "setup" => \A c \in Single : uses[P][c] = 0
    /\ pc[P] = "run" =>
          \A i, j \in 1 .. Len(todo[P]) :
              todo[P][i] \in Single =>
                  uses[P][todo[P][i]] = 0 /\ (todo[P][j] = todo[P][i] => j = i)
    /\ psk => /\ \A c \in PskCircuits : uses[P][c] = 0
              /\ pc[P] = "run" => \A i \in 1 .. Len(todo[P]) : todo[P][i] \notin PskCircuits

\* Zeros pass in the handshake, which ends with another circuit, and in a
\* rotation; and after them nothing gets through.
Lost ==
    /\ pc[P] = "setup" => cur.name = "HANDSHAKE" /\ ~tainted
    /\ pc[P] = "run" /\ todo[P] # <<>> =>
          /\ cur.name = "HANDSHAKE" => todo[P][Len(todo[P])] = "rms"
          /\ cur.name \notin {"HANDSHAKE", "ROTATE_KEY"} =>
                \A i \in 1 .. Len(todo[P]) : todo[P][i] \notin ZeroPasses
    /\ tainted =>
          /\ ~up /\ at[P] = "enter"
          /\ cur.name # "ROTATE_KEY" => pc[P] = "fail" \/ (pc[P] = "run" /\ todo[P] # <<>>)

\* The requests.
Reqs == [name : ReqNames, c : Circuit \cup {""}, n : Nat]

\* TypeOK but for the flags.
Data ==
    /\ pc \in [Party -> {"setup", "run", "idle", "done", "fail"}]
    /\ todo \in [Party -> Seq(Circuit)]
    /\ at \in [Party -> {"enter", "online", "output"}]
    /\ run_times \in [Party -> [Circuit -> Nat]]
    /\ exec_times \in [Party -> [Circuit -> Nat]]
    /\ uses \in [Party -> [Circuit -> Nat]]
    /\ hdr \in Seq(Reqs)
    /\ out \in Seq(Circuit) /\ ops \in 0 .. MaxOps

Flags == {up, psk, tainted} \subseteq BOOLEAN

\* A request in flight asks for circuits.
InFlight ==
    \A i \in 1 .. Len(hdr) :
        hdr[i].name # "STOP" => Runs(hdr[i]) \in Seq(Circuit) \ {<<>>}

Material == Data /\ Counted /\ InPlace /\ Once /\ Lost

-----------------------------------------------------------------------------
(* How the two parties stand to each other *)

Rest(q) == todo[q] = <<>> /\ at[q] = "enter" /\ pc[q] \in {"run", "idle"}
Quiet == hdr = <<>> /\ out = <<>>
SameCounts == run_times[P] = run_times[V]
Over == \E q \in Party : pc[q] \in {"fail", "done"}

Even ==
    /\ todo[P] = todo[V] /\ at[P] = at[V] /\ SameCounts /\ Quiet
    /\ \/ pc[P] = "setup" /\ pc[V] = "setup" /\ at[P] = "enter"
       \/ pc[P] = "run" /\ pc[V] = "run"
       \/ Rest(P) /\ Rest(V)

\* One party has started the handshake, the other is about to.
HalfSetup(q, r) ==
    /\ pc[q] = "setup" /\ todo[q] = <<>> /\ at[q] = "enter"
    /\ pc[r] = "run" /\ todo[r] = Handshake /\ at[r] = "enter"
    /\ SameCounts /\ Quiet

\* q has ended the run that r is still in.
Ahead(q, r) ==
    /\ pc[r] = "run" /\ at[r] = "output" /\ todo[r] # <<>>
    /\ todo[q] = Tail(todo[r]) /\ at[q] = "enter" /\ (pc[q] = "run" \/ Rest(q))
    /\ run_times[q] = [run_times[r] EXCEPT ![Cur(r)] = @ + 1]
    /\ hdr = <<>>

VerifierAhead == Ahead(V, P) /\ (out = <<Cur(P)>> \/ (out = <<>> /\ ~up))
ProverAhead == Ahead(P, V) /\ out = <<>> /\ ~up

\* A request is under way.
Asked ==
    /\ pc[P] = "run" /\ at[P] = "enter" /\ todo[P] # <<>>
    /\ hdr # <<>> /\ Tail(hdr) = <<>> /\ Head(hdr).name # "STOP"
    /\ todo[P] = Runs(Head(hdr))
    /\ Rest(V) /\ SameCounts /\ out = <<>>

\* The connection is dead, and the verifier has nothing to do on it.
Stopped ==
    /\ ~up /\ hdr = <<>> /\ pc[V] \in {"run", "idle"}
    /\ todo[V] = <<>> \/ (at[V] = "output" /\ Tail(todo[V]) = <<>>)

Standing ==
    \/ Over \/ Even \/ HalfSetup(P, V) \/ HalfSetup(V, P)
    \/ VerifierAhead \/ ProverAhead \/ Asked \/ Stopped

-----------------------------------------------------------------------------
(* Sequences, records and the circuits a request runs *)

USE DEF P, V

LEMMA HeadTail ==
    ASSUME NEW S, NEW s \in Seq(S), s # <<>>
    PROVE  /\ Len(s) \in Nat \ {0} /\ Head(s) = s[1] /\ s[1] \in S
           /\ Tail(s) \in Seq(S) /\ Len(Tail(s)) = Len(s) - 1
           /\ \A i \in 1 .. Len(s) - 1 : Tail(s)[i] = s[i + 1]
OBVIOUS

LEMMA OneOf ==
    ASSUME NEW x PROVE <<x>> # <<>> /\ Head(<<x>>) = x /\ Tail(<<x>>) = <<>>
OBVIOUS

LEMMA Appended == ASSUME NEW x PROVE Append(<<>>, x) = <<x>>
<1> DEFINE e == <<>>
           s == Append(e, x)
<1>1. e \in Seq({x}) /\ Len(e) = 0
  OBVIOUS
<1> HIDE DEF e
<1>2. s \in Seq({x}) /\ Len(s) = 1 /\ s[1] = x
  BY <1>1
<1> HIDE DEF s
<1>3. s = <<x>>
  BY <1>2
<1> QED
  BY <1>3 DEF s, e

LEMMA NonEmptySeq == ASSUME NEW S, NEW s \in Seq(S), Len(s) > 0 PROVE s # <<>>
OBVIOUS

LEMMA TailEmpty == ASSUME NEW S, NEW s \in Seq(S), s # <<>>, Len(s) > 1 PROVE Tail(s) # <<>>
<1>1. Tail(s) \in Seq(S) /\ Len(Tail(s)) > 0
  BY HeadTail
<1> QED
  BY <1>1, NonEmptySeq

LEMMA ItersType == ASSUME CircuitsAssumption PROVE \A c \in Amortized : Iters[c] \in Nat \ {0}
BY DEF CircuitsAssumption, Amortized, Iters

LEMMA Kinds == /\ Circuit = Single \cup Amortized /\ Single \cap Amortized = {}
               /\ PskCircuits \subseteq Single /\ ZeroPasses \subseteq Amortized
               /\ "rms" \in Single
BY DEF Circuit, Single, Amortized, PskCircuits, ZeroPasses

LEMMA RequestRuns ==
    ASSUME CircuitsAssumption, NEW op \in Requests
    PROVE  /\ op \in Reqs /\ op.name \notin {"HANDSHAKE", "STOP"}
           /\ Runs(op) \in Seq(Circuit) /\ Runs(op) # <<>>
           /\ op.name = "DERIVE_PSK" => psk /\ Len(Runs(op)) = 1
           /\ op.name # "DERIVE_PSK" =>
                 \A i \in 1 .. Len(Runs(op)) : Runs(op)[i] \in Amortized
           /\ op.name # "ROTATE_KEY" =>
                 \A i \in 1 .. Len(Runs(op)) : Runs(op)[i] \notin ZeroPasses
           /\ op.name = "DERIVE_PSK" => Runs(op)[1] \in PskCircuits
<1>1. MaxBatches \in Nat
  BY DEF CircuitsAssumption
<1>2. /\ op = [name |-> op.name, c |-> op.c, n |-> op.n]
      /\ op.name \in {"AES_ENC", "GCM_TAG", "GCM_VERIFY", "KS_DERIVE", "ROTATE_KEY",
                       "DERIVE_PSK"}
      /\ op.n \in Nat \ {0} /\ op.c \in Circuit
      /\ op.name \notin {"ROTATE_KEY", "DERIVE_PSK"} => op.c \in {"enc", "tag", "vfy", "ks"}
      /\ op.name = "DERIVE_PSK" => psk /\ op.n = 1 /\ op.c \in PskCircuits
  BY <1>1 DEF Requests, Req, PskAllowed, PskCircuits, Circuit, Single, Amortized
<1>3. op \in Reqs
  BY <1>2 DEF Reqs, ReqNames
<1>4. ASSUME op.name # "ROTATE_KEY"
      PROVE  /\ Runs(op) \in Seq(Circuit) /\ Len(Runs(op)) = op.n
             /\ \A i \in 1 .. op.n : Runs(op)[i] = op.c
  BY <1>2, <1>4 DEF Runs, Times
<1>5. ASSUME op.name = "ROTATE_KEY"
      PROVE  /\ Runs(op) \in Seq(Circuit) /\ Len(Runs(op)) = 2
             /\ Runs(op)[1] = "rotate" /\ Runs(op)[2] = "gcm"
  BY <1>5 DEF Runs, Circuit, Amortized
<1>6. CASE op.name = "ROTATE_KEY"
  <2> DEFINE r == Runs(op)
  <2>0. Len(r) = 2 /\ \A i \in 1 .. 2 : i = 1 \/ i = 2
    BY <1>5, <1>6
  <2>1. \A i \in 1 .. Len(r) : i = 1 \/ i = 2
    BY <2>0, Zenon
  <2>2. "rotate" \in Amortized /\ "gcm" \in Amortized
    BY DEF Amortized
  <2>3. r # <<>>
    BY <1>5, <1>6
  <2> HIDE DEF r
  <2>4. \A i \in 1 .. Len(r) : r[i] \in Amortized
    BY <1>5, <1>6, <2>1, <2>2 DEF r
  <2> QED
    BY <1>2, <1>3, <1>5, <1>6, <2>3, <2>4 DEF r
<1>7. CASE op.name # "ROTATE_KEY"
  <2>1. Runs(op) # <<>>
    BY <1>2, <1>4, <1>7
  <2>2. op.name # "DERIVE_PSK" => op.c \in Amortized
    BY <1>2, <1>7 DEF Amortized
  <2>3. op.c \notin ZeroPasses
    BY <1>2, <1>7 DEF ZeroPasses, PskCircuits
  <2> QED
    BY <1>2, <1>3, <1>4, <1>7, <2>1, <2>2, <2>3
<1> QED
  BY <1>6, <1>7

LEMMA HandshakeRuns ==
    ASSUME CircuitsAssumption
    PROVE  /\ Handshake \in Seq(Circuit) /\ Handshake # <<>>
           /\ Handshake[Len(Handshake)] = "rms"
           /\ \A i \in 1 .. Len(Handshake) : Handshake[i] \notin PskCircuits
           /\ \A i, j \in 1 .. Len(Handshake) :
                 Handshake[i] \in Single /\ Handshake[i] = Handshake[j] => i = j
<1> DEFINE h == <<"hs", "ts", "gcm", "gcm", "rms">>
           s == <<"binder">> \o h
<1>1. h \in Seq(Circuit) /\ <<"binder">> \in Seq(Circuit) /\ <<>> \in Seq(Circuit)
  BY DEF Circuit, Single, Amortized
<1>2. s \in Seq(Circuit) /\ Len(s) = 6
  BY <1>1
<1>3. /\ s[1] = "binder" /\ s[2] = "hs" /\ s[3] = "ts" /\ s[4] = "gcm"
      /\ s[5] = "gcm" /\ s[6] = "rms"
  BY <1>1
<1>4. /\ h[1] = "hs" /\ h[2] = "ts" /\ h[3] = "gcm" /\ h[4] = "gcm" /\ h[5] = "rms"
      /\ Len(h) = 5
  OBVIOUS
<1>5. <<>> \o h = h
  BY <1>1
<1> HIDE DEF h, s
<1>6. CASE Resumed
  <2>1. Handshake = s
    BY <1>6 DEF Handshake, s, h
  <2>2. \A i \in 1 .. 6 : i \in {1, 2, 3, 4, 5, 6}
    OBVIOUS
  <2>3. /\ \A i \in 1 .. 6 : s[i] \notin PskCircuits
        /\ \A i, j \in 1 .. 6 : s[i] \in Single /\ s[i] = s[j] => i = j
    BY <1>3, <2>2 DEF PskCircuits, Single
  <2>4. Len(Handshake) = 6 /\ Len(Handshake) > 0
    BY <1>2, <1>3, <2>1
  <2>5. /\ \A i \in 1 .. Len(Handshake) : Handshake[i] \notin PskCircuits
        /\ \A i, j \in 1 .. Len(Handshake) :
              Handshake[i] \in Single /\ Handshake[i] = Handshake[j] => i = j
    BY <2>1, <2>3, <2>4, Zenon
  <2>6. Handshake \in Seq(Circuit) /\ Handshake[6] = "rms"
    BY <1>2, <1>3, <2>1
  <2>7. Handshake # <<>>
    BY <2>4, <2>6, NonEmptySeq
  <2> QED
    BY <2>4, <2>5, <2>6, <2>7
<1>7. CASE ~Resumed
  <2>1. Handshake = h
    BY <1>5, <1>7 DEF Handshake, h
  <2>2. \A i \in 1 .. 5 : i \in {1, 2, 3, 4, 5}
    OBVIOUS
  <2>3. /\ \A i \in 1 .. 5 : h[i] \notin PskCircuits
        /\ \A i, j \in 1 .. 5 : h[i] \in Single /\ h[i] = h[j] => i = j
    BY <1>4, <2>2 DEF PskCircuits, Single
  <2>4. Len(Handshake) = 5 /\ Len(Handshake) > 0
    BY <1>4, <2>1
  <2>5. /\ \A i \in 1 .. Len(Handshake) : Handshake[i] \notin PskCircuits
        /\ \A i, j \in 1 .. Len(Handshake) :
              Handshake[i] \in Single /\ Handshake[i] = Handshake[j] => i = j
    BY <2>1, <2>3, <2>4, Zenon
  <2>6. Handshake \in Seq(Circuit) /\ Handshake[5] = "rms"
    BY <1>1, <1>4, <2>1
  <2>7. Handshake # <<>>
    BY <2>4, <2>6, NonEmptySeq
  <2> QED
    BY <2>4, <2>5, <2>6, <2>7
<1> QED
  BY <1>6, <1>7

LEMMA SameSets ==
    ASSUME CircuitsAssumption
    PROVE  ProverSet = VerifierSet /\ ProverSet \in Seq(Circuit)
<1>1. Mode = "Keystream" <=> Mode \notin {"True", "Rotate"}
  BY DEF CircuitsAssumption
<1>2. ProverSet = VerifierSet
  BY <1>1 DEF ProverSet, VerifierSet
<1>3. /\ <<"hs", "ts", "gcm", "rms", "psk", "psk_8", "psk_0", "binder", "vfy">> \in Seq(Circuit)
      /\ <<"ks">> \in Seq(Circuit) /\ <<>> \in Seq(Circuit)
      /\ <<"enc", "tag">> \in Seq(Circuit) /\ <<"rotate">> \in Seq(Circuit)
  BY DEF Circuit, Single, Amortized
<1>4. ASSUME NEW a \in Seq(Circuit), NEW b \in Seq(Circuit) PROVE a \o b \in Seq(Circuit)
  OBVIOUS
<1>5. ProverSet \in Seq(Circuit)
  BY <1>3, <1>4, Zenon DEF ProverSet
<1> QED
  BY <1>2, <1>5

\* What a party that wants something on the connection is at.
LEMMA WantsFacts ==
    ASSUME NEW q \in Party, Wants(q).do # "none"
    PROVE  /\ todo[q] # <<>> /\ Wants(q).c = Cur(q)
           /\ Wants(q).do = "preproc" =>
                 \/ pc[q] = "setup"
                 \/ pc[q] = "run" /\ at[q] = "enter" /\ Spent(q, Cur(q))
           /\ Wants(q).do # "preproc" =>
                 /\ Wants(q).do = "online" /\ pc[q] = "run"
                 /\ \/ at[q] = "enter" /\ ~Spent(q, Cur(q))
                    \/ at[q] = "online"
BY DEF Wants, InRun

-----------------------------------------------------------------------------
(* The material, step by step *)

LEMMA TypesSplit == Data /\ Flags <=> TypeOK
BY DEF Data, Flags, TypeOK, Reqs

LEMMA CurIn ==
    ASSUME Data, NEW q \in Party, todo[q] # <<>>
    PROVE  /\ Cur(q) \in Circuit /\ Cur(q) = todo[q][1] /\ Tail(todo[q]) \in Seq(Circuit)
           /\ Len(todo[q]) \in Nat \ {0} /\ Len(Tail(todo[q])) = Len(todo[q]) - 1
           /\ \A i \in 1 .. Len(todo[q]) - 1 : Tail(todo[q])[i] = todo[q][i + 1]
<1>1. todo[q] \in Seq(Circuit)
  BY DEF Data
<1> QED
  BY <1>1, HeadTail DEF Cur

LEMMA InitMaterial == ASSUME CircuitsAssumption, Init PROVE Material
<1>1. \A S : <<>> \in Seq(S)
  OBVIOUS
<1>2. Data
  <2>1. todo \in [Party -> Seq(Circuit)]
    BY SameSets DEF Init
  <2>2. 0 \in 0 .. MaxOps
    BY DEF CircuitsAssumption
  <2> QED
    BY <1>1, <2>1, <2>2 DEF Init, Data
<1>3. at[P] = "enter" /\ pc[P] = "setup" /\ cur.name = "HANDSHAKE" /\ ~tainted
  BY DEF Init, Req, Party
<1>4. /\ uses[P] = uses[V] /\ exec_times[P] = exec_times[V]
      /\ \A c \in Circuit : uses[P][c] = 0 /\ run_times[P][c] = 0 /\ exec_times[P][c] = 0
  BY DEF Init, Party
<1>5. Counted
  BY <1>3, <1>4, ItersType, Kinds DEF Counted, Pending
<1>6. InPlace /\ Once /\ Lost
  BY <1>3, <1>4, Kinds DEF InPlace, Once, Lost
<1> QED
  BY <1>2, <1>5, <1>6 DEF Material

\* A step that leaves the prover alone.
LEMMA ProverKept ==
    ASSUME Counted, InPlace, Once, Lost,
           pc'[P] = pc[P], todo'[P] = todo[P], at'[P] = at[P],
           run_times'[P] = run_times[P], UNCHANGED <<exec_times, uses, psk, cur, tainted>>,
           ~up => ~up'
    PROVE  Counted' /\ InPlace' /\ Once' /\ Lost'
<1>1. Cur(P)' = Cur(P)
  BY DEF Cur
<1>2. Counted' /\ InPlace'
  BY <1>1 DEF Counted, Pending, InPlace
<1>3. Once' /\ Lost'
  BY DEF Once, Lost
<1> QED
  BY <1>2, <1>3

LEMMA PreprocessMaterial == ASSUME CircuitsAssumption, Material, Preprocess PROVE Material'
<1> DEFINE c == Cur(P)
<1>1. /\ todo[P] # <<>> /\ todo[V] # <<>>
      /\ \/ pc[P] = "setup"
         \/ pc[P] = "run" /\ at[P] = "enter" /\ Spent(P, c)
  BY WantsFacts DEF Preprocess, Party
<1>2. at[P] = "enter" /\ c \in Circuit
  <2>1. c \in Circuit
    BY <1>1, CurIn DEF Material, Party
  <2>2. at[P] = "enter"
    BY <1>1 DEF Material, InPlace
  <2> QED
    BY <2>1, <2>2
<1>3. UNCHANGED <<pc, hdr, out, up, ops, psk, cur, tainted>>
  BY DEF Preprocess
<1>4. /\ run_times' = [q \in Party |-> [run_times[q] EXCEPT ![c] = 0]]
      /\ exec_times' = [q \in Party |-> [exec_times[q] EXCEPT ![c] = 0]]
      /\ uses' = [q \in Party |-> [uses[q] EXCEPT ![c] = 0]]
  BY DEF Preprocess, Reset, ResetExec
<1>5. /\ run_times'[P] = [run_times[P] EXCEPT ![c] = 0]
      /\ exec_times'[P] = [exec_times[P] EXCEPT ![c] = 0]
      /\ uses'[P] = [uses[P] EXCEPT ![c] = 0]
      /\ exec_times'[V] = [exec_times[V] EXCEPT ![c] = 0]
      /\ uses'[V] = [uses[V] EXCEPT ![c] = 0]
  BY <1>4 DEF Party
<1> HIDE DEF c
<1>6. /\ run_times' \in [Party -> [Circuit -> Nat]]
      /\ exec_times' \in [Party -> [Circuit -> Nat]]
      /\ uses' \in [Party -> [Circuit -> Nat]]
  BY <1>4 DEF Material, Data
<1>7. /\ uses[P] \in [Circuit -> Nat] /\ run_times[P] \in [Circuit -> Nat]
      /\ exec_times[P] \in [Circuit -> Nat]
  BY DEF Material, Data, Party
<1>8. \A d \in Circuit :
        /\ run_times'[P][d] = IF d = c THEN 0 ELSE run_times[P][d]
        /\ exec_times'[P][d] = IF d = c THEN 0 ELSE exec_times[P][d]
        /\ uses'[P][d] = IF d = c THEN 0 ELSE uses[P][d]
  BY <1>5, <1>7
<1>9. ASSUME at'[P] # "output" PROVE Counted'
  <2>1. uses'[P] = uses'[V] /\ exec_times'[P] = exec_times'[V]
    BY <1>5 DEF Material, Counted
  <2>2. \A d \in Amortized : Pending(d) = 0 /\ Pending(d)' = 0
    BY <1>2, <1>9 DEF Pending
  <2>3. \A d \in Amortized :
          /\ uses'[P][d] = run_times'[P][d] /\ exec_times'[P][d] = uses'[P][d]
          /\ uses'[P][d] <= Iters[d]
    BY <1>7, <1>8, <2>2, ItersType, Kinds DEF Material, Counted
  <2>4. \A d \in Single :
          run_times'[P][d] = 0 /\ exec_times'[P][d] = 0 /\ uses'[P][d] <= 1
    BY <1>7, <1>8, Kinds DEF Material, Counted
  <2>5. \A d \in Amortized :
          uses'[P][d] = run_times'[P][d] + Pending(d)'
    BY <1>6, <2>2, <2>3, Kinds DEF Party
  <2> QED
    BY <2>1, <2>3, <2>4, <2>5 DEF Counted
<1>10. CASE pc[P] = "setup"
  <2>1. /\ todo' = [q \in Party |-> Tail(todo[q])] /\ at' = at
    BY <1>10 DEF Preprocess
  <2>2. todo' \in [Party -> Seq(Circuit)]
    BY <1>1, <2>1, HeadTail DEF Material, Data, Party
  <2>3. Data'
    BY <1>3, <1>6, <2>1, <2>2 DEF Material, Data
  <2>4. Counted' /\ InPlace'
    BY <1>2, <1>3, <1>9, <1>10, <2>1 DEF InPlace
  <2>5. Once'
    BY <1>3, <1>8, <1>10, Kinds DEF Material, Once
  <2>6. Lost'
    BY <1>3, <1>10, <2>1 DEF Material, Lost
  <2> QED
    BY <2>3, <2>4, <2>5, <2>6 DEF Material
<1>11. CASE pc[P] = "run"
  <2>1. /\ todo' = todo /\ at' = [q \in Party |-> "online"]
    BY <1>11 DEF Preprocess
  <2>2. at'[P] = "online" /\ Cur(P)' = c
    BY <2>1 DEF Party, Cur, c
  <2>3. c \in Amortized
    BY <1>1, <1>2, <1>11, Kinds DEF Spent, Material, Counted
  <2>4. Data'
    BY <1>3, <1>6, <2>1 DEF Material, Data
  <2>5. Counted' /\ InPlace'
    BY <1>1, <1>2, <1>3, <1>8, <1>9, <1>11, <2>1, <2>2, <2>3 DEF InPlace
  <2>6. \A d \in Single : uses'[P][d] = uses[P][d]
    BY <1>8, <2>3, Kinds
  <2>7. Once'
    BY <1>3, <1>11, <2>1, <2>6, Kinds DEF Material, Once
  <2>8. Lost'
    BY <1>3, <2>1 DEF Material, Lost, Preprocess
  <2> QED
    BY <2>4, <2>5, <2>7, <2>8 DEF Material
<1> QED
  BY <1>1, <1>10, <1>11

\* What holds of a list of runs holds of the rest of it.
LEMMA RestOfRuns ==
    ASSUME NEW s \in Seq(Circuit), s # <<>>
    PROVE  /\ Tail(s) # <<>> => Tail(s)[Len(Tail(s))] = s[Len(s)]
           /\ \A i \in 1 .. Len(Tail(s)) :
                 i + 1 \in 1 .. Len(s) /\ Tail(s)[i] = s[i + 1]
<1>1. /\ Len(s) \in Nat \ {0} /\ Tail(s) \in Seq(Circuit) /\ Len(Tail(s)) = Len(s) - 1
      /\ \A i \in 1 .. Len(s) - 1 : Tail(s)[i] = s[i + 1]
  BY HeadTail
<1>2. ASSUME Tail(s) # <<>> PROVE Tail(s)[Len(Tail(s))] = s[Len(s)]
  <2>1. Len(Tail(s)) # 0
    BY <1>1, <1>2
  <2>2. Len(s) - 1 \in 1 .. Len(s) - 1
    BY <1>1, <2>1
  <2> QED
    BY <1>1, <2>2
<1> QED
  BY <1>1, <1>2

LEMMA Bumped ==
    ASSUME NEW f \in [Party -> [Circuit -> Nat]], f[P] = f[V], NEW c \in Circuit
    PROVE  /\ BumpBoth(f, c) \in [Party -> [Circuit -> Nat]]
           /\ BumpBoth(f, c)[P] = BumpBoth(f, c)[V]
           /\ \A d \in Circuit :
                 BumpBoth(f, c)[P][d] = IF d = c THEN f[P][d] + 1 ELSE f[P][d]
<1> DEFINE g == BumpBoth(f, c)
<1>1. g = [q \in Party |-> [f[q] EXCEPT ![c] = @ + 1]]
  BY DEF BumpBoth
<1>2. f[P] \in [Circuit -> Nat] /\ f[V] \in [Circuit -> Nat]
  BY DEF Party
<1>3. g[P] = [f[P] EXCEPT ![c] = @ + 1] /\ g[V] = [f[V] EXCEPT ![c] = @ + 1]
  BY <1>1 DEF Party
<1>4. \A q \in Party : [f[q] EXCEPT ![c] = @ + 1] \in [Circuit -> Nat]
  OBVIOUS
<1> HIDE DEF g
<1>5. g \in [Party -> [Circuit -> Nat]]
  BY <1>1, <1>4
<1>6. \A d \in Circuit : g[P][d] = IF d = c THEN f[P][d] + 1 ELSE f[P][d]
  BY <1>2, <1>3
<1> QED
  BY <1>3, <1>5, <1>6 DEF g

LEMMA OnlineMaterial == ASSUME CircuitsAssumption, Material, Online PROVE Material'
<1> DEFINE c == Cur(P)
<1>1. /\ todo[P] # <<>> /\ todo[V] # <<>> /\ pc[P] = "run"
      /\ (at[P] = "enter" /\ ~Spent(P, c)) \/ at[P] = "online"
  BY WantsFacts DEF Online, Party
<1>2. c \in Circuit /\ c = todo[P][1] /\ todo[P] \in Seq(Circuit)
  BY <1>1, CurIn DEF Material, Data, Party
<1>3. UNCHANGED <<pc, run_times, hdr, out, up, ops, psk, cur, tainted>> /\ up
  BY DEF Online
<1>4. /\ uses' = BumpBoth(uses, c)
      /\ c \in Single =>
            /\ todo' = [q \in Party |-> Tail(todo[q])]
            /\ at' = [q \in Party |-> "enter"] /\ exec_times' = exec_times
      /\ c \notin Single =>
            /\ exec_times' = BumpBoth(exec_times, c)
            /\ at' = [q \in Party |-> "output"] /\ todo' = todo
  BY DEF Online
<1>5. /\ uses[P] \in [Circuit -> Nat] /\ run_times[P] \in [Circuit -> Nat]
      /\ exec_times[P] \in [Circuit -> Nat]
  BY DEF Material, Data, Party
<1> HIDE DEF c
<1>6. /\ uses' \in [Party -> [Circuit -> Nat]] /\ uses'[P] = uses'[V]
      /\ \A d \in Circuit : uses'[P][d] = IF d = c THEN uses[P][d] + 1 ELSE uses[P][d]
  <2>1. uses \in [Party -> [Circuit -> Nat]] /\ uses[P] = uses[V]
    BY DEF Material, Data, Counted
  <2> DEFINE g == BumpBoth(uses, c)
  <2>2. /\ g \in [Party -> [Circuit -> Nat]] /\ g[P] = g[V]
        /\ \A d \in Circuit : g[P][d] = IF d = c THEN uses[P][d] + 1 ELSE uses[P][d]
    BY <1>2, <2>1, Bumped
  <2>3. uses' = g
    BY <1>4
  <2> HIDE DEF g
  <2> QED
    BY <2>2, <2>3
<1>7. ~tainted
  BY <1>3 DEF Material, Lost
<1>8. CASE c \in Single
  <2>1. /\ todo'[P] = Tail(todo[P]) /\ at'[P] = "enter" /\ exec_times' = exec_times
        /\ at' \in [Party -> {"enter", "online", "output"}]
    BY <1>4, <1>8 DEF Party
  <2>2. todo' \in [Party -> Seq(Circuit)]
    <3>1. \A q \in Party : Tail(todo[q]) \in Seq(Circuit)
      BY <1>1, CurIn DEF Material, Party
    <3> QED
      BY <1>4, <1>8, <3>1, Zenon
  <2>3. Data'
    BY <1>3, <1>6, <2>1, <2>2 DEF Material, Data
  <2>4. 1 \in 1 .. Len(todo[P]) /\ uses[P][c] = 0
    <3>1. 1 \in 1 .. Len(todo[P])
      BY <1>1, <1>2, HeadTail
    <3> QED
      BY <1>1, <1>2, <1>8, <3>1 DEF Material, Once
  <2>5. at[P] = "enter"
    BY <1>1, <1>8, Kinds DEF Material, InPlace, c
  <2>6. Counted'
    <3>1. exec_times'[P] = exec_times'[V]
      BY <2>1 DEF Material, Counted
    <3>2. \A d \in Amortized : uses'[P][d] = uses[P][d]
      BY <1>6, <1>8, Kinds
    <3>3. \A d \in Amortized : Pending(d) = 0 /\ Pending(d)' = 0
      BY <2>1, <2>5 DEF Pending
    <3>4. \A d \in Single :
            run_times'[P][d] = 0 /\ exec_times'[P][d] = 0 /\ uses'[P][d] <= 1
      BY <1>3, <1>5, <1>6, <2>1, <2>4, Kinds, SMTT(30) DEF Material, Counted
    <3> QED
      BY <1>3, <1>6, <2>1, <3>1, <3>2, <3>3, <3>4 DEF Material, Counted
  <2>7. InPlace'
    BY <1>1, <1>3, <2>1 DEF InPlace
  <2>8. \A i \in 1 .. Len(Tail(todo[P])) :
          i + 1 \in 1 .. Len(todo[P]) /\ Tail(todo[P])[i] = todo[P][i + 1]
    BY <1>1, <1>2, RestOfRuns
  <2>9. ASSUME NEW i \in 1 .. Len(Tail(todo[P])), NEW j \in 1 .. Len(Tail(todo[P])),
               Tail(todo[P])[i] \in Single
        PROVE  /\ uses'[P][Tail(todo[P])[i]] = 0
               /\ Tail(todo[P])[j] = Tail(todo[P])[i] => j = i
    <3>1. /\ i + 1 \in 1 .. Len(todo[P]) /\ j + 1 \in 1 .. Len(todo[P])
          /\ Tail(todo[P])[i] = todo[P][i + 1] /\ Tail(todo[P])[j] = todo[P][j + 1]
      BY <2>8
    <3>2. i \in Int /\ j \in Int /\ i >= 1
      OBVIOUS
    <3>3. /\ uses[P][todo[P][i + 1]] = 0
          /\ todo[P][j + 1] = todo[P][i + 1] => j + 1 = i + 1
          /\ todo[P][1] = todo[P][i + 1] => 1 = i + 1
      BY <1>1, <2>4, <2>9, <3>1 DEF Material, Once
    <3>4. todo[P][i + 1] # c
      BY <1>2, <3>2, <3>3
    <3> QED
      BY <1>6, <2>9, <3>1, <3>2, <3>3, <3>4, Kinds
  <2>10. ASSUME psk
         PROVE  /\ \A d \in PskCircuits : uses'[P][d] = 0
                /\ \A i \in 1 .. Len(Tail(todo[P])) : Tail(todo[P])[i] \notin PskCircuits
    <3>1. \A i \in 1 .. Len(todo[P]) : todo[P][i] \notin PskCircuits
      BY <1>1, <2>10 DEF Material, Once
    <3>2. c \notin PskCircuits
      BY <1>2, <2>4, <3>1
    <3> QED
      BY <1>6, <2>8, <2>10, <3>1, <3>2, Kinds DEF Material, Once
  <2>11. Once'
    BY <1>1, <1>3, <2>1, <2>9, <2>10 DEF Once
  <2>12. Lost'
    BY <1>1, <1>2, <1>3, <1>7, <2>1, <2>8, RestOfRuns DEF Material, Lost
  <2> QED
    BY <2>3, <2>6, <2>7, <2>11, <2>12 DEF Material
<1>9. CASE c \in Amortized
  <2>0. c \notin Single
    BY <1>9, Kinds
  <2>1. /\ todo' = todo /\ at'[P] = "output"
        /\ at' \in [Party -> {"enter", "online", "output"}]
    BY <1>4, <2>0 DEF Party
  <2>2. /\ exec_times' \in [Party -> [Circuit -> Nat]] /\ exec_times'[P] = exec_times'[V]
        /\ \A d \in Circuit :
              exec_times'[P][d] = IF d = c THEN exec_times[P][d] + 1 ELSE exec_times[P][d]
    <3>1. exec_times \in [Party -> [Circuit -> Nat]] /\ exec_times[P] = exec_times[V]
      BY DEF Material, Data, Counted
    <3> DEFINE g == BumpBoth(exec_times, c)
    <3>2. /\ g \in [Party -> [Circuit -> Nat]] /\ g[P] = g[V]
          /\ \A d \in Circuit :
                g[P][d] = IF d = c THEN exec_times[P][d] + 1 ELSE exec_times[P][d]
      BY <1>2, <3>1, Bumped
    <3>3. exec_times' = g
      BY <1>4, <2>0
    <3> HIDE DEF g
    <3> QED
      BY <3>2, <3>3
  <2>3. Data'
    BY <1>3, <1>6, <2>1, <2>2 DEF Material, Data
  <2>4. Cur(P)' = c
    BY <2>1 DEF Cur, c
  <2>5. \A d \in Amortized : Pending(d) = 0 /\ Pending(d)' = IF d = c THEN 1 ELSE 0
    BY <1>1, <2>1, <2>4 DEF Pending
  <2>6. run_times[P][c] < Iters[c]
    <3>1. run_times[P][c] <= Iters[c]
      BY <1>5, <1>9, <2>5, Kinds DEF Material, Counted
    <3>2. CASE at[P] = "enter"
      BY <1>1, <1>5, <1>9, <2>0, <3>1, <3>2, ItersType, Kinds DEF Spent
    <3>3. CASE at[P] = "online"
      BY <1>9, <3>3, ItersType DEF Material, InPlace, c
    <3> QED
      BY <1>1, <3>2, <3>3
  <2>7. Counted'
    <3>1. \A d \in Amortized :
            /\ uses'[P][d] = run_times'[P][d] + Pending(d)' /\ exec_times'[P][d] = uses'[P][d]
            /\ uses'[P][d] <= Iters[d]
      BY <1>3, <1>5, <1>6, <2>2, <2>5, <2>6, ItersType, Kinds DEF Material, Counted
    <3>2. \A d \in Single :
            run_times'[P][d] = 0 /\ exec_times'[P][d] = 0 /\ uses'[P][d] <= 1
      BY <1>3, <1>6, <2>0, <2>2, Kinds DEF Material, Counted
    <3> QED
      BY <1>6, <2>2, <3>1, <3>2 DEF Counted
  <2>8. InPlace'
    BY <1>1, <1>3, <1>9, <2>1, <2>4 DEF InPlace
  <2>9. \A d \in Single : uses'[P][d] = uses[P][d]
    BY <1>6, <2>0, Kinds
  <2>10. Once'
    BY <1>1, <1>3, <2>1, <2>9, Kinds DEF Material, Once
  <2>11. Lost'
    BY <1>1, <1>3, <1>7, <2>1 DEF Material, Lost
  <2> QED
    BY <2>3, <2>7, <2>8, <2>10, <2>11 DEF Material
<1> QED
  BY <1>2, <1>8, <1>9, Kinds

\* A party ends its run: it alone moves.
LEMMA Finished ==
    ASSUME Data, NEW q \in Party, todo[q] # <<>>, FinishRun(q)
    PROVE  /\ todo' \in [Party -> Seq(Circuit)] /\ todo'[q] = Tail(todo[q])
           /\ at' \in [Party -> {"enter", "online", "output"}] /\ at'[q] = "enter"
           /\ run_times' \in [Party -> [Circuit -> Nat]]
           /\ run_times'[q] = [run_times[q] EXCEPT ![Cur(q)] = @ + 1]
           /\ \A r \in Party \ {q} :
                 /\ todo'[r] = todo[r] /\ at'[r] = at[r]
                 /\ run_times'[r] = run_times[r]
<1>1. Cur(q) \in Circuit /\ Tail(todo[q]) \in Seq(Circuit)
  BY CurIn
<1>2. todo' = [todo EXCEPT ![q] = Tail(todo[q])] /\ at' = [at EXCEPT ![q] = "enter"]
  BY DEF FinishRun
<1>3. run_times' = [run_times EXCEPT ![q] = [run_times[q] EXCEPT ![Cur(q)] = @ + 1]]
  BY DEF FinishRun, Bump
<1>4. run_times[q] \in [Circuit -> Nat]
  BY DEF Data
<1>5. [run_times[q] EXCEPT ![Cur(q)] = @ + 1] \in [Circuit -> Nat]
  BY <1>1, <1>4
<1> QED
  BY <1>1, <1>2, <1>3, <1>5 DEF Data

LEMMA EvaluateMaterial == ASSUME CircuitsAssumption, Material, Evaluate PROVE Material'
<1>1. /\ todo[V] # <<>> /\ FinishRun(V)
      /\ UNCHANGED <<pc, exec_times, uses, hdr, up, ops, psk, cur, tainted>>
      /\ out' = IF up THEN Append(out, Cur(V)) ELSE out
  BY DEF Evaluate, InRun
<1>2. /\ todo' \in [Party -> Seq(Circuit)] /\ at' \in [Party -> {"enter", "online", "output"}]
      /\ run_times' \in [Party -> [Circuit -> Nat]]
      /\ todo'[P] = todo[P] /\ at'[P] = at[P] /\ run_times'[P] = run_times[P]
  BY <1>1, Finished DEF Material, Party
<1>3. Cur(V) \in Circuit
  BY <1>1, CurIn DEF Material, Party
<1>4. out' \in Seq(Circuit)
  BY <1>1, <1>3 DEF Material, Data
<1>5. Data'
  BY <1>1, <1>2, <1>4 DEF Material, Data
<1>6. Counted' /\ InPlace' /\ Once' /\ Lost'
  BY <1>1, <1>2, ProverKept DEF Material
<1> QED
  BY <1>5, <1>6 DEF Material

\* The prover ends the run it has the output of, or thinks it has.
LEMMA FinishMaterial ==
    ASSUME CircuitsAssumption, Material, InRun(P), at[P] = "output", FinishRun(P),
           UNCHANGED <<pc, exec_times, uses, hdr, up, ops, psk, cur>>,
           out' \in Seq(Circuit),
           tainted' => ~tainted /\ ~up /\ Cur(P) \in ZeroPasses
    PROVE  Material'
<1> DEFINE c == Cur(P)
<1>1. todo[P] # <<>> /\ pc[P] = "run" /\ c \in Amortized /\ ~tainted
  BY DEF InRun, Material, InPlace, Lost
<1>2. /\ todo' \in [Party -> Seq(Circuit)] /\ at' \in [Party -> {"enter", "online", "output"}]
      /\ run_times' \in [Party -> [Circuit -> Nat]]
      /\ todo'[P] = Tail(todo[P]) /\ at'[P] = "enter"
      /\ run_times'[P] = [run_times[P] EXCEPT ![c] = @ + 1]
  BY <1>1, Finished DEF Material, Party
<1>3. Data'
  BY <1>2 DEF Material, Data
<1>4. run_times[P] \in [Circuit -> Nat] /\ uses[P] \in [Circuit -> Nat]
  BY DEF Material, Data, Party
<1>5. c = todo[P][1] /\ todo[P] \in Seq(Circuit) /\ Len(todo[P]) \in Nat \ {0}
  BY <1>1, CurIn DEF Material, Data, Party
<1>6. \A d \in Amortized : Pending(d) = IF d = c THEN 1 ELSE 0
  BY DEF Pending
<1> HIDE DEF c
<1>7. \A d \in Circuit :
        run_times'[P][d] = IF d = c THEN run_times[P][d] + 1 ELSE run_times[P][d]
  BY <1>2, <1>4
<1>8. Counted'
  <2>1. \A d \in Amortized : Pending(d)' = 0
    BY <1>2 DEF Pending
  <2>2. \A d \in Amortized : uses'[P][d] = run_times'[P][d]
    BY <1>4, <1>6, <1>7, Kinds DEF Material, Counted
  <2>3. \A d \in Amortized : uses'[P][d] = run_times'[P][d] + Pending(d)'
    <3>1. \A d \in Amortized : run_times'[P][d] \in Nat
      BY <1>3, Kinds DEF Data, Party
    <3> QED
      BY <2>1, <2>2, <3>1
  <2>4. \A d \in Single : run_times'[P][d] = run_times[P][d]
    BY <1>1, <1>7, Kinds
  <2> QED
    BY <2>3, <2>4 DEF Material, Counted
<1>9. InPlace'
  BY <1>1, <1>2 DEF InPlace
<1>10. \A i \in 1 .. Len(Tail(todo[P])) :
         i + 1 \in 1 .. Len(todo[P]) /\ Tail(todo[P])[i] = todo[P][i + 1]
  BY <1>1, <1>5, RestOfRuns
<1>11. Once'
  <2>1. ASSUME NEW i \in 1 .. Len(Tail(todo[P])), NEW j \in 1 .. Len(Tail(todo[P])),
               Tail(todo[P])[i] \in Single
        PROVE  /\ uses'[P][Tail(todo[P])[i]] = 0
               /\ Tail(todo[P])[j] = Tail(todo[P])[i] => j = i
    <3>1. /\ i + 1 \in 1 .. Len(todo[P]) /\ j + 1 \in 1 .. Len(todo[P])
          /\ Tail(todo[P])[i] = todo[P][i + 1] /\ Tail(todo[P])[j] = todo[P][j + 1]
      BY <1>10
    <3>2. i \in Int /\ j \in Int
      OBVIOUS
    <3>3. /\ uses[P][todo[P][i + 1]] = 0
          /\ todo[P][j + 1] = todo[P][i + 1] => j + 1 = i + 1
      BY <1>1, <2>1, <3>1 DEF Material, Once
    <3> QED
      BY <3>1, <3>2, <3>3
  <2>2. psk => \A i \in 1 .. Len(Tail(todo[P])) : Tail(todo[P])[i] \notin PskCircuits
    BY <1>1, <1>10 DEF Material, Once
  <2> QED
    BY <1>1, <1>2, <2>1, <2>2 DEF Material, Once
<1>12. Lost'
  <2>1. /\ cur.name = "HANDSHAKE" => todo[P][Len(todo[P])] = "rms"
        /\ cur.name \notin {"HANDSHAKE", "ROTATE_KEY"} =>
              \A i \in 1 .. Len(todo[P]) : todo[P][i] \notin ZeroPasses
    BY <1>1 DEF Material, Lost
  <2>2. ASSUME tainted', cur.name # "ROTATE_KEY" PROVE Tail(todo[P]) # <<>>
    <3>1. 1 \in 1 .. Len(todo[P]) /\ todo[P][1] \in ZeroPasses
      BY <1>5, <2>2 DEF c
    <3>2. todo[P][Len(todo[P])] = "rms"
      BY <2>1, <2>2, <3>1
    <3>3. Len(todo[P]) # 1
      BY <3>1, <3>2, Kinds
    <3>4. Len(todo[P]) > 1
      <4> DEFINE n == Len(todo[P])
      <4>1. n \in Nat \ {0} /\ n # 1
        BY <1>5, <3>3
      <4> HIDE DEF n
      <4>2. n > 1
        BY <4>1
      <4> QED
        BY <4>2 DEF n
    <3> QED
      BY <1>1, <1>5, <3>4, TailEmpty
  <2>3. Tail(todo[P]) # <<>> => Tail(todo[P])[Len(Tail(todo[P]))] = todo[P][Len(todo[P])]
    BY <1>1, <1>5, RestOfRuns
  <2>4. cur.name \notin {"HANDSHAKE", "ROTATE_KEY"} =>
          \A i \in 1 .. Len(Tail(todo[P])) : Tail(todo[P])[i] \notin ZeroPasses
    BY <1>10, <2>1
  <2>5. tainted' => ~up'
    OBVIOUS
  <2> QED
    BY <1>1, <1>2, <2>1, <2>2, <2>3, <2>4, <2>5 DEF Lost
<1> QED
  BY <1>3, <1>8, <1>9, <1>11, <1>12 DEF Material

LEMMA ReceiveMaterial == ASSUME CircuitsAssumption, Material, Receive PROVE Material'
<1>1. /\ InRun(P) /\ at[P] = "output"
      /\ UNCHANGED <<exec_times, uses, hdr, up, ops, psk, cur>>
  BY DEF Receive
<1>2. ~tainted /\ out \in Seq(Circuit) /\ pc[P] = "run"
  BY <1>1 DEF Material, Lost, Data, InRun
<1>3. ASSUME FinishRun(P), UNCHANGED pc, out' \in Seq(Circuit),
             tainted' => ~up /\ Cur(P) \in ZeroPasses
      PROVE  Material'
  BY <1>1, <1>2, <1>3, FinishMaterial
<1>4. CASE out # <<>> /\ out' = Tail(out) /\ FinishRun(P) /\ UNCHANGED <<pc, tainted>>
  <2>1. out' \in Seq(Circuit)
    BY <1>2, <1>4, HeadTail
  <2> QED
    BY <1>2, <1>3, <1>4, <2>1
<1>5. CASE /\ out = <<>> /\ ~up /\ UNCHANGED out /\ Cur(P) \in ZeroPasses
           /\ FinishRun(P) /\ UNCHANGED pc
  BY <1>2, <1>3, <1>5
<1>6. CASE /\ UNCHANGED out /\ pc' = [pc EXCEPT ![P] = "fail"]
           /\ UNCHANGED <<run_times, todo, at, tainted>>
  <2>1. pc' \in [Party -> {"setup", "run", "idle", "done", "fail"}] /\ pc'[P] = "fail"
    BY <1>6 DEF Material, Data, Party
  <2>2. Data'
    BY <1>1, <1>6, <2>1 DEF Material, Data
  <2>3. Cur(P)' = Cur(P)
    BY <1>6 DEF Cur
  <2>4. Counted' /\ InPlace'
    BY <1>1, <1>6, <2>1, <2>3 DEF Material, Counted, InPlace, Pending
  <2>5. Once' /\ Lost'
    BY <1>1, <1>2, <1>6, <2>1 DEF Material, Once, Lost
  <2> QED
    BY <2>2, <2>4, <2>5 DEF Material
<1>7. CASE out' = <<>> /\ UNCHANGED <<pc, run_times, todo, at, tainted>>
  <2>1. out' \in Seq(Circuit)
    BY <1>7
  <2>2. Data'
    BY <1>1, <1>7, <2>1 DEF Material, Data
  <2>3. Counted' /\ InPlace' /\ Once' /\ Lost'
    BY <1>1, <1>7, ProverKept DEF Material
  <2> QED
    BY <2>2, <2>3 DEF Material
<1> QED
  BY <1>4, <1>5, <1>6, <1>7 DEF Receive

\* A step that moves one party's pc, and that party's plan if it starts one.
LEMMA SetupDoneMaterial ==
    ASSUME CircuitsAssumption, Material, NEW q \in Party, SetupDone(q) PROVE Material'
<1>1. /\ pc[q] = "setup"
      /\ pc' = [pc EXCEPT ![q] = "run"] /\ todo' = [todo EXCEPT ![q] = Handshake]
      /\ UNCHANGED <<at, run_times, exec_times, uses, hdr, out, up, ops, psk, cur, tainted>>
  BY DEF SetupDone, counters
<1>2. /\ pc' \in [Party -> {"setup", "run", "idle", "done", "fail"}]
      /\ todo' \in [Party -> Seq(Circuit)]
  BY <1>1, HandshakeRuns DEF Material, Data
<1>3. Data'
  BY <1>1, <1>2 DEF Material, Data
<1>4. CASE q = V
  <2>1. pc'[P] = pc[P] /\ todo'[P] = todo[P]
    BY <1>1, <1>4 DEF Material, Data, Party
  <2>2. Counted' /\ InPlace' /\ Once' /\ Lost'
    BY <1>1, <2>1, ProverKept DEF Material
  <2> QED
    BY <1>3, <2>2 DEF Material
<1>5. CASE q = P
  <2>1. pc'[P] = "run" /\ todo'[P] = Handshake /\ at'[P] = "enter" /\ at[P] = "enter"
    BY <1>1, <1>5 DEF Material, Data, Party, InPlace
  <2>2. cur.name = "HANDSHAKE" /\ ~tainted /\ \A c \in Single : uses[P][c] = 0
    BY <1>1, <1>5 DEF Material, Once, Lost
  <2>3. Counted' /\ InPlace'
    BY <1>1, <2>1 DEF Material, Counted, InPlace, Pending
  <2>4. Once'
    <3>1. \A i, j \in 1 .. Len(Handshake) :
            Handshake[i] \in Single =>
              uses[P][Handshake[i]] = 0 /\ (Handshake[j] = Handshake[i] => j = i)
      BY <2>2, HandshakeRuns
    <3>2. \A c \in PskCircuits : uses[P][c] = 0
      BY <2>2, Kinds
    <3>3. \A i \in 1 .. Len(Handshake) : Handshake[i] \notin PskCircuits
      BY HandshakeRuns
    <3> QED
      BY <1>1, <2>1, <3>1, <3>2, <3>3 DEF Once
  <2>5. Lost'
    BY <1>1, <2>1, <2>2, HandshakeRuns DEF Lost
  <2> QED
    BY <1>3, <2>3, <2>4, <2>5 DEF Material
<1> QED
  BY <1>4, <1>5 DEF Party

\* The pc of one party moves, and nothing else.
LEMMA MovesMaterial ==
    ASSUME Material, NEW q \in Party, NEW there \in {"idle", "done", "fail"},
           pc' = [pc EXCEPT ![q] = there],
           UNCHANGED <<todo, at, run_times, exec_times, uses, ops, psk, cur, tainted>>,
           hdr' \in Seq(Reqs), out' = out, up' = up,
           q = P /\ there = "idle" => todo[P] = <<>>,
           q = P /\ there # "fail" => pc[P] \in {"run", "idle"} /\ todo[P] = <<>>
    PROVE  Material'
<1>1. pc' \in [Party -> {"setup", "run", "idle", "done", "fail"}]
  BY DEF Material, Data
<1>2. Data'
  BY <1>1 DEF Material, Data
<1>3. CASE q = V
  <2>1. pc'[P] = pc[P]
    BY <1>3 DEF Material, Data, Party
  <2>2. Counted' /\ InPlace' /\ Once' /\ Lost'
    BY <2>1, ProverKept DEF Material
  <2> QED
    BY <1>2, <2>2 DEF Material
<1>4. CASE q = P
  <2>1. pc'[P] = there
    BY <1>4 DEF Material, Data, Party
  <2>2. Cur(P)' = Cur(P)
    BY DEF Cur
  <2>3. Counted'
    BY <2>2 DEF Material, Counted, Pending
  <2>4. InPlace'
    BY <1>4, <2>1, <2>2 DEF Material, InPlace
  <2>5. Once'
    BY <2>1 DEF Material, Once
  <2>6. Lost'
    BY <1>4, <2>1 DEF Material, Lost
  <2> QED
    BY <1>2, <2>3, <2>4, <2>5, <2>6 DEF Material
<1> QED
  BY <1>3, <1>4 DEF Party

LEMMA AskMaterial ==
    ASSUME CircuitsAssumption, Material, NEW op \in Requests, Ask(op) PROVE Material'
<1>1. /\ pc[P] = "idle" /\ ops < MaxOps /\ ops' = ops + 1 /\ cur' = op
      /\ UNCHANGED <<at, run_times, exec_times, uses, out, up, tainted>>
      /\ hdr' = IF up THEN Append(hdr, op) ELSE hdr
      /\ psk' => psk /\ op.name # "DERIVE_PSK"
  BY DEF Ask, counters
<1>2. /\ op \in Reqs /\ Runs(op) \in Seq(Circuit) /\ Runs(op) # <<>>
      /\ op.name # "HANDSHAKE"
  BY RequestRuns
<1>3. hdr' \in Seq(Reqs) /\ ops' \in 0 .. MaxOps
  <2>1. hdr \in Seq(Reqs) /\ ops \in 0 .. MaxOps /\ MaxOps \in Nat
    BY DEF Material, Data, CircuitsAssumption
  <2>2. ops' \in 0 .. MaxOps
    BY <1>1, <2>1
  <2>3. hdr' \in Seq(Reqs)
    BY <1>1, <1>2, <2>1
  <2> QED
    BY <2>2, <2>3
<1>4. at[P] = "enter"
  BY <1>1 DEF Material, InPlace
<1>5. CASE pc' = [pc EXCEPT ![P] = "run"] /\ todo' = [todo EXCEPT ![P] = Runs(op)]
  <2>1. /\ pc' \in [Party -> {"setup", "run", "idle", "done", "fail"}] /\ pc'[P] = "run"
        /\ todo' \in [Party -> Seq(Circuit)] /\ todo'[P] = Runs(op)
    BY <1>2, <1>5 DEF Material, Data, Party
  <2>2. Data'
    BY <1>1, <1>3, <2>1 DEF Material, Data
  <2>3. Counted' /\ InPlace'
    BY <1>1, <1>4, <2>1 DEF Material, Counted, InPlace, Pending
  <2>4. Once'
    <3>1. CASE op.name = "DERIVE_PSK"
      <4>1. psk /\ Len(Runs(op)) = 1 /\ Runs(op)[1] \in PskCircuits
        BY <3>1, RequestRuns
      <4>2. uses[P][Runs(op)[1]] = 0
        BY <4>1 DEF Material, Once
      <4>3. \A i \in 1 .. Len(Runs(op)) : i = 1
        BY <4>1
      <4> QED
        BY <1>1, <2>1, <3>1, <4>2, <4>3 DEF Once
    <3>2. CASE op.name # "DERIVE_PSK"
      <4>1. \A i \in 1 .. Len(Runs(op)) :
              Runs(op)[i] \notin Single /\ Runs(op)[i] \notin PskCircuits
        BY <3>2, RequestRuns, Kinds
      <4> QED
        BY <1>1, <2>1, <4>1 DEF Material, Once
    <3> QED
      BY <3>1, <3>2
  <2>5. Lost'
    <3>1. op.name # "ROTATE_KEY" =>
            \A i \in 1 .. Len(Runs(op)) : Runs(op)[i] \notin ZeroPasses
      BY RequestRuns
    <3>2. tainted => ~up
      BY DEF Material, Lost
    <3> QED
      BY <1>1, <1>2, <1>4, <2>1, <3>1, <3>2 DEF Lost
  <2> QED
    BY <2>2, <2>3, <2>4, <2>5 DEF Material
<1>6. CASE pc' = [pc EXCEPT ![P] = "fail"] /\ UNCHANGED todo
  <2>1. /\ pc' \in [Party -> {"setup", "run", "idle", "done", "fail"}] /\ pc'[P] = "fail"
    BY <1>6 DEF Material, Data, Party
  <2>2. Data'
    BY <1>1, <1>3, <1>6, <2>1 DEF Material, Data
  <2>3. Counted' /\ InPlace'
    BY <1>1, <1>4, <2>1 DEF Material, Counted, InPlace, Pending
  <2>4. Once' /\ Lost'
    BY <1>1, <1>4, <2>1 DEF Material, Once, Lost
  <2> QED
    BY <2>2, <2>3, <2>4 DEF Material
<1> QED
  BY <1>5, <1>6 DEF Ask

LEMMA ServeMaterial == ASSUME CircuitsAssumption, Material, InFlight, Serve PROVE Material'
<1>1. /\ hdr # <<>> /\ hdr' = Tail(hdr)
      /\ UNCHANGED <<at, run_times, exec_times, uses, out, up, ops, psk, cur, tainted>>
  BY DEF Serve, counters
<1>2. hdr' \in Seq(Reqs)
  BY <1>1, HeadTail DEF Material, Data
<1>3. CASE Head(hdr).name = "STOP"
  <2>1. pc' = [pc EXCEPT ![V] = "done"] /\ UNCHANGED todo
    BY <1>3 DEF Serve
  <2> QED
    BY <1>1, <1>2, <2>1, MovesMaterial DEF Party
<1>4. CASE Head(hdr).name # "STOP"
  <2>1. pc' = [pc EXCEPT ![V] = "run"] /\ todo' = [todo EXCEPT ![V] = Runs(Head(hdr))]
    BY <1>4 DEF Serve
  <2>2. Runs(Head(hdr)) \in Seq(Circuit)
    <3>1. hdr \in Seq(Reqs)
      BY DEF Material, Data
    <3>2. 1 \in 1 .. Len(hdr) /\ Head(hdr) = hdr[1]
      BY <1>1, <3>1, HeadTail
    <3> QED
      BY <1>4, <3>2 DEF InFlight
  <2>3. /\ pc' \in [Party -> {"setup", "run", "idle", "done", "fail"}] /\ pc'[P] = pc[P]
        /\ todo' \in [Party -> Seq(Circuit)] /\ todo'[P] = todo[P]
    BY <2>1, <2>2 DEF Material, Data, Party
  <2>4. Data'
    BY <1>1, <1>2, <2>3 DEF Material, Data
  <2>5. Counted' /\ InPlace' /\ Once' /\ Lost'
    BY <1>1, <2>3, ProverKept DEF Material
  <2> QED
    BY <2>4, <2>5 DEF Material
<1> QED
  BY <1>3, <1>4

LEMMA StopRequest == Req("STOP", "", 0) \in Reqs /\ Req("STOP", "", 0).name = "STOP"
BY DEF Req, Reqs, ReqNames

\* What is appended to the requests in flight.
LEMMA OneMore ==
    ASSUME NEW s \in Seq(Reqs), NEW op \in Reqs
    PROVE  /\ Append(s, op) \in Seq(Reqs)
           /\ \A i \in 1 .. Len(Append(s, op)) :
                 Append(s, op)[i] = op \/ (i \in 1 .. Len(s) /\ Append(s, op)[i] = s[i])
OBVIOUS

LEMMA FlightKept ==
    ASSUME CircuitsAssumption, Material, InFlight, [Next]_vars PROVE InFlight'
<1>1. hdr \in Seq(Reqs)
  BY DEF Material, Data
<1>2. CASE hdr' = hdr
  BY <1>2 DEF InFlight
<1>3. ASSUME NEW op \in Requests, Ask(op) PROVE InFlight'
  <2>1. op \in Reqs /\ Runs(op) \in Seq(Circuit) \ {<<>>}
    BY RequestRuns
  <2>2. hdr' = hdr \/ hdr' = Append(hdr, op)
    BY <1>3 DEF Ask
  <2> QED
    <3>1. CASE hdr' = Append(hdr, op)
      <4>1. \A i \in 1 .. Len(hdr') : hdr'[i] = op \/ (i \in 1 .. Len(hdr) /\ hdr'[i] = hdr[i])
        BY <1>1, <2>1, <3>1, OneMore, Zenon
      <4> QED
        BY <2>1, <4>1, Zenon DEF InFlight
    <3> QED
      BY <1>2, <2>2, <3>1
<1>4. CASE AskStop
  <2> DEFINE stop == Req("STOP", "", 0)
  <2>1. hdr' = hdr \/ hdr' = Append(hdr, stop)
    BY <1>4 DEF AskStop
  <2>2. stop \in Reqs /\ stop.name = "STOP"
    BY StopRequest
  <2> HIDE DEF stop
  <2> QED
    <3>1. CASE hdr' = Append(hdr, stop)
      <4>1. \A i \in 1 .. Len(hdr') :
               hdr'[i] = stop \/ (i \in 1 .. Len(hdr) /\ hdr'[i] = hdr[i])
        BY <1>1, <2>2, <3>1, OneMore, Zenon
      <4> QED
        BY <2>2, <4>1, Zenon DEF InFlight
    <3> QED
      BY <1>2, <2>1, <3>1
<1>5. CASE Serve
  <2>1. hdr # <<>> /\ hdr' = Tail(hdr)
    BY <1>5 DEF Serve
  <2>2. /\ Len(hdr) \in Nat /\ Len(hdr') = Len(hdr) - 1
        /\ \A i \in 1 .. Len(hdr) - 1 : hdr'[i] = hdr[i + 1]
    BY <1>1, <2>1, HeadTail
  <2>3. \A i \in 1 .. Len(hdr') : i + 1 \in 1 .. Len(hdr) /\ hdr'[i] = hdr[i + 1]
    BY <2>2
  <2> QED
    BY <2>3 DEF InFlight
<1>6. CASE Preprocess \/ Online \/ Evaluate \/ Receive \/ Break \/ UNCHANGED vars
  BY <1>2, <1>6 DEF Preprocess, Online, Evaluate, Receive, Break, vars
<1>7. ASSUME NEW q \in Party, SetupDone(q) \/ RunsDone(q) \/ IoFails(q) PROVE InFlight'
  BY <1>2, <1>7 DEF SetupDone, RunsDone, IoFails
<1> QED
  BY <1>3, <1>4, <1>5, <1>6, <1>7 DEF Next, Progress, Ended

LEMMA StepMaterial ==
    ASSUME CircuitsAssumption, Material, InFlight, [Next]_vars PROVE Material'
<1>1. hdr \in Seq(Reqs)
  BY DEF Material, Data
<1>2. ASSUME NEW q \in Party, RunsDone(q) PROVE Material'
  <2>1. /\ pc' = [pc EXCEPT ![q] = "idle"] /\ pc[q] = "run" /\ todo[q] = <<>>
        /\ UNCHANGED <<todo, at, run_times, exec_times, uses, hdr, out, up, ops, psk, cur,
                       tainted>>
    BY <1>2 DEF RunsDone, counters
  <2> QED
    BY <1>1, <2>1, MovesMaterial
<1>3. ASSUME NEW q \in Party, IoFails(q) PROVE Material'
  <2>1. /\ pc' = [pc EXCEPT ![q] = "fail"]
        /\ UNCHANGED <<todo, at, run_times, exec_times, uses, hdr, out, up, ops, psk, cur,
                       tainted>>
    BY <1>3 DEF IoFails, counters
  <2> QED
    BY <1>1, <2>1, MovesMaterial
<1>4. CASE AskStop
  <2>1. /\ pc' = [pc EXCEPT ![P] = "done"] /\ pc[P] = "idle"
        /\ UNCHANGED <<todo, at, run_times, exec_times, uses, out, up, ops, psk, cur,
                       tainted>>
        /\ hdr' = hdr \/ hdr' = Append(hdr, Req("STOP", "", 0))
    BY <1>4 DEF AskStop, counters
  <2>2. hdr' \in Seq(Reqs)
    BY <1>1, <2>1, StopRequest, OneMore
  <2>3. todo[P] = <<>> /\ P \in Party
    BY <2>1 DEF Material, InPlace, Party
  <2> QED
    BY <2>1, <2>2, <2>3, MovesMaterial
<1>5. CASE Break \/ UNCHANGED vars
  <2>1. /\ UNCHANGED <<pc, todo, at, run_times, exec_times, uses, hdr, out, ops, psk, cur,
                       tainted>>
        /\ ~up => ~up'
    BY <1>5 DEF Break, counters, vars
  <2>2. Data'
    BY <2>1 DEF Material, Data
  <2>3. Counted' /\ InPlace' /\ Once' /\ Lost'
    BY <2>1, ProverKept DEF Material
  <2> QED
    BY <2>2, <2>3 DEF Material
<1> QED
  BY <1>2, <1>3, <1>4, <1>5, PreprocessMaterial, OnlineMaterial, EvaluateMaterial,
     ReceiveMaterial, SetupDoneMaterial, AskMaterial, ServeMaterial
     DEF Next, Progress, Ended

LEMMA InitFlags == Init => Flags
BY Zenon DEF Init, Flags

LEMMA StepFlags == ASSUME Flags, [Next]_vars PROVE Flags'
<1>1. up' \in BOOLEAN
  BY Zenon DEF Flags, Next, Progress, Preprocess, Online, Evaluate, Receive, Serve, AskStop,
      SetupDone, RunsDone, IoFails, Ask, Break, Ended, vars
<1>2. psk' \in BOOLEAN
  BY Zenon DEF Flags, Next, Progress, Preprocess, Online, Evaluate, Receive, Serve, AskStop,
      SetupDone, RunsDone, IoFails, Ask, Break, Ended, vars
<1>3. tainted' \in BOOLEAN
  BY Zenon DEF Flags, Next, Progress, Preprocess, Online, Evaluate, Receive, Serve, AskStop,
      SetupDone, RunsDone, IoFails, Ask, Break, Ended, vars
<1> QED
  BY <1>1, <1>2, <1>3 DEF Flags

-----------------------------------------------------------------------------
(* The two parties, step by step *)

LEMMA BothWant ==
    ASSUME Standing, Wants(P).do # "none", Wants(V).do # "none"
    PROVE  /\ Even /\ pc[P] = pc[V] /\ pc[P] \in {"setup", "run"}
           /\ Wants(P) = Wants(V)
<1>1. /\ todo[P] # <<>> /\ todo[V] # <<>>
      /\ pc[P] \in {"setup", "run"} /\ pc[V] \in {"setup", "run"}
      /\ pc[P] = "run" => at[P] \in {"enter", "online"}
      /\ pc[V] = "run" => at[V] \in {"enter", "online"}
  BY WantsFacts DEF Party
<1>2. Even
  BY <1>1 DEF Standing, Over, Party, HalfSetup, VerifierAhead, ProverAhead, Ahead, Asked,
              Stopped, Rest
<1>3. pc[P] = pc[V]
  BY <1>1, <1>2 DEF Even, Rest
<1>4. Wants(P) = Wants(V)
  BY <1>2, <1>3 DEF Even, SameCounts, Wants, InRun, Cur, Spent
<1> QED
  BY <1>1, <1>2, <1>3, <1>4

LEMMA InitStanding == ASSUME CircuitsAssumption, Init PROVE Standing
<1>1. /\ pc[P] = "setup" /\ pc[V] = "setup" /\ at[P] = "enter" /\ at[V] = "enter"
      /\ todo[P] = ProverSet /\ todo[V] = VerifierSet /\ run_times[P] = run_times[V]
      /\ hdr = <<>> /\ out = <<>>
  BY DEF Init, Party
<1> QED
  BY <1>1, SameSets DEF Standing, Even, SameCounts, Quiet

LEMMA PreprocessStanding == ASSUME Material, Standing, Preprocess PROVE Standing'
<1> DEFINE c == Cur(P)
<1>1. Wants(P).do # "none" /\ Wants(V).do # "none"
  BY DEF Preprocess
<1>2. Even /\ pc[P] = pc[V] /\ pc[P] \in {"setup", "run"}
  BY <1>1, BothWant
<1>3. UNCHANGED <<pc, hdr, out>>
  BY DEF Preprocess
<1>4. run_times'[P] = [run_times[P] EXCEPT ![c] = 0] /\ run_times'[V] = [run_times[V] EXCEPT ![c] = 0]
  BY DEF Preprocess, Reset, Party
<1>5. SameCounts'
  BY <1>2, <1>4 DEF Even, SameCounts
<1>6. \/ pc[P] = "setup" /\ todo'[P] = Tail(todo[P]) /\ todo'[V] = Tail(todo[V]) /\ at' = at
      \/ pc[P] = "run" /\ todo' = todo /\ at'[P] = "online" /\ at'[V] = "online"
  BY <1>2 DEF Preprocess, Party
<1>7. Even'
  BY <1>2, <1>3, <1>5, <1>6 DEF Even, Quiet, Rest
<1> QED
  BY <1>7 DEF Standing

LEMMA OnlineStanding == ASSUME Material, Standing, Online PROVE Standing'
<1>1. Wants(P).do # "none" /\ Wants(V).do # "none" /\ Wants(P).do # "preproc"
  BY DEF Online
<1>2. Even /\ pc[P] = "run" /\ pc[V] = "run"
  BY <1>1, BothWant, WantsFacts DEF Party
<1>3. UNCHANGED <<pc, hdr, out, run_times>>
  BY DEF Online
<1>4. \/ todo'[P] = Tail(todo[P]) /\ todo'[V] = Tail(todo[V])
         /\ at'[P] = "enter" /\ at'[V] = "enter"
      \/ todo' = todo /\ at'[P] = "output" /\ at'[V] = "output"
  BY DEF Online, Party
<1>5. Even'
  BY <1>2, <1>3, <1>4 DEF Even, Quiet, SameCounts
<1> QED
  BY <1>5 DEF Standing

LEMMA SetupDoneStanding ==
    ASSUME CircuitsAssumption, Material, Standing, NEW q \in Party, SetupDone(q)
    PROVE  Standing'
<1>1. /\ pc[q] = "setup" /\ todo[q] = <<>>
      /\ pc' = [pc EXCEPT ![q] = "run"] /\ todo' = [todo EXCEPT ![q] = Handshake]
      /\ UNCHANGED <<at, run_times, hdr, out, up>>
  BY DEF SetupDone, counters
<1>2. /\ pc'[q] = "run" /\ todo'[q] = Handshake
      /\ \A r \in Party \ {q} : pc'[r] = pc[r] /\ todo'[r] = todo[r]
  BY <1>1 DEF Material, Data
<1>3. CASE Over
  BY <1>1, <1>2, <1>3 DEF Over, Standing
<1>4. CASE Stopped
  BY <1>1, <1>2, <1>4 DEF Stopped, Standing, Party
<1>5. CASE Even
  <2>1. /\ pc[P] = "setup" /\ pc[V] = "setup" /\ at[P] = "enter" /\ at[V] = "enter"
        /\ todo[P] = <<>> /\ todo[V] = <<>>
    BY <1>1, <1>5 DEF Even, Party, Rest
  <2>2. q = P => HalfSetup(V, P)'
    BY <1>1, <1>2, <1>5, <2>1 DEF Even, HalfSetup, SameCounts, Quiet, Party
  <2>3. q = V => HalfSetup(P, V)'
    BY <1>1, <1>2, <1>5, <2>1 DEF Even, HalfSetup, SameCounts, Quiet, Party
  <2> QED
    BY <2>2, <2>3 DEF Standing, Party
<1>6. CASE HalfSetup(P, V) \/ HalfSetup(V, P)
  <2>1. Handshake' = Handshake
    BY DEF Handshake
  <2>2. Even'
    BY <1>1, <1>2, <1>6, <2>1 DEF Even, HalfSetup, SameCounts, Quiet, Party
  <2> QED
    BY <2>2 DEF Standing
<1> QED
  BY <1>1, <1>3, <1>4, <1>5, <1>6
     DEF Standing, VerifierAhead, ProverAhead, Ahead, Asked, Rest, Party

LEMMA EvaluateStanding == ASSUME Material, Standing, Evaluate PROVE Standing'
<1>1. /\ pc[V] = "run" /\ todo[V] # <<>> /\ at[V] = "output" /\ FinishRun(V)
      /\ UNCHANGED <<pc, hdr, up>> /\ out' = IF up THEN Append(out, Cur(V)) ELSE out
  BY DEF Evaluate, InRun
<1>2. /\ todo'[V] = Tail(todo[V]) /\ at'[V] = "enter"
      /\ run_times'[V] = [run_times[V] EXCEPT ![Cur(V)] = @ + 1]
      /\ todo'[P] = todo[P] /\ at'[P] = at[P] /\ run_times'[P] = run_times[P]
  BY <1>1, Finished DEF Material, Party
<1>3. CASE Over
  BY <1>1, <1>3 DEF Over, Standing
<1>4. CASE Stopped
  BY <1>1, <1>2, <1>4 DEF Stopped, Standing
<1>5. CASE Even
  <2>1. /\ pc[P] = "run" /\ todo[P] = todo[V] /\ at[P] = "output" /\ Cur(P) = Cur(V)
        /\ run_times[P] = run_times[V] /\ hdr = <<>> /\ out = <<>>
    BY <1>1, <1>5 DEF Even, Rest, SameCounts, Quiet, Cur
  <2>2. out' = IF up THEN <<Cur(P)>> ELSE <<>>
    BY <1>1, <2>1, Appended
  <2>3. Cur(P)' = Cur(P)
    BY <1>2 DEF Cur
  <2>4. Ahead(V, P)'
    BY <1>1, <1>2, <2>1, <2>3 DEF Ahead
  <2>5. VerifierAhead'
    BY <1>1, <2>2, <2>3, <2>4 DEF VerifierAhead
  <2> QED
    BY <2>5 DEF Standing
<1>6. CASE ProverAhead
  <2>1. todo'[P] = todo'[V] /\ at'[P] = at'[V] /\ SameCounts' /\ Quiet'
    BY <1>1, <1>2, <1>6 DEF ProverAhead, Ahead, SameCounts, Quiet
  <2>2. (pc'[P] = "run" /\ pc'[V] = "run") \/ (Rest(P)' /\ Rest(V)')
    BY <1>1, <1>2, <1>6, <2>1 DEF ProverAhead, Ahead, Rest
  <2>3. Even'
    BY <2>1, <2>2 DEF Even
  <2> QED
    BY <2>3 DEF Standing
<1> QED
  BY <1>1, <1>3, <1>4, <1>5, <1>6
     DEF Standing, HalfSetup, VerifierAhead, Ahead, Asked, Rest

LEMMA ReceiveStanding == ASSUME Material, Standing, Receive PROVE Standing'
<1>1. /\ pc[P] = "run" /\ todo[P] # <<>> /\ at[P] = "output" /\ UNCHANGED <<hdr, up>>
  BY DEF Receive, InRun
<1>2. \/ out # <<>> /\ out' = Tail(out) /\ FinishRun(P) /\ UNCHANGED pc
      \/ out = <<>> /\ ~up /\ out' = out /\ FinishRun(P) /\ UNCHANGED pc
      \/ pc' = [pc EXCEPT ![P] = "fail"] /\ UNCHANGED <<run_times, todo, at>>
      \/ out # <<>> /\ ~up /\ out' = <<>> /\ UNCHANGED <<pc, run_times, todo, at>>
  BY DEF Receive
<1>3. CASE pc' = [pc EXCEPT ![P] = "fail"]
  <2>1. pc'[P] = "fail"
    BY <1>3 DEF Material, Data, Party
  <2> QED
    BY <2>1 DEF Standing, Over, Party
<1>4. CASE Over /\ UNCHANGED pc
  BY <1>4 DEF Over, Standing
<1>5. ASSUME FinishRun(P)
      PROVE  /\ todo'[P] = Tail(todo[P]) /\ at'[P] = "enter"
             /\ run_times'[P] = [run_times[P] EXCEPT ![Cur(P)] = @ + 1]
             /\ todo'[V] = todo[V] /\ at'[V] = at[V] /\ run_times'[V] = run_times[V]
  BY <1>1, <1>5, Finished DEF Material, Party
<1>6. CASE Stopped /\ UNCHANGED pc
  <2>1. todo'[V] = todo[V] /\ at'[V] = at[V]
    BY <1>2, <1>3, <1>5, <1>6
  <2> QED
    BY <1>1, <1>6, <2>1 DEF Stopped, Standing
<1>7. CASE Even /\ UNCHANGED pc
  <2>1. /\ pc[V] = "run" /\ todo[P] = todo[V] /\ at[V] = "output" /\ Cur(P) = Cur(V)
        /\ run_times[P] = run_times[V] /\ hdr = <<>> /\ out = <<>>
    BY <1>1, <1>7 DEF Even, Rest, SameCounts, Quiet, Cur
  <2>2. CASE ~up /\ FinishRun(P) /\ out' = out
    <3>1. Cur(V)' = Cur(V)
      BY <1>5, <2>2 DEF Cur
    <3>2. Ahead(P, V)'
      BY <1>1, <1>5, <1>7, <2>1, <2>2, <3>1 DEF Ahead
    <3>3. ProverAhead'
      BY <1>1, <2>1, <2>2, <3>2 DEF ProverAhead
    <3> QED
      BY <3>3 DEF Standing
  <2> QED
    BY <1>2, <1>3, <2>1, <2>2
<1>8. CASE VerifierAhead /\ UNCHANGED pc
  <2>1. /\ todo[V] = Tail(todo[P]) /\ at[V] = "enter" /\ (pc[V] = "run" \/ Rest(V))
        /\ run_times[V] = [run_times[P] EXCEPT ![Cur(P)] = @ + 1] /\ hdr = <<>>
        /\ out = <<Cur(P)>> \/ (out = <<>> /\ ~up)
    BY <1>8 DEF VerifierAhead, Ahead
  <2>2. CASE FinishRun(P) /\ out' = <<>>
    <3>1. todo'[P] = todo'[V] /\ at'[P] = at'[V] /\ SameCounts' /\ Quiet'
      BY <1>1, <1>5, <2>1, <2>2 DEF SameCounts, Quiet
    <3>2. (pc'[P] = "run" /\ pc'[V] = "run") \/ (Rest(P)' /\ Rest(V)')
      BY <1>1, <1>5, <1>8, <2>1, <2>2, <3>1 DEF Rest
    <3>3. Even'
      BY <3>1, <3>2 DEF Even
    <3> QED
      BY <3>3 DEF Standing
  <2>3. CASE ~up /\ out' = <<>> /\ UNCHANGED <<run_times, todo, at>>
    <3>1. Cur(P)' = Cur(P)
      BY <2>3 DEF Cur
    <3>2. VerifierAhead'
      BY <1>1, <1>8, <2>1, <2>3, <3>1 DEF VerifierAhead, Ahead, Rest
    <3> QED
      BY <3>2 DEF Standing
  <2>4. out # <<>> => Tail(out) = <<>>
    BY <2>1, OneOf
  <2> QED
    BY <1>2, <1>3, <2>2, <2>3, <2>4
<1> QED
  BY <1>1, <1>2, <1>3, <1>4, <1>6, <1>7, <1>8
     DEF Standing, HalfSetup, ProverAhead, Ahead, Asked

LEMMA RunsDoneStanding ==
    ASSUME CircuitsAssumption, Material, Standing, NEW q \in Party, RunsDone(q)
    PROVE  Standing'
<1>1. /\ pc[q] = "run" /\ todo[q] = <<>> /\ pc' = [pc EXCEPT ![q] = "idle"]
      /\ UNCHANGED <<todo, at, run_times, hdr, out, up>>
  BY DEF RunsDone, counters
<1>2. pc'[q] = "idle" /\ \A r \in Party \ {q} : pc'[r] = pc[r]
  BY <1>1 DEF Material, Data
<1>3. CASE Over
  BY <1>1, <1>2, <1>3 DEF Over, Standing
<1>4. CASE Stopped
  BY <1>1, <1>2, <1>4 DEF Stopped, Standing, Party
<1>5. CASE Even
  <2>1. todo[P] = <<>> /\ todo[V] = <<>> /\ at[P] = at[V]
    BY <1>1, <1>5 DEF Even, Party
  <2>2. at[P] = "enter"
    BY <2>1 DEF Material, InPlace
  <2>3. pc[P] \in {"run", "idle"} /\ pc[V] \in {"run", "idle"}
    BY <1>1, <1>5 DEF Even, Rest, Party
  <2>4. Rest(P)' /\ Rest(V)'
    BY <1>1, <1>2, <2>1, <2>2, <2>3 DEF Rest, Party
  <2>5. Even'
    BY <1>1, <1>5, <2>1, <2>4 DEF Even, SameCounts, Quiet
  <2> QED
    BY <2>5 DEF Standing
<1>6. CASE VerifierAhead
  <2>1. q = V
    BY <1>1, <1>6 DEF VerifierAhead, Ahead, Party
  <2>2. Cur(P)' = Cur(P)
    BY <1>1 DEF Cur
  <2>3. VerifierAhead'
    BY <1>1, <1>2, <1>6, <2>1, <2>2 DEF VerifierAhead, Ahead, Rest, Party
  <2> QED
    BY <2>3 DEF Standing
<1>7. CASE ProverAhead
  <2>1. q = P
    BY <1>1, <1>7 DEF ProverAhead, Ahead, Party
  <2>2. Cur(V)' = Cur(V)
    BY <1>1 DEF Cur
  <2>3. ProverAhead'
    BY <1>1, <1>2, <1>7, <2>1, <2>2 DEF ProverAhead, Ahead, Rest, Party
  <2> QED
    BY <2>3 DEF Standing
<1>8. CASE Asked
  <2>1. q = V
    BY <1>1, <1>8 DEF Asked, Party
  <2>2. Asked'
    BY <1>1, <1>2, <1>8, <2>1 DEF Asked, Rest, SameCounts, Runs, Times, Party
  <2> QED
    BY <2>2 DEF Standing
<1>9. ~HalfSetup(P, V) /\ ~HalfSetup(V, P)
  BY <1>1, HandshakeRuns DEF HalfSetup, Party
<1> QED
  BY <1>3, <1>4, <1>5, <1>6, <1>7, <1>8, <1>9 DEF Standing

LEMMA AskStanding ==
    ASSUME CircuitsAssumption, Material, Standing, NEW op \in Requests, Ask(op)
    PROVE  Standing'
<1>1. /\ pc[P] = "idle" /\ UNCHANGED <<at, run_times, out, up>>
      /\ hdr' = IF up THEN Append(hdr, op) ELSE hdr
  BY DEF Ask, counters
<1>2. todo[P] = <<>> /\ at[P] = "enter"
  BY <1>1 DEF Material, InPlace
<1>3. CASE pc' = [pc EXCEPT ![P] = "fail"]
  <2>1. pc'[P] = "fail"
    BY <1>3 DEF Material, Data, Party
  <2> QED
    BY <2>1 DEF Standing, Over, Party
<1>4. CASE pc' = [pc EXCEPT ![P] = "run"] /\ todo' = [todo EXCEPT ![P] = Runs(op)]
  <2>1. pc'[P] = "run" /\ pc'[V] = pc[V] /\ todo'[P] = Runs(op) /\ todo'[V] = todo[V]
    BY <1>4 DEF Material, Data, Party
  <2>2. CASE Over
    BY <1>1, <2>1, <2>2 DEF Over, Standing, Party
  <2>3. CASE Stopped
    BY <1>1, <2>1, <2>3 DEF Stopped, Standing
  <2>4. CASE ProverAhead
    <3>1. Stopped'
      BY <1>1, <1>2, <2>1, <2>4 DEF ProverAhead, Ahead, Stopped
    <3> QED
      BY <3>1 DEF Standing
  <2>5. CASE Even
    <3>1. Rest(V) /\ SameCounts /\ Quiet
      BY <1>1, <2>5 DEF Even
    <3>2. CASE ~up
      <4>1. Stopped'
        BY <1>1, <2>1, <3>1, <3>2 DEF Stopped, Rest, Quiet
      <4> QED
        BY <4>1 DEF Standing
    <3>3. CASE up
      <4>1. hdr' = <<op>>
        BY <1>1, <3>1, <3>3, Appended DEF Quiet
      <4>2. hdr' # <<>> /\ Tail(hdr') = <<>> /\ Head(hdr') = op
        BY <4>1, OneOf
      <4>3. op.name # "STOP" /\ Runs(op) # <<>>
        BY RequestRuns
      <4>4. Runs(Head(hdr))' = Runs(op)
        BY <4>2 DEF Runs, Times
      <4>5. Asked'
        BY <1>1, <1>2, <2>1, <3>1, <4>2, <4>3, <4>4 DEF Asked, Rest, SameCounts, Quiet
      <4> QED
        BY <4>5 DEF Standing
    <3> QED
      BY <3>2, <3>3
  <2> QED
    BY <1>1, <2>2, <2>3, <2>4, <2>5 DEF Standing, HalfSetup, VerifierAhead, Ahead, Asked
<1> QED
  BY <1>3, <1>4 DEF Ask

LEMMA ServeStanding == ASSUME Material, Standing, Serve PROVE Standing'
<1>1. /\ pc[V] = "idle" /\ hdr # <<>> /\ hdr' = Tail(hdr)
      /\ UNCHANGED <<at, run_times, out, up>>
  BY DEF Serve, counters
<1>2. CASE Over
  <2>1. pc[P] \in {"fail", "done"} /\ pc'[P] = pc[P]
    BY <1>1, <1>2 DEF Over, Party, Serve, Material, Data
  <2> QED
    BY <2>1 DEF Standing, Over, Party
<1>3. CASE Asked
  <2>1. Head(hdr).name # "STOP" /\ hdr' = <<>>
    BY <1>1, <1>3 DEF Asked
  <2>2. /\ pc'[V] = "run" /\ todo'[V] = Runs(Head(hdr)) /\ pc'[P] = pc[P]
        /\ todo'[P] = todo[P]
    BY <2>1 DEF Serve, Material, Data, Party
  <2>3. Even'
    BY <1>1, <1>3, <2>1, <2>2 DEF Asked, Rest, Even, SameCounts, Quiet
  <2> QED
    BY <2>3 DEF Standing
<1> QED
  BY <1>1, <1>2, <1>3 DEF Standing, Even, Quiet, HalfSetup, VerifierAhead, ProverAhead,
                          Ahead, Stopped

LEMMA StepStanding ==
    ASSUME CircuitsAssumption, Material, Standing, [Next]_vars PROVE Standing'
<1>1. ASSUME NEW q \in Party, NEW there \in {"fail", "done"}, pc' = [pc EXCEPT ![q] = there]
      PROVE  Standing'
  <2>1. pc'[q] = there
    BY <1>1 DEF Material, Data
  <2> QED
    BY <1>1, <2>1 DEF Standing, Over
<1>2. CASE AskStop
  BY <1>1, <1>2 DEF AskStop, Party
<1>3. ASSUME NEW q \in Party, IoFails(q) PROVE Standing'
  BY <1>1, <1>3 DEF IoFails
<1>4. CASE Break \/ UNCHANGED vars
  <2>1. UNCHANGED <<pc, todo, at, run_times, hdr, out>> /\ (~up => ~up')
    BY <1>4 DEF Break, counters, vars
  <2>2. Cur(P)' = Cur(P) /\ Cur(V)' = Cur(V) /\ Rest(P)' = Rest(P) /\ Rest(V)' = Rest(V)
    BY <2>1 DEF Cur, Rest
  <2>3. Over => Over'
    BY <2>1 DEF Over
  <2>4. Even => Even'
    BY <2>1 DEF Even, Rest, SameCounts, Quiet
  <2>5. (HalfSetup(P, V) => HalfSetup(P, V)') /\ (HalfSetup(V, P) => HalfSetup(V, P)')
    BY <2>1 DEF HalfSetup, SameCounts, Quiet
  <2>6. (Ahead(V, P) => Ahead(V, P)') /\ (Ahead(P, V) => Ahead(P, V)')
    BY <2>1, <2>2 DEF Ahead, Rest
  <2>7. (VerifierAhead => VerifierAhead') /\ (ProverAhead => ProverAhead')
    BY <2>1, <2>2, <2>6 DEF VerifierAhead, ProverAhead
  <2>8. (Asked => Asked') /\ (Stopped => Stopped')
    BY <2>1 DEF Asked, Stopped, Rest, SameCounts, Runs, Times
  <2> QED
    BY <2>3, <2>4, <2>5, <2>7, <2>8 DEF Standing
<1> QED
  BY <1>2, <1>3, <1>4, PreprocessStanding, OnlineStanding, EvaluateStanding,
     ReceiveStanding, SetupDoneStanding, RunsDoneStanding, AskStanding, ServeStanding
     DEF Next, Progress, Ended

-----------------------------------------------------------------------------
(* The properties *)

IInv == Material /\ InFlight /\ Flags /\ Standing

LEMMA InitIInv == ASSUME CircuitsAssumption PROVE Init => IInv
<1> SUFFICES ASSUME Init PROVE IInv
  OBVIOUS
<1>1. InFlight
  <2>1. hdr = <<>>
    BY DEF Init
  <2>2. Len(hdr) = 0
    BY <2>1
  <2> QED
    BY <2>2 DEF InFlight
<1> QED
  BY <1>1, InitMaterial, InitFlags, InitStanding DEF IInv

LEMMA StepIInv == ASSUME CircuitsAssumption PROVE IInv /\ [Next]_vars => IInv'
BY StepMaterial, FlightKept, StepFlags, StepStanding DEF IInv

LEMMA IInvSuffices ==
    ASSUME CircuitsAssumption
    PROVE  IInv => TypeOK /\ InStep /\ FreshMaterial /\ NothingFromALostRun
<1> SUFFICES ASSUME IInv PROVE TypeOK /\ InStep /\ FreshMaterial /\ NothingFromALostRun
  OBVIOUS
<1>1. TypeOK
  BY TypesSplit DEF IInv, Material
<1>2. InStep
  BY BothWant DEF IInv, InStep
<1>3. FreshMaterial
  <2>1. \A c \in Circuit : uses[P][c] <= Budget(c) /\ exec_times[P][c] <= Budget(c)
    BY Kinds DEF IInv, Material, Counted, Budget
  <2>2. uses[P] = uses[V] /\ exec_times[P] = exec_times[V]
    BY DEF IInv, Material, Counted
  <2> QED
    BY <2>1, <2>2 DEF FreshMaterial, Party
<1>4. NothingFromALostRun
  BY DEF IInv, Material, Lost, NothingFromALostRun
<1> QED
  BY <1>1, <1>2, <1>3, <1>4

\* The parties build and run the same circuits in the same order and preprocess
\* again before the same run, each by its own counters and with requests,
\* outputs and the connection lost at any point (do_preproc and
\* exec_small_internal in EmpWrapperAG2PC.cpp).
THEOREM PartiesInStep == ASSUME CircuitsAssumption PROVE Spec => [](TypeOK /\ InStep)
<1>1. IInv => TypeOK /\ InStep
  BY IInvSuffices
<1> QED
  BY <1>1, InitIInv, StepIInv, PTL DEF Spec

\* No preprocessed instance is used twice and none is indexed past the end of
\* what was preprocessed, for every setting of the iteration counts
\* (run_times and amortized_2pc.h's exec_times).
THEOREM MaterialUsedOnce == ASSUME CircuitsAssumption PROVE Spec => []FreshMaterial
<1>1. IInv => FreshMaterial
  BY IInvSuffices
<1> QED
  BY <1>1, InitIInv, StepIInv, PTL DEF Spec

\* No request but a rotation succeeds on the zeros that a lost output leaves
\* (exec_small_internal returns true although has_io_failed).
THEOREM ZerosStopHere == ASSUME CircuitsAssumption PROVE Spec => []NothingFromALostRun
<1>1. IInv => NothingFromALostRun
  BY IInvSuffices
<1> QED
  BY <1>1, InitIInv, StepIInv, PTL DEF Spec
=============================================================================
