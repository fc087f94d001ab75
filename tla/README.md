# A verification project for SURF

`src/tutorials/surf-impl` lets a *prover* fetch a page over TLS 1.3 such that a
*verifier*, who holds half of every session key, can vouch for the records of
the response. The origin server runs ordinary TLS. This directory models the
two programs, the cryptographic conversions and the transport they rest on, checks
the models with TLC and proves with TLAPS the promises of the verifier, of the
session of prover and verifier, of Rotate mode as a whole, of the round handoff, of the
circuit wrappers and of the transport. The repository holds a second program of its own,
the FrodoPIR tutorial in `src/tutorials/frodo-pir-fast`, which has one module. Paths below
are relative to `src/tutorials/surf-impl/src` unless they name the tutorial.

## The system

| Part | State it keeps | Operations | Where |
|---|---|---|---|
| Verifier state machine | `Server::state`, run type, handshake mode, PSK share | one handler per state, `run`, `run_resumption`, `accept_and_read_mode` | `nodes/Server.cpp` |
| Verifier record operations | traffic key shares, commitment and release latches, verified and encrypted sequence numbers, the last ciphertext, retained ciphertexts | `read_key_commitment`, `release_key`, `rotate_key_op`, `verify_gcm_tag`, `derive_keystream_blocks`, `encrypt_blocks`, `make_gcm_tag` | `nodes/Server.cpp` |
| Prover callbacks | circuits, shares, captured records, all hung on the `SSL` object | one callback per phase of the handshake, `encrypt_request`, `verify_record_tag`, `derive_keystream`, `true_surf_release`, `rotate_surf_release` | `ssl/ThreePartyHandshake.cpp` |
| TLS hooks | `surf_records`, the capture mode | where BoringSSL calls the callbacks, the sealed capture | `boringssl/ssl` |
| Drivers | the ticket for the next round; browser queue | `surf_fetch`, `serve_to_browser`, `run_verifier`; `do_single_get`, the rounds of MultiGet | `demo`, `benchmarks` |
| Round handoff | five files: queue, cursor, ticket, two PSK shares | save and load | `ssl/Roundhandoff.hpp`, `benchmarks/MultiGet.b.cpp`, `scripts/run_multiget.sh` |
| Circuits | preprocessed material, iteration counters | build, preprocess, run | `ssl/EmpWrapperAG2PC.*`, `2pc` |
| emp channel | write buffer, read buffer, failure flag | `send_data_internal`, `flush`, `recv_data_internal` | `ssl/EmpWrapper.*`, `ssl/SSLBuffer.*` |
| Share conversions | temporaries, tables of shares | MtA, ECtF, shares of the powers of H, GHASH | `mta`, `ssl/GHash.hpp` |
| Sockets, messages, statistics | descriptors, counters | connect, accept, read, write | `ssl`, `nodes` |
| FrodoPIR | database, public matrices, prepared rows | offline phases, query, response, parse | `frodo-pir-fast` |

Prover and verifier talk over one TLS connection. On it one-byte headers and the
raw traffic of the joint circuits follow each other without framing, so the two
programs must be in lock-step at every byte. There is one thread on each side;
what makes the system hard is

- **ordering**: the verifier serves record operations in whatever order the
  prover asks, and only its latches and lists keep a released key from attesting
  anything further or a nonce from being used twice;
- **agreement** of two programs on where they are: full or resumed, ticket
  accepted or declined, zero, one or several tickets, PSK phase or `PSK_SKIP`;
- **failure**: either process may die, a handler may fail half way, the origin
  may stop early, and the next connection meets what was left;
- **files** that two processes write separately and that a kill can tear.

Three modes exist (`ssl/SurfMode.hpp`). In *Masked* mode each record is verified
and opened as it arrives, with keystream from a joint circuit. In *True* mode the
records are captured sealed, the prover commits to its key share, has all tags
verified, and only then gets the verifier's share. *Rotate* mode does the latter
per epoch, with TLS key updates in between.

What makes each part correct: the record operations must attest only what the
origin sealed, must never attest under a released key, never reuse a nonce, never
tag a mixture; the session must stay in lock-step, run PSK circuits on halves of
one PSK, end, and never give up on an honest peer; a release must deliver the whole
response or fail; the handoff must keep ticket and shares together and pass over
no asset. Below that: both sides must run the same circuits on fresh material, the
channel must be a byte stream, each byte of a record must meet its own keystream
block, the conversions must end in shares of the right value on both sides or on
none, and a PIR answer must be the element asked for.

## The modules

### VerifierOps: the verifier against any prover

State: `skey`/`ckey` say whose share is in `server_key_share`/`client_key_share`;
keys are numbered in the order in which they are derived and never come back.
`key_committed`, `key_released`, `key_commitment`, `verified_seqs`, `attested_ct`,
`encrypted_seqs`, `encrypted_ct`, `encrypt_ct_len` are the members of `Server` of
the same names. `committed`, `leaked`, `attested`, `revealed`, `used`, `reused` and
`tagged` record what has happened.

There is one action per record operation, each taken with all headers and
arguments: the prover is not assumed to follow any protocol. A handler that returns
false ends the run, so a refusal leads to `FAILED`; what it had assigned before stays
until `reset_per_connection_state`. The half-way failures are there: rotation after
the new key is installed, encryption after some batches, release with a failed
write, `TAG_OK` not written. `encrypted_seqs.back()` on an empty vector is any
value at all. The joint handshake is one action here (`Establish`); Session has its
detail.

The circuits are ideal (`TagPasses`, external): a tag check succeeds for the
origin's ciphertext under the reconstructed key and number, and for one that the
prover sealed itself only if it was given the verifier's share. That is the
assumption under which the design is meant to be secure; the model shows what the
*control* around the circuits makes of it.

`AttestedKeys` is the abstract specification: a key is committed to, attests
records of the origin, is released, and then attests nothing. `AttestsInOrder`
says that the verifier implements it.

### Session: two honest programs

Each callback and each handler is a script, the sequence of its sends and blocking
receives; a joint circuit is a message each way that carries the circuit's name and
the one input the properties follow (which PSK, does the tag fit). `ProverSend`,
`ProverRecv`, `VerifierSend`, `VerifierRecv` and `VerifierServe` run the scripts;
the other actions are the decisions between them: offer the ticket or not
(`ClientHello`), resumed or not (`ServerHello`), abandon a round that did not resume
(`Established`), the request, which is written in full before the read loop begins
(`RequestWritten`), the read loop, `true_surf_release` (`SubmitRecord`, `OpenRecords`,
`ReplayRecord`), the PSK phase, the end of the round. The origin is the
environment: it declines tickets, sends up to `MaxRecords` records of any kind in
any order, with tags that do not fit, pads, closes with or without `close_notify`,
or fails. `verifier.state` walks `States`, the list of `kResumptionStates`, which is
also the order of `next_state`.

The PSK is known by the round that derived it. Messages keep only names: the bytes
of shares, transcripts and commitments do not matter here.

### Handoff: rounds as processes

A round's protocol is one step with an outcome (`fail`, `skip`, `psk`); what
follows is in detail: each process has a list of pending writes, a write truncates the
file and then fills it, and the runner may kill the prover at any time and the
verifier once the prover is gone. `Torn` is a truncated file, `None` a missing one.

### RotateSession: Rotate mode, three programs

The driver of `benchmarks/E2E.b.cpp` with `rotate_traffic_keys`,
`rotate_surf_release_epoch` (flow `epoch`: a release after each request) or
`rotate_surf_release` (flow `batch`: one at the end), its origin, and the verifier.
The verifier is VerifierOps itself: the module extends it, and an exchange is one step
that is a step of the prover *and* the VerifierOps action for the header the prover
sent. So the prover's order of calls meets the gates and dispatch loops as they are
proved about, and a refusal there is a failure here. `p` holds the prover's place,
its shares (numbered as VerifierOps numbers keys) and its SSL counters, `recs` is
`surf_records`, `o` the origin's epochs and sequence numbers. `why` records what has
happened that excuses a failure (a lost connection, an origin that closed or sent no
ticket, a timeout). `NumbersAgree` sums up what the two sides must agree on; the
numbers and the request tag pass through the gates of VerifierOps (`TagGate`) like
everything else. `AppData`, the assembly of the opened records, is a recursive
function on the length of the sequence.

### Circuits: what is preprocessed, and when again

Both sides of `do_preproc` and `exec_small_internal`, each with its own `run_times`,
emp's own `exec_times`, and the uses since the last preprocessing. `ProverSet` and
`VerifierSet` are the two lists of circuits, from two source files; `Requests` are what
the prover may ask for after the handshake. Joint phases are joint steps that need the
two sides to want the same. Outputs go from BOB to ALICE as messages, and a break
before one leaves ALICE with zeros and success, as in the code.

### EmpStream and ByteStream: the channel under emp

One direction of the buffered channel. A plan over `N` bytes says where the sender
flushes, where it waits for an answer and where the receive calls end; the plan is
chosen in `Init`, so all placings are checked. `base`, `lower` and `upper` are the
heads of `SSLBuffer`. `ByteStream` is what emp expects of an IOChannel, and `StreamSpec`
says that EmpStream implements it. Two things are assumed of the plans, because they
come from how the protocols of emp call the channel and not from the channel itself:

- no receive needs more than what is buffered and one frame (`Aligned`); the code does
  not check it. `SSLBuffer` is made with `hold_flush = true` and never flushes by
  itself, so frames end only where emp flushes, and at the send, flush and receive
  sites of emp that were read no receive spans two new frames;
- a sender flushes before it waits for an answer (`FlushesBeforeAnswer`), as those sites
  do. The mutant that forgets it leaves both sides waiting, and `Ends` fails.

### RecordPath: lengths, indices and limits

One response through the prover's record path: `tls_open_record`, the tag check, the
batches of `derive_keystream`, the opening against the keystream buffer, or the sealed
capture and `true_surf_release`, and the driver's loop around them. A keystream block
is the counter block it was derived from, so what a record is opened with can be
compared with what it should be. All sizes are constants: the same definitions run with
the sizes of the source (configuration `real`; the padding bit is 2^30 there because TLC's
integers end at 2^31) and with small ones, where every limit is reached in a few records.

The origin may pad its records (`Pads`). `tls_open_record` strips the padding, the
release of the sealed capture takes the last byte for the content type, and so loses
padded application data; `DeliveredWhole` and `LegalResponsesDelivered` except exactly
that (finding 1) and cover a padded `close_notify`. After the records the HTTP/2 driver
parses what it got and counts the streams that are still open (`h2_client_run_true`),
while the other drivers go by how the response ended.

### MtA, ECtF, GcmShares: the conversions

`MtA` converts products modulo `q` over an ideal oblivious transfer, single or two at a
time, with the vectors cut into TLS records. `ECtF` takes two points of a curve to
shares of the x-coordinate of their sum, over an ideal MtA, with the temporary that the
MtA leaves behind. `GcmShares` takes H to shares of its powers and hashes messages with
them, in GF(2^W) in both bit orders; the values of the batched consistency check are
left out, its messages are there. Random choices are nondeterministic; a break may come
at every step, and where the code does not look at the result of a read or of a
transfer the model goes on with a value of no meaning.

### FrodoPir

The tutorial's server and client: database to matrix, the two offline phases, query,
response, rounding and the way back to bytes. A matrix is its dimensions and a vector
that may be longer than they say, because the code permits that, and because it happens:
`ClientParams::new` starts `s_vec` and `e_vec` as zeros of the full length and extends
them with the sampled rows (`offline.rs:72-82`), so the rows that are used are zeros
(see Findings). The set `Secrets` therefore has no effect on the run `pir`, and no noise
reaches the rounding: `Retrieved` is about the layout, the scaling and the way back to
bytes, not about the tolerance for errors.

## Runs

A component that is interesting in several configurations has an MC module that
instantiates it once per configuration, over the same variables; a variable that never
changes says which one a behaviour belongs to, so one run goes through all of them.
Properties of an MC module state the component's properties configuration by
configuration, with its type invariant.

| Run | Shows | Configurations and bounds |
|---|---|---|
| `verifier_rotate` | the nine properties of the sealed-capture verifier against any prover | Rotate mode, 4 keys, 2 numbers, 1 length |
| `verifier_masked` | the keystream gate | Masked mode, 4 keys, 2 numbers, 2 lengths |
| `session` | lock-step, agreement on the PSK, tickets, no spurious failure, complete pages, termination | sealed: 2 rounds, 3 records, tampering; dying: 2 rounds, 2 records, crashes; masked: 1 round, 3 records of every kind, crashes, a ticket handed over or not |
| `handoff` | files belong together; nothing is passed over; a full round repairs | clean: 5 rounds; killed: 4 rounds, kills at any write; 2 assets |
| `rotate` | numbers fit in both directions, each release is the right response and attested, released keys are closed, no spurious failure, termination | epoch: 3 requests, 1 ticket; late: 2 requests, 2 tickets at any time, timeouts; batch: 1 request, 2 updates by the origin, 1 ticket, five-byte records |
| `emp` | EmpStream implements ByteStream; circuits in step, material fresh, nothing from a lost run; termination | all plans over 5 bytes; Rotate and resumed Masked circuits, budgets of 2 and 3, 4 requests, up to 3 batches; breaks |
| `record` | own keystream for every byte, fresh counters, exact block map; legal responses delivered, whole or not at all; termination | real: the sizes of the source at the edges of all tests, padding of 0 or 2^14; masked, sealed, h2: small sizes, 5 or 6 records, padded or not, capture of 3, faults |
| `shares` | products, the shared coordinate, the powers of H and GHASH are shared; nobody is left waiting | MtA: q = 3, 2 products, two values of sigma, one of delta (two take too long); ECtF: all points of a curve over GF(7); GcmShares: GF(2^3), 4 powers, messages of up to 4 blocks; breaks |
| `pir` | the element comes back; rows are spent together | modulus 64, 2 elements of 4 bits, 2 queries |
| `session_padded`, `handoff_skip`, `rotate_open` | violations, see Findings | small |

Why the bounds are enough to be interesting. Four keys are two connections, or one
with two rotations; every latch is reset between any two of them. Two sequence
numbers let a number be verified and another not, or one be used again after
another. Two rounds are a full round and one that resumes off its ticket, or a
failed one and its successor; three records are two tickets and a close, or a
ticket between data. Five rounds of the handoff let a queue be emptied, retried and
replaced. Three requests in Rotate mode are two rotations in each direction, so that a
rotation follows one and the ticket can fall before, between and after them. Budgets
of two runs are used up, preprocessed again and used up again within four requests.
Five bytes of a stream are three frames with receives that end inside, at and across
their ends. The record path has a batch of three and a buffer of seven blocks: a
record can fill less than a batch, more than one, and the whole buffer. The
conversions are linear, and small fields have all the cases that differ: zero, one,
inverses, reductions, points with equal x-coordinate. `Tamper`, `Padding`, `Crash`,
`Carried`, `Kills`, `Faults`, `Timeouts`, `Short`, `LateTickets` and the outcome sets
switch parts of the environment on, so that a violation can be put down to one of
them.

Fairness: each program is a sequential process that the system keeps
running, so weak fairness of its steps (`Session`, `RotateSession`, and `Step` or
`Progress` in the other modules; an MC module states it for the configuration at hand); TCP delivers what was written or reports
the peer as gone; `accept` has a timer; the user closes the browser in the end
(`Quit`). The origin is not assumed to send anything in Session, only that its silence
ends (`EndOfStream`), which is the read returning; in RotateSession it is the loop of
`server_hs` and answers. Nothing is assumed of crashes and breaks. In Circuits,
EmpStream and the conversions, a wait on a broken connection ends because
`process_data` and the TLS library report the error. VerifierOps, Handoff and FrodoPir
need no fairness.

Every model has a stuttering step for its legitimate ends, so deadlock is checked in
all runs. In VerifierOps `Accept` and the refusals keep a step possible in every state.

## Findings

1. `session_padded`: `true_surf_release` looks for the content type in the last byte
   without removing RFC 8446 padding, although `surf_is_close_notify` removes it.
   With an origin that pads, application records are dropped and the release
   reports success. `rotate_surf_release` and `rotate_surf_release_epoch` test the last
   byte in the same way (lines 3145, 3168, 3275 and 3284); the origin of that path,
   `server_hs`, never pads, so RotateSession goes by the kind of the record.
2. `handoff_skip`: in a full round without a ticket the verifier overwrites its saved
   share with zeros; the comments say the handoff is unchanged. On a resumed round
   it is, which `handoff` checks.
3. `rotate_open`: `rotate_surf_release_epoch` has the verifier's share released before
   it looks whether the epoch is over. A five-byte response record or a timeout ends the
   drain early, and the released key is then not "always a closed epoch's". The attempt
   fails afterwards; without both, `rotate` shows the comment to be right.

Smaller disagreements of comments and code that were met while modelling, without a
run of their own. The first four show when the constant named is changed:

- `Offline = FALSE` (Session): the inline preprocessing that
  `three_party_handshake_comm` keeps "so any caller that did not preprocess offline keeps
  working" cannot work, because the verifier preprocesses before it reads `COLLECT`;
  `LockStep` fails.
- `Kills = {"verifier"}` (Handoff): `run_multiget.sh` kills the verifier as soon as the
  prover has exited and does not wait for its save. A round then ends with exit code 0,
  `prover_psk.bin` written and `verifier_psk.bin` missing or old; `Consistent` fails,
  which is why `handoff` checks it for the clean configuration, and that a full round
  repairs it for the other.
- `Aligned = FALSE` (EmpStream): a receive that spans two frames under-reads; the code
  has a diagnostic for it. The theorem shows that this is the only way in which the
  stream can go wrong.
- `plaintext_bits = 2` (FrodoPir): the last plaintext of an element is lost when the
  plaintext size divides the element size; `Retrieved` fails.
- `offline.rs:72-82` (FrodoPir): S and E are zeros whatever was sampled, and so are B and
  C; a query is then the plain encoding of its index. `RowsSampled` states what the rows
  should be. It does not hold, and no run checks it.
- `mta/F2128MtA.inl:568-575`: the batched consistency check does `rhs ^= rhs`, where a
  term of `r` should be added, and sets `correct = false` if the two sides are equal. Its
  values are left out of GcmShares, so no run shows it.
- The comment on `ks_iters` (`ssl/EmpWrapperAG2PC.hpp`) wants a preprocessing to cover
  all masks and says that this is asserted. It covers 256 blocks of 1088 and nothing
  asserts it; `emp` shows that both sides preprocess again in step, so it costs time only.
- Three comments about limits (masks per connection in `ssl/Messaging.hpp`, 1024 powers in
  `ssl/GHash.hpp`, the records of the capture in `tls_record.cc`) that the code does not
  keep to; `LegalDelivered` and `WholeDelivered` hold nevertheless.

## Proofs

`VerifierOps_proofs` proves ten theorems about VerifierOps for every mode, every
set of sequence numbers and lengths and every number of keys. They use only the
assumptions named in the module (`ModeAssumption`, `SeqAssumption`,
`LensAssumption`, `FlagAssumption`, `MaxKeyAssumption`).

The properties are not inductive. That every attested record is genuine depends on
the key of the gate not having leaked, which depends on the latches agreeing with
what happened under the *current* key, which depends on keys never coming back. The
inductive invariant states this in named parts: `KeyOrder` (the current keys are
issued ones, and all that has happened concerns issued keys), `Latches`
(`key_released` is set exactly if the current key has leaked, and `key_committed`
exactly if it was committed to),
`Vouched` (every attestation is of an origin record, under a key that was committed
to), `Requests` (every number used under the current client key is in
`encrypted_seqs`, and `encrypted_ct`, when set, is the complete ciphertext of the last
of them), `Bound` (the
commitment is the share under which the current key attested, and what was attested
under an earlier key of the session was released) and `Verified`
(`verified_seqs` are attested under the current key). Refusals change nothing but
`state`; `NextIsStep` factors them out once, so that each remaining lemma has one case
per operation.

The refinement `ImplementsAttestedKeys` assumes a sealed-capture mode and maps
`released` to `leaked`: each step is a step of AttestedKeys or a stutter.

The first part of `MCEmp_proofs` proves `TypeCorrect` and `ImplementsByteStream` for
every `N` and every plan, from `EmpStreamAssumption` and `Aligned`. The refinement is not inductive:
that a receive returns the right bytes depends on where the heads of the read buffer
stand in the stream. The inductive invariant `InOrder` adds `Frames` (the frames under
way are consecutive, begin where the last one read ended, and end at cuts of the plan),
`Heads` (what lies between the heads is what was read and not yet taken) and `Positions`
(sent, flushed and taken are ordered and at places the plan permits). With it each step
of `recv_data_internal` is a `Take`, a `Fail` or a stutter of ByteStream; `Aligned` is
used at one place, that the frame read suffices for the rest of the receive.

`DisclosureComplete` adds that what is kept for a disclosure (`attested_ct`) is what was
attested in the session, over all its rotations.

`Handoff_proofs` proves `TypeCorrect`, `AssetsFetched`, `FullRoundRepairs` and, for the
configurations of the run, `CleanRoundsAgree` and `BothConfigurations`, for every number
of rounds and assets (`HandoffAssumption`). The inductive invariant says, write by write,
what a process still has to write and what the files it has written hold (`FullPlan`,
`TicketlessPlan`, `ResumedPlan`, `VerifierPlans`): the properties speak of files between
rounds, and only these plans connect them with a process that may be killed half way.
`AtAsset` is needed for the type of the cursor. For the clean configuration
`CleanInv` adds what each process has loaded and how far the files have moved from what
they were before the round (`Started`, `Loaded`, `Saved`).

`Circuits_proofs` proves `PartiesInStep`, `MaterialUsedOnce` and `ZerosStopHere` for all
iteration counts, numbers of requests and batches (`CircuitsAssumption`), and
the second part of `MCEmp_proofs` carries them over to the two circuit sets of the run
(`BudgetsAssumption`). That the parties want the same circuit is not inductive: between
two joint steps one of them may be ahead. The invariant is a disjunction of the ways in
which they can stand to each other (`Even`, `HalfSetup`, `VerifierAhead`, `ProverAhead`,
a request under way, or over), and `Material` ties the three counters of each side
together: uses since the last preprocessing, the wrapper's `run_times`, emp's
`exec_times`. `Lost` says how far zeros from a lost output can get.

`RotateSession_proofs` proves five theorems about the three programs of Rotate mode
together, for every number of requests, records, tickets, updates and keys
(`RotateAssumption` and the assumptions of VerifierOps).

- `NumbersFit`, without hypotheses. Its invariant `Inv` has the shares in step
  (`KeysInStep`), the records under way to the origin as a chain from what it expects to
  what the prover sends next (`SentInOrder`), the origin's records, captured and under
  way, as one ordered stream (`StreamInOrder`), and the beginning of the epoch and the
  numbers given at the capture in it (`EpochStart`, `Numbered`, `Checked`).
- `ReleasedClosed`, if polls do not expire (`~Timeouts`) and, in the per-round flow, no
  response record is as long as a KeyUpdate (`~Short`). Finding 3 is what happens
  otherwise. `KeysClosed` adds where a drain has stopped.
- `NothingSpurious`, if the origin of the per-round flow sends no such record and updates
  its keys only when asked (`MaxUpdates = 0`); otherwise `drain_until` takes a record for
  the end of the epoch that is not, and the release fails, as it should. `Excused` says
  that as long as nothing excuses a failure the two programs are in touch, each gate is
  open when the prover comes to it, the numbers are new to the verifier, the close comes
  last and a drain has captured a whole epoch.
- `AllAttested`, without hypotheses: `AllVouched` carries the attestations from record to
  record up to the release.
- `RightResponses`, if the origin of the per-round flow updates only when asked. It does
  not assume that anything goes well. `HandedOut` says where each record of a response is
  (in the stream, or lost together with all that came later), that nothing of a response
  follows the mark at its end, and that what has been handed out cannot be added to.
  So a release that finds the mark has the whole response before it.

What `AppData` computes is proved as well (`AppDataCollects`): the order on the naturals
is well-founded (`WFMin`), which gives induction for sets (`SetInduction`) without an
operator parameter. The steps of the three programs are first reduced to what the
invariants see of them (`Move`, `SmoothStep`), once, so that the lemmas after that have
one case per kind of step and not per action and refusal.

`MCRotate_proofs` instantiates these invariants for the three configurations of the run
and proves `DeliveredInAll`, `ReleasedInAll` and `SmoothInAll`. Its first lemmas show
that the instances of the proofs are about the same specifications as the instances of
the run.

`Session_proofs` and `SessionLink_proofs` prove six theorems about prover and verifier
together, for every mode, every set of record kinds, with and without tampering, crashes
and a ticket handed over, and for every number of rounds and records (`SessionAssumption`).

- In `Session_proofs`: `Typed`, without hypotheses, and `PageDelivered`, for an origin
  that does not pad (finding 1 is what happens if it does). They need only what each program says about
  itself: `PTypes`, `VTypes`, and `Own`, which ties the stage of the round to the
  connection, to the ticket, to the records captured and to the page.
- In `SessionLink_proofs`: `InStep`, `SharesAlwaysAgree`, `TicketsMatch` and
  `NeverRefused`, for a prover that preprocesses offline (`Offline = TRUE`), as all drivers of the repository do; the
  inline variant does not work, see above.

None of the latter is inductive. That the next message can be read says nothing about the
one after it, and a script that is being run has no trace of the handler it came from.
The invariant `LinkInv` is therefore about the whole conversation that is left.
`Trace(s, out, in)` says what a script sends and what it receives, and `Matches(Q, P, V, a, b)`
that with `a` and `b` in flight the scripts `P` of the prover and `V` of the verifier run
to their ends, every message readable where it is read, carrying the PSK that is expected
there, and nothing left over. A send, a receive and two conversations one after the other
keep this (`MatchProverSend` and what follows it, `DualConcat`); that a callback
and the handlers that answer it belong together is one `Dual` lemma for each pair.

The prover decides between its scripts what comes next, while the verifier walks on
through its states by itself. `Together` relates the two: what the verifier still has
to do, its script and the handlers after it (`After`), is the rest of the present
conversation followed by the handlers from the prover's next point on (`Agrees`), for
every way in which the round may still turn out (`Futures`: the verifier does not
know yet whether the ticket is accepted). `Phase`, `Walk`, `Latches` and `Shares` hold how
far the verifier can be, what it has been told, and which PSK it holds. A round that ends
leaves the verifier behind with messages of a prover that has gone on, so `Linked(g)`
speaks of `g`, the prover as it was when its end of the connection closed. The last
part of `Linked` is the promise between rounds: a kept ticket has its other half at the
verifier, or the verifier is about to get there.

Each action of the prover that starts a script is an extension of the conversation
(`Opens`, `Follows`), each action of the verifier a step along `After`, and `LinkStep` puts
them together, one case per action.

The attempt to prove `NeverRefused` showed that the model let the read loop begin while
the request was still being written, so that a verifier lost in between looked like the
end of the response; the code returns with an error there. The stage `request` was added
for this.

Only model-checked: all liveness, which needs fairness and is out of the prover's reach,
RecordPath, the conversions and FrodoPir. RecordPath and FrodoPir compute with lengths and
indices by folds, whose value for every input needs induction over data, and the
conversions compute in concrete small fields, which are functions TLC evaluates and not
facts about all fields. `InLockStep` and `PageComplete` are `LockStep` and
`DeliveredComplete` for the configurations of the run `session`; `InStep` and
`PageDelivered` state them for all.

## Not modelled

- The circuits themselves and their synthesis: thousands of gates. They are ideal.
  Oblivious transfer is ideal as well; the values of the batched consistency check of
  `F2128MtA.inl` and its unused additive variant are left out.
- Encodings of single messages, key share arithmetic, statistics, text processing in
  the drivers, the browser queue of the proxy.
- `StatefulSocket` and `TLSSocket`, thin layers over system calls.
- HelloRetryRequest, the certificate check by the prover, the unused
  `commit_to_session_ticket`.
- FrodoPIR's seeds and sampling (choices here), and the matrix operations it does not
  use.
- Everything vendored. Of some 418 000 lines of implementation in the repository, over
  nine tenths are BoringSSL, emp-tool, emp-ot and emp-ag2pc, among them generated
  circuits and tables of constants; the modified points of BoringSSL that the program
  depends on are modelled, the libraries are used as they are documented. The share of
  all lines that the map covers stays small for this reason; of the program's own
  code it covers most of `nodes/Server.cpp`, `ssl/ThreePartyHandshake.cpp`,
  `ssl/EmpWrapper.inl`, `ssl/EmpWrapperAG2PC.cpp` and `mta/ectf.cpp`, and the parts of
  the other files that decide or change state.

## Plan

1. Proofs: `ProductShared`'s framing part (`NothingLeft`) for all lengths; the capture
   limits of RecordPath.
2. The browser queue of the proxy and the life of a `StatefulSocket`, if they gain
   behaviour that a test would not reach.
3. A composition of Session with Circuits, so that the lists of circuits and the
   scripts of the callbacks are checked against each other.

Checking: `tlc -config X.cfg M` for each run of `PROJECT.json`, and `tlapm M.tla` for the
proofs, with M each of `VerifierOps_proofs`, `Handoff_proofs`,
`Circuits_proofs`, `MCEmp_proofs`, `RotateSession_proofs`, `MCRotate_proofs`,
`Session_proofs` and `SessionLink_proofs` (the longer ones take some minutes each).
