# Daisyway — TLA+ verification project

This directory holds TLA+ models of the Daisyway daemon (`src/daisyway`), the
TLC configurations that model-check them, and TLAPS proofs. Daisyway fetches
key material from a QKD device (ETSI GS QKD 014), mixes it with a pre-shared
key and derives an output shared key (OSK). It hands the OSK to WireGuard or
to a file. Two peers take part. The *server role* drives the rekey rounds.
The *client role* answers them over an unauthenticated TCP connection.

## 1. Inventory

| Component | Source | State it keeps | Operations |
|---|---|---|---|
| C1 Hash domain | `crypto/hash_domain.rs` | a 32-byte key | `zero`, `mix`, `mix_read_into`, forks |
| C2 Key derivation | `crypto/basics.rs` | none (pure) | `WireGuardConnectionId::new`, `KdfInput::new`, `derive_daisyway_key`, `RekeyReq::new`, `RekeyAck::validate` |
| C3 QKD client | `etsi014.rs` | URL, SAE id, HTTP client | `fetch_any_key`, `fetch_specific_key`; `Etsi014Key::try_from` unwraps base64 decoding |
| C4 Rekey protocol, server role | `crypto/server.rs` | stream, parameters | loop: fetch any key, write RekeyReq, read ack, derive, `set_fresh_osk`, sleep `rekey_interval` |
| C4 Rekey protocol, client role | `crypto/client.rs` | stream, parameters | loop: read RekeyReq, fetch specific key, write ack, derive, `set_fresh_osk` |
| C5 OSK sinks | `osk/mod.rs`, `outfile.rs`, `wireguard.rs` | the installed key | `set_osk(key, Fresh/Stale)`, `erase_stale_osk` |
| C6 OSK deadman | `osk/deadman.rs` | request channel (capacity 8), deadline, owned sink | startup erase; forward a request; erase on timeout; erase and exit on channel closure |
| C7 TCP client driver | `net/tcp_client.rs` | endpoint | connect, run the client role, on error sleep 2 s and reconnect |
| C8 TCP server / connection manager | `net/tcp_server/*.rs` | `next_connection_id`, `active_connection`, `budding_connections` (≤ 2000), notification channel (capacity 16), one task per connection | `on_accept`, `on_exit`, `on_osk` (stale / active / budding → promotion) |
| C9 Configuration and wiring | `setup.rs`, `util.rs`, `main.rs` | configuration | parse TOML, build deadman (erase_after = rekey_interval + 30), start the role |
| Simulator | `src/simulator` | a key counter | HTTP fixture |

**Interactions.** The server's manager spawns one task per accepted TCP
connection. Each task runs the server role. Its sink is a fanout handler that
sends `Osk` events on the manager's channel, and `Exit` when the task ends.
The manager keeps an `AbortOnDropHandle` per connection: dropping one aborts
the task. The manager forwards the OSKs it honours to the deadman through a
bounded channel. The deadman's worker thread owns the real sink. On the client
side the driver runs the client role directly on the deadman handle.

**What is hard.**
- Interleavings of many connection tasks with the manager's serial loop.
- Aborts are asynchronous: an aborted task may still complete a send that
  was in progress.
- Events of pruned or superseded connections arrive late.
- Bounded channels back-pressure the producers.
- Nothing on the wire has a timeout and the sockets have no keepalive: after
  a silent partition, only an end with unacknowledged bytes hears of it (TCP's
  retransmission timeout), and the other end blocks for ever.
- Acks can be lost after the client has installed its key.
- The deadman's time-based erasure, and a process exit racing that erasure.

**Correctness properties per component.**
- C8: the sink never gets a key from a connection older than the last one
  honoured (supersession). The budding map stays within its bound. Every running
  task is tracked, so nothing leaks. Every tracked connection is alive or has
  its Exit queued.
- C6: a Fresh key never outlives `erase_after` without a refresh. A Stale
  erase happens at startup and on shutdown.
- C4/C7: both peers eventually hold the same key. The server never delivers a
  key before it has a valid ack. The client driver eventually reconnects.
- C2: the two peers derive the same key exactly when their configurations
  mirror each other.
- C3: a reply becomes a key exactly when it holds one 32-octet key. A bad
  reply is an error that ends only the connection.
- C9: a configuration error ends start-up with an error, never a panic. A
  PSK file is taken whole.

The hazards, each at its source line, are listed in `PROJECT.json`.

## 2. Modules

Each module models one component, or one question about it. Its actions are
the code's handlers, with the guards, early returns and error paths the code
has. `PROJECT.json` ("map") names the source lines behind every definition.
A definition ending in a fault name (`...NoAck`, `...Unsorted`,
`...LocalOnly` and so on) is a *seeded fault* (section 3). It is never part
of `Next`.

### ConnectionManager (C8, with the server role abstracted)
- **State.**
  - `nextId` is `next_connection_id`.
  - `active` is the id of `active_connection`, with `None == -1`.
  - `budding` is the key set of `budding_connections`.
  - `task[c]` is the tokio task of connection `c`: unborn, running,
    cancelling or done.
  - `chan` is the notification channel, of capacity `ChanCap`.
  - `forwarded` is the connection whose key the manager last passed on.
- **Abstraction.** A key is the id of the connection that derived it. That
  is all that supersession tells apart.
- **Manager actions.**
  - `Accept` is `on_accept`, with pruning by `pop_first`.
  - `RecvExit` is `on_exit`, with its three branches.
  - `RecvOsk` dispatches to `OskFromStale`, `OskFromActive` and
    `OskFromBudding`. The last is promotion with `split_off`.
  - The `select!` in `event_loop` is the disjunction in `Next`.
- **Task actions.**
  - `RoundDone` is a server round plus the fanout send.
  - `ConnectionExits` is a protocol error, followed by `init_task`'s Exit.
  - `ConnectionPanics` is the base64 `unwrap` in `Etsi014Key::try_from`.
  - `AbortAll` is dropping `AbortOnDropHandle`s, and `Cancelled` is the
    abort taking effect.
  - `CancelRacesSend` is a poll in progress that still completes its send.

### OskDeadman and KeyLifetime (C6, with the sinks of C5)
- **State.** The clock is discrete.
  - `worker` is the worker thread: starting, waiting, stopped or panicked.
  - `timer` counts the ticks left before `next_erase`.
  - `queued` holds the requests in the bounded channel (`DeadmanCap`, 8 in
    the code).
  - `handles` counts the live `OskDeadman` clones.
  - `sink` and `age` are the reason and the age of the key the sink holds.
  - `alive` is false once the process has exited.
- **Actions.** There is one action per branch of `event_loop`:
  - `Start` is the start-up erase.
  - `Receive` writes a received request to the sink.
  - `Timeout` is the erase at the deadline. The deadline is recomputed on
    every iteration.
  - `Closed` erases and exits once the channel is closed.
- **Other steps.**
  - `Send` is `set_osk_impl` on a bounded channel.
  - `DropHandle` drops a handle.
  - `ProcessExit` is `main` returning without joining the detached thread.
  - `Tick` advances the clock.
  - `SinkWrite` is a sink's `set_osk`. When `SinkMayFail`, it may fail, and
    the worker then panics.
- **Abstract spec.** `KeyLifetime` says what the deadman promises: a Fresh
  key is installed, erased, or ages, but never past `EraseAfter`. `OskDeadman`
  instantiates it with the identity mapping (`reason <- sink`,
  `running <- alive`). `OskDeadmanProofs` proves `Spec => KL!Spec`
  (section 5). TLC checks `FreshKeyBounded`, the bound the abstract spec
  states.

### RekeyProtocol (C4 and C7)
- **Roles.**
  - The server role is one task per connection slot: `SrvFetch`, `SrvSend`,
    `SrvRecvAck`, `SrvDeliver`, `SrvWake` and `SrvEnd`.
  - The client driver and role are a single process: `Connect`,
    `CliRecvReq`, `CliFetch`, `CliSendAck`, `CliInstall`, `CliRetry` and
    `CliEnd`.
- **Links.** Each slot's TCP link is up, reset or dead. Dead is a silent
  partition (`HalfOpen`).
  - A reset fails both ends' I/O.
  - At a partition, each end's bytes in flight (a message or a FIN) either
    already reached the peer's kernel, and stay readable, or are lost.
  - A write or FIN on a dead link is lost too.
  - An end whose bytes were lost holds unacknowledged data (`unacked`).
    The kernel retransmits it and, after `tcp_retries2`, fails the socket
    with ETIMEDOUT (`RetransmitTimeout`, `timedOut`). That end's pending
    read then returns an error, and the role ends.
  - An end with nothing unacknowledged is never told: no read in the code
    has a timeout and the sockets have no keepalive, so its read blocks
    for ever.
- **Faults.** At most `MaxFaults` of them: QKD errors, refused connects,
  resets and partitions. Partitions happen only when `HalfOpenPossible`.
- **Keys.** A key is its QKD key id. The ack carries, as a ghost, the round
  it answers.
- **Fairness.** `FairSpec` adds weak fairness of the client process, of
  each server task and of each end's retransmission timeout.
  - Every task is a tokio task that the runtime keeps polling while it is
    ready.
  - The retransmission timer is the kernel's, and it fires while bytes
    stay unacknowledged.
  - Faults get no fairness.

### Etsi014Reply (C3)
- **Code modelled.** `fetch_key_internal` and the two `TryFrom` conversions.
- **Abstraction.** A reply is an HTTP outcome (unreachable, error status,
  bad JSON or success) with a sequence of key texts. A key text is either
  valid padded base64 of `bytes` octets, or malformed text of `len`
  characters.
- **Outcome of `KeyFromResponse`.** It reproduces the code's three outcomes:
  - the `assert!` on `Base64::encoded_len` of the text, then the unwrapped
    decode into a 32-octet buffer (a panic);
  - the `try_into()?` (an error);
  - success.

### KeyFile (C9)
- **Code modelled.** `load_base64_key_file`, `read_to_end_up_to` and
  `base64_to_key`.
- **The read loop.** `Read` is one pass of the loop: a chunk of any size,
  an `Interrupted` retry (a stutter), EOF, a full buffer, or an error.
- **The decode.** When the loop ends, one trailing `\n` is trimmed and the
  text is decoded into a zeroed key. `DecodedOctets` gives what base64ct
  decodes from a prefix of the file.

### DaisywaySetup and DaisywayCli (C9, main.rs, C7 dispatch)
- **DaisywaySetup.** It models the start-up:
  - `ExchangeCommand::run` through `load_from_file`, which picks the
    configuration read;
  - the fallible steps of `Daisyway::from_config`, in their order: the PSK,
    both peer ids, the QKD client, and the sink selection with
    `WireGuardOskHandler::setup` and `start_deadman`;
  - the participant's event loop, with the server's bind.

  A configuration is a record of which step it makes fail.
- **DaisywayCli.** It extends DaisywaySetup and models `main`:
  - `Cli` with clap's argument group;
  - `log_level_filter`;
  - `init_logging`: env_logger's directives from RUST_LOG, reduced to a
    global level and a `daisyway=` module directive; Warn as the global
    level when RUST_LOG is unset; `filter_level` with a command-line level,
    which replaces only the global level; and the Error default that
    `try_init` adds to a filter without directives (an empty RUST_LOG);
  - the dispatch of `Cli::run` / `Commands::run`, with
    `ManpageCommand::selected_command` and its `unwrap`;
  - the exchange command running the start-up (`Exchange`).

### The MC modules and their bounds
- **MCConnectionManager.** Five connections, a budding map of 2 and a channel
  of 3.
  - Two budding connections, an active one and a newcomer can coexist.
  - The third accept prunes.
  - The channel fills, so tasks block and late events queue behind newer
    ones.
- **MCOskDeadman.** `EraseAfter = 3`, a channel of 2 and two handles.
  - A key ages past a refresh and past a deadline.
  - Producers block on a full channel.
  - One handle can go while the other still sends.
- **MCRekeyProtocol.** Two slots, three key ids and two faults.
  - A new connection runs while a broken one's task winds down, or hangs
    for ever after a partition.
  - Consecutive rounds and a lost round have different keys.
  - A lost ack can be followed by a second fault during recovery.
  - Two partitions are needed for the `protocol_half_open` trace. With
    one fault of any kind, partitions included, `EventuallyInSync` holds:
    the end that lost bytes times out, and the client reconnects or the
    peers already agree.
- **MCEtsi014Reply.** Keys up to 34 octets, malformed texts up to 48
  characters, and up to two keys per reply. Every encoded length around 32
  and 44 occurs, and so do the decode-buffer overflow (33 and 34 octets) and
  the two-key reply.
- **MCKeyFile.** Key texts up to 34 octets or 47 characters, with up to two
  whitespace bytes after them. The 46-byte buffer can be filled, cut inside
  and past the text, and cut before or after a trailing newline.
- **DaisywayCli.** No constants. Every command line clap accepts, each
  with `RUST_LOG` unset or set to one of 12 directive combinations. For the
  exchange command, every configuration is tried (358k states).

## 3. Runs

| Run | Expect | What it shows |
|---|---|---|
| manager | pass | `TypeOK`, `BuddingBound`, `NoOrphanTask`, `NoGhostConnection` and `PromotableAreNewer` hold under every interleaving of accepts, rounds, exits and asynchronous aborts. |
| manager_panics | pass | `SupersessionMonotone`: supersession holds under the same interleavings, even when tasks may panic on a malformed key and never send Exit. |
| manager_ghost | violation | A task that panics on a malformed QKD key never sends Exit, and its id stays tracked (`etsi014.rs:140`). |
| deadman | pass | `FreshKeyBounded`: no Fresh key outlives `erase_after` while the process runs. |
| deadman_shutdown | violation | The process can exit before the detached worker erases the key. |
| protocol | pass | `RoundLockstep`: at most one message of a round is in flight, only while the server awaits the ack, and it carries the server's current key. This holds under every fault, partitions and retransmission timeouts included. |
| protocol_live | pass | `EventuallyInSync`: without silent partitions, under the fairness above, the peers agree again and again. |
| protocol_half_open | violation | Two partitions. The first swallows the ack: the client times out and reconnects with the new key, while the old server task blocks. The second loses the new request: that server task times out, and the client, with nothing unacknowledged, blocks for ever. The peers never agree again. |
| etsi_reply | pass | `AcceptsExactlySpec`: a reply becomes a key exactly when spec §6 accepts it. |
| etsi_short_key | violation | One well-formed 16-octet key panics the task at the `assert!` instead of returning the error (`etsi014.rs:138`). |
| key_file | pass | `WholeTextLoaded`: however `read` splits, interrupts or fails, a key comes only from the whole text. |
| main | pass | `NoSetupPanic`: for every command line and `RUST_LOG`, every configuration error ends start-up with an error, never with the `expect` panic of `WireGuardOskHandler::setup`. |

Deadlock checking is off only where the system really stops:
- the manager model once its connections are used up (the real server idles
  in `accept`);
- the protocol with silent partitions, where an end with nothing
  unacknowledged blocks for ever;
- the one-shot models: a reply, a file, and a command line with its
  start-up.

**Seeded faults.** Every property of a passing run is broken by a plausible
code fault, defined beside the definition it replaces:

| Property | Seeded fault |
|---|---|
| Channel bound, deadman `TypeOK` | an unbounded channel |
| `BuddingBound` | `>` for `>=` in pruning |
| `NoOrphanTask` | a detaching handle |
| `NoGhostConnection` | an `on_exit` that clears any active connection |
| `PromotableAreNewer`, `SupersessionMonotone` | promotion without `split_off` |
| `FreshKeyBounded` | a timeout that does not erase |
| `RoundLockstep` | a server that delivers without awaiting the ack |
| `EventuallyInSync` | a client driver that gives up |
| `AcceptsExactlySpec` | taking the first of several keys |
| `WholeTextLoaded` | a single `read` instead of the loop |
| `NoSetupPanic` | only the local peer id decoded |

## 4. Findings

Each finding is recorded with its run in `PROJECT.json`.
1. **Missing Exit.** A malformed QKD key panics a connection task, which then
   never reports Exit (`manager_ghost`).
2. **Exit before erasure.** The process may exit before the key is erased
   (`deadman_shutdown`).
3. **No read timeout, no keepalive.** Only an end with unacknowledged
   bytes learns of a silent partition, through TCP's retransmission
   timeout. A client waiting for a request that a partition lost blocks
   for ever and never reconnects. If an earlier partition swallowed an
   ack, the client already holds a newer key than the server, so the peers
   never agree again (`protocol_half_open`).
4. **Length assert.** The encoded-length `assert!` panics for 16- to
   18-octet keys (`etsi_short_key`).

These were also seen while modelling. TLC confirmed each of them on the
models, but none is kept as a run:
- **Exit for an untracked connection.** `on_exit` reaches its "likely a bug"
  branch without any bug: an Exit arrives for a connection already pruned or
  superseded. The property is `ExitAlwaysKnown`, checked with
  `MCConnectionManagerUnknownExit.cfg`.
- **Failing sink.** A sink error panics the deadman worker, and the last
  Fresh key then outlives `erase_after` while the daemon runs on. The
  property is `FreshKeyBounded`, checked with `MCOskDeadmanSinkFails.cfg`.
- **Short PSK files.** `base64_to_key` (`util.rs:45`) ignores how many octets
  it decoded. An empty or short PSK file therefore loads as a zero-padded
  key, and an empty file as the all-zero PSK.
- **Manpage typo.** `selected_command` (`main.rs:214`) looks up
  `"shell-comletion"`, so `daisyway manpage shell-completion` unwraps
  `None` and panics.
- **Log flags.** `--verbose` sets Info and `--quiet` sets Warn. Their doc
  comments (`main.rs:48`, `main.rs:52`) say debug and error, and Warn is
  already the default.
- **RUST_LOG module directives.** `filter_level` replaces only env_logger's
  global directive. With `RUST_LOG=daisyway=debug`, `--log-level nothing`
  does not silence daisyway, whose debug lines name the QKD key ids. An
  empty `RUST_LOG` counts as set, so the default is Error, not Warn.
  `InitFilter` models all of this, but no property is stated on it.

## 5. Proofs (TLAPS)

Six modules hold proofs. Each proof covers every value of the constants that
satisfies the assumptions named in the module that declares them. Every
invariant that a passing run checks now also has a theorem. The one
exception is `EventuallyInSync` (see "Left to TLC" below). Each inductive
invariant below was run through TLC as an invariant before it was proved.

**`ConnectionManagerProofs`** (`MaxConn`, `MaxBudding` and `ChanCap` are
positive naturals).
- **`TypeCorrect`**: `Spec => []TypeOK`.
- **`PromotableAreNewerHolds`** and **`Supersession`**: `SupersessionMonotone`
  is not inductive on its own. The inductive invariant is
  `TypeOK /\ PromotableAreNewer`, which says three things:
  1. while a connection is active, it is the one last forwarded;
  2. every budding id lies strictly between `forwarded` and `nextId`;
  3. `forwarded < nextId`.
- **The supersession argument.**
  - A forward either repeats the active connection or promotes a budding
    one (lemma `ForwardStep`), and a budding one is newer.
  - Accept keeps the invariant because ids only grow.
  - Promotion keeps it because `split_off` drops every older budding id.
- **`BuddingBoundHolds`** and **`NoOrphanTaskHolds`**: the inductive
  invariant `BInv` is `TypeOK`, `PromotableAreNewer`, `BuddingBound` and
  `NoOrphanTask` together.
  - The bound needs the fresh id to be absent from the budding map, which
    `PromotableAreNewer` gives.
  - It also needs `pop_first`'s victim to be in the map. Lemma `MinIn`
    derives that from the well-foundedness of `<` on `Nat`
    (`WFMin`, `NatLessThanWellFounded`).
  - No orphan task holds because every step that forgets a connection
    passes it to `AbortAll` (lemma `AbortRunning`).
- **`NoGhostConnectionHolds`** (assumes `~QkdMalformed`):
  `NoGhostConnection` is strengthened to `TrackedLive`: a tracked
  connection is running, or it is done and its Exit is queued. It is never
  cancelling, because the manager drops a handle only together with the
  connection. The proof rests on lemmas about `Range` of the channel under
  `Append` and `Tail`. The assumption is the hypothesis the run
  `manager_ghost` removes: with malformed replies the theorem is false, as
  section 4 shows.

**`OskDeadmanProofs`** (`EraseAfter`, `DeadmanCap` and `Producers` are
positive naturals; the key-lifetime theorems assume `~SinkMayFail`, since
with a failing sink they are false, as section 4 notes).
- **`TypeCorrect`**: `Spec => []TypeOK`.
- **`FreshKeyBoundedHolds`**: `FreshKeyBounded` is not inductive: a state
  with a young key and an almost-expired timer breaks it in one step. The
  inductive invariant `IInv` adds these facts:
  1. while the process runs and the worker waits,
     `age + timer = EraseAfter`, so the key's age and the deadline stay
     coupled;
  2. a starting worker has age 0;
  3. a stopped worker leaves a Stale sink;
  4. the worker never panics.
- **`Refinement`**: `Spec => KL!Spec`. `Init` maps to the abstract `Init`,
  and every step maps to an `Install`, an `Erase`, a `Tick`, a `Halt` or a
  stutter. The `Tick` case uses `IInv` to keep the abstract age bound.

**`RekeyProtocolProofs`** (`NSlots` and `NumKeys` are positive naturals,
`MaxFaults` is a natural, `HalfOpenPossible` is any Boolean). The theorems
are **`TypeCorrect`** and **`LockstepHolds`** (`Spec => []RoundLockstep`).
`RoundLockstep` is not inductive. The inductive invariant adds two things:
- `ConnOK`: a client inside a round has a connection and, once it read the
  request, a key; a server task about to write has fetched its key. Without
  this a request could carry `None`.
- In `SlotInv`: nothing is in flight on a connection while the client
  works on a request there. Without this, an ack written in that state
  would be the second message in flight.

The proof has one step per action and, inside each, one case per outcome of
its read or write (delivered, swallowed, failed). A partition either keeps
or drops each message in flight, so it never adds one; a retransmission
timeout touches neither the messages nor the roles.

**`Etsi014ReplyProofs`** (the bounds are naturals).
**`AcceptsExactlySpecHolds`** rests on lemma `FetchOkIffSpec`: for every
reply `r`, `FetchKeyInternal(r) = "ok"` exactly when `SpecAccepts(r)`. The
arithmetic fact behind it is `AssertPassesOnKey`: a 32-octet key's own text
is 44 characters, and its base64 length is 60, not 32, so the assert never
rejects a well-formed key.

**`KeyFileProofs`** (the bounds are naturals). **`WholeTextLoadedHolds`**
uses an inductive invariant saying three things:
1. the buffer never holds more than the file;
2. a key was decoded when the buffer was full or held the whole file;
3. nothing is decided before the end.

A read stops inside the text only at `KEY_LENGTH_B64 = 46` bytes.
`46 % 4 # 0` (`BufferNotGroupAligned`), so that prefix never decodes
(`CutInsideTextFails`).

**`DaisywayCliProofs`**.
- **`SetupNeverPanics`** rests on `SetupInv`: after `DecodePeerIds`
  succeeds the remote id is known to decode, so `WireGuardOskHandler::setup`
  never takes its `expect` branch.

**Left to TLC.**
- Liveness (`EventuallyInSync`, and the `FairSpec` runs): it needs fairness
  and ENABLED, which the provers installed here do not handle.
- The seeded-fault and violation runs: they show counterexamples, which is
  TLC's job.
- Action properties are proved only for supersession (`Supersession`). The
  refinement of `OskDeadman` covers the deadman's allowed steps.
## 6. Not modelled

- **C1, SHAKE-256 and the hash domain.** This is pure cryptography.
- **C2, key derivation.** This is a pure function. Its spec properties
  (symmetry, determinism, wire sizes) are facts about a single call, which
  unit tests check. The rekey models name an OSK by the QKD key of its round.
- **The packed byte layouts.** These are `RekeyReq` (48 octets), `KdfInput`
  and the UUID encoding. They are fixed-size serialisation and are better
  checked by a unit test.
- **HTTP, JSON, TLS configuration and TOML parsing.** These are modelled
  only by their outcome: success, or the error or panic the code turns a
  failure into.
- **The rendering of sinks, manual pages and shell completions.** A sink is
  modelled by the reason and age of the key it holds.
- **Wall-clock `Instant` arithmetic.** With an `interval_secs` near TOML's
  largest integer, `Instant::now() + erase_after` overflows in the deadman
  worker. This hazard is listed in `PROJECT.json` without a property.
- **The ETSI 014 simulator.** It is a stateless test fixture apart from a
  counter.
- **Composition of the three concurrent models.** The manager with its
  server tasks and the deadman (the bounded channels back-pressuring each
  other, `connection_manager.rs:166`, and the accept error at `:65`) is the
  next step. Those two hazards are listed without a property.
