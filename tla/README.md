# TLA+ verification of the livekit-webrtc bridge, media engine and libyuv build

This directory holds TLA+ models of the repository's source. It has TLC
configurations that model-check them on small instances, and TLAPS proofs of
their main invariants for all values of the constants. The central component is
`src/crates/livekit-webrtc/src/peer_connection.rs`. It bridges a native WebRTC
engine (libwebrtc through cxx) to async Rust:

- the engine calls observers from its own signaling thread;
- the Rust caller awaits one result per operation;
- the application registers handlers for connection events.

## 1. Inventory

### Components, their state and their operations

| Component | Source | State | Operations |
|---|---|---|---|
| Completion bridge and async operations | peer_connection.rs 53-172, 288-333 | per call: an `mpsc::channel(1)` (buffer, receiver `rx`), the observer that owns the `Sender`, the `native_wrapper` local that owns that observer | `create_offer`, `create_answer`, `set_local_description`, `set_remote_description`, `add_ice_candidate`; the observers' `on_success`/`on_failure`/`on_*_complete` and the add-ICE closure |
| Event hub (`InternalObserver`) | peer_connection.rs 178-285, 361-603 | 19 slots, each an `Arc<Mutex<Option<handler>>>` | 18 `on_<event>(handler)` registrations; 19 dispatch functions that the engine calls |
| Facade lifecycle | peer_connection.rs 32-51, 139-176 | `cxx_handle`, `observer`, `native_observer` | `new`, `create_data_channel` (synchronous), `close`, implicit drop |
| Native engine (external) | not in this repository | signaling state, pending observers | calls each observer once, emits events on its signaling thread |
| Media engine wrappers | libwebrtc/src/media_engine.rs, native/media_engine.rs, webrtc-sys/src/media_engine.rs | shared handles to the voice and video engines | `MediaEngine::new` (create, `Init`, voice, video), `init`, stubs that call `unimplemented!()` |
| libyuv build script | yuv-sys/build.rs | `OUT_DIR/libyuv` on disk | clone, checkout, verify, `rename_symbols`, compile, bindgen |
| Track FFI, recording helper | webrtc-sys/src/media_stream_track/ffi.rs, src/helpers/.../manager.rs | none | declarations and a constructor only |

### How the components interact

The caller is one async task. Every facade method takes `&mut self`, so only
one operation of a given `PeerConnection` can be pending at a time.

Each async operation goes through these steps:

1. It creates a channel.
2. It boxes the `Sender` into an observer, owned by `native_wrapper`.
3. It passes the observer to the engine.
4. It awaits `rx.recv()`.

The engine later calls the observer on its signaling thread, and the observer
does `tx.blocking_send(res).unwrap()`. Event dispatch (`InternalObserver::on_*`,
"Observers are being called on the Signaling Thread") runs on the same thread.
A dispatch locks the slot's Mutex and calls the handler with the lock held. A
registration from the caller's thread locks the same Mutex to replace the
handler.

### What is hard here

- **Interleaving.** A registration on the caller's thread can race a dispatch
  of the same slot on the signaling thread.
- **Timeouts and retries.** A Rust future can be dropped while pending, for
  example by `timeout` or `select!`, and the engine still holds the observer.
  The late callback then sends on a closed channel.
- **Liveness.** `recv()` yields `None` only when no `Sender` is left. The
  awaiting future itself keeps one alive through `native_wrapper`.
- **Silent failures.** `add_ice_candidate` discards the value it receives.
  Six dispatch bodies are TODOs.
- **Deadlock.** Handler bodies run on the signaling thread with a lock held,
  and spec.md says they must not block indefinitely. The repository's own test
  breaks that rule: its handlers `blocking_send` into bounded channels that it
  reads only after its awaits. A blocked body stalls every completion the
  caller is waiting for.
- **Build script.** `OUT_DIR` survives between builds. A clone that failed or
  was killed in its checkout leaves part of the tree; a kill inside
  `rename_symbols` leaves files half renamed or truncated; a failed checkout or
  an edit of the function list leaves a tree the run did not rename. The next
  build finds the directory, skips the clone and the renaming, and trusts what
  is there.
- **Media engine.** `new` runs four fallible native calls. `init` is called
  from every clone of the engine and turns a native `false` into `Ok(())`.

`PROJECT.json` "hazards" lists each of these at its line.

### Properties that make each component correct

- **Bridge.**
  - A call returns exactly the engine's answer for that call: `OwnAnswer`.
  - Each call returns at most once, only after the engine's answer to it, or
    is dropped: `ImplementsAsyncCall`, the refinement of `AsyncCall`.
  - An engine failure reaches the caller: `EngineErrorSurfaced`.
  - Every awaited call returns: `CallerProgress`.
  - No callback panics the signaling thread: `NoSignalingThreadPanic`.
- **Hub.**
  - Every event reaches the handler registered for its kind:
    `EventReachesHandler`.
  - A blocked registration eventually returns, and a handler that forwards
    into the application does not starve the caller: `CallerProgress`.
- **Build script.**
  - A successful build binds names that resolve. bindgen's allowlisted
    `rs_`-name is what the header declares and what the library defines, for
    every line of the current list: `BindingsResolve`.
  - A build that succeeds compiled the whole tree, each file as git wrote it
    or `rename_symbols` rewrote it: `CompiledTreeComplete`.
- **Media engine.**
  - `new` is all or nothing: `NewAllOrNothing`.
  - `init` returns `Ok` only if the engine initialised:
    `InitOkMeansInitialised`.

## 2. Modules and how they map to the code

`PROJECT.json` "map" gives the exact lines of each definition.

### `PeerConnection.tla` (bridge, hub and the signaling thread)

Constants:

- `Kinds`: the slots, named as in the code.
- `Handlers` and `NoHandler`.
- `MaxCalls`: a bound on the calls issued.
- `EngineMayAbandon` and `CallerMayCancel`: environment options.
- `BlockingKinds` and `AppCap`. The handlers of `BlockingKinds` forward their
  event with `blocking_send` into an application channel of capacity
  `AppCap`, as the module's test does (`peer_connection.rs` 636-646, 672-678).

`ConstAssumption` is the assumption on these constants.

State:

- `calls` is a sequence of call records. Each record holds the operation, the
  channel buffer `buf`, the `rx` and `local` (`native_wrapper`) liveness, the
  engine's hold on the observer (`engine`), and as history what the engine
  `sent` and the `result` the caller got.
- `cpc`/`cur`/`reg` hold the caller task's state: idle, awaiting call `cur`, or
  blocked in `lock()` for the registration `reg`.
- `slot` is the hub.
- `spc`/`skind`/`shandler` hold the signaling thread's state: idle, or running
  a handler with slot `skind` locked.
- `app` counts the values in the application channel.
- `missed` and `aborted` are history.

Actions, with the code they translate:

| Action | Code |
|---|---|
| `IssueCall(op)` (wrapped as `CreateOffer` … `AddIceCandidate`) | the body of each async method up to the await: channel, observer, `native_wrapper`, native call |
| `Recv` | `match rx.recv().await`: `Some(value)` → `RecvValue(op, value)` (`add_ice_candidate` maps any value to `Ok(())`), `None` → `RecvError("channel closed")`; the future then drops `rx` and `native_wrapper` |
| `Cancel` | the caller drops the pending future, and with it `rx` and `native_wrapper` |
| `Deliver(i)` / `DeliverToDropped(i)` | an observer callback's `blocking_send(..)`: buffered if `rx` is alive, otherwise `Err` and `unwrap()` panics (cxx aborts the process) |
| `Abandon(i)` | the engine drops an observer without calling it (environment option) |
| `RegisterBegin(k,h)` / `RegisterEnd` | `*self.observer.<slot>.lock().unwrap() = Some(handler)`: block on the Mutex, then store |
| `DispatchBegin(k)` / `DispatchEnd` | `InternalObserver::on_<k>`: lock, take the handler, call it unless the body is a TODO (`UnforwardedKinds`: the stream, removed-candidates and track slots), unlock. A forwarding handler's `blocking_send` waits while the application channel is full |
| `AppRecv` | the application's `recv().await` on that channel, between its own calls (test lines 666-667) |

The engine may emit any number of events, so there is no event bound. Only
calls are bounded.

### `AsyncCall.tla` (what an async operation promises)

This is the abstract one-shot call. It has no channels, observers or threads.
`log` holds one record per call, `[op, answer, result]`, and `pending` is the
index of the call being awaited. The actions are:

- `Issue(op)`: only when no call is pending;
- `Answer(i)`: once per call, by the engine;
- `Return`: the pending call returns `Report(op, answer)`, and only after its
  own answer;
- `Drop`: the caller drops the pending call.

`PeerConnection` defines the refinement mapping:

- `callLog` projects `calls` onto `[op, sent, result]`;
- `awaited` is `cur` while the caller awaits, and 0 otherwise.

It instantiates `AsyncCall` with `Report <- RecvValue` and states
`ImplementsAsyncCall == AC!Spec`. `Abandon`, the hub and the registration are
stutter steps of the abstract call.

### `YuvBuild.tla` (`src/yuv-sys/build.rs`)

cargo runs the script again and again on one persistent `OUT_DIR`.

- **State.**
  - `dir`: what `OUT_DIR/libyuv` holds (`CloneRemains`). It is `"absent"`,
    `"repo"` (a repository whose checkout stopped before `source/`),
    `"mixed"` (`include/` complete, `source/` partial) or `"full"`.
  - `applied`: per file, the list lines `rename_symbols` has applied to it.
  - `torn`: the files a kill left truncated in `fs::write`.
  - `list`: the contents of `yuv_functions.txt`.
  - `bpc`: the running build's step.
  - `cloned`: what `clone_if_needed` returned.
  - `todo`: the files the rayon tasks have still to write.
  - `faults`: failures so far, bounded by `MaxFaults`.
- **Trees git leaves.** git checks files out in index (path) order, so
  `include/` is written before `source/`. It removes the directory when a
  fetch fails or is interrupted, and keeps the work tree when the clone fails
  after the fetch. A signal it cannot catch leaves whatever is on disk. Hence
  the four values of `CloneRemains`. `Checked` = `{"mixed", "full"}` are the
  trees that pass main's checks (`libyuv_dir`, `include_dir`, the `read_dir`
  of `include/libyuv`, `source_dir`).
- **A line of the list** is its words and whether it carries padding. Three
  operators are translated from the code:
  - `Target` is `rename_symbols`' new name: the second word, or `rs_` + the
    first word.
  - `Allowlisted` is bindgen's `format!("{}{}", FNC_PREFIX, fnc)` of the raw
    line.
  - `NameIn` is the name a file holds after the `\b…\b` regex replacements.
    These are idempotent, so a rename applied twice is applied once.
- **Actions of the script (`Next`).**
  - `Start` is `clone_if_needed`'s existence test.
  - `CloneOk`/`CloneFail` are `git clone` succeeding or failing in its fetch
    (git removes the directory); `CheckoutOk` is `git checkout main` and the
    check of `include/` and `source/`.
  - `Scan` covers main's checks on a `Checked` tree and the `if cloned`
    choice.
  - `RenameFile(f)` is one rayon task; `RenameDone` ends `rename_symbols`.
  - `Compile` and `Bindgen` are the cc and bindgen steps.
- **Faults (`FaultNext`).** `FaultNext` adds the failures that leave
  something on disk, and the code's reactions that only those trees reach:
  - `CloneFailInCheckout`: `git clone` fails after its fetch and keeps a
    `"repo"` or `"mixed"` tree; `run_git_cmd` panics, so the
    `remove_dir_all` at build.rs:119-121 never runs.
  - `CheckoutFail`: `git checkout` fails; the clone stays, unrenamed.
  - `CrashInClone`, `CrashInRename` and `Crash`: a kill (`Killed`) inside
    `git clone` (any of `CloneRemains`), inside `rename_symbols` (files under
    way are truncated) or in any other step (nothing on disk changes).
  - `ScanPanic`: main panics on a tree outside `Checked`.
  - `CompileFail`: cc fails on a file truncated inside a declaration. A file
    truncated to nothing, or between declarations, still compiles, so
    `Compile` stays possible.
  - `EditList`: an edit of the list, which `rerun-if-changed` turns into a
    new run.

  `Spec` uses `Next`, and `FaultSpec` uses `FaultNext`. The fault flags
  (`CloneMayFail`, `CheckoutMayFail`, `MayCrash`) choose which faults a run
  allows.

### `MediaEngine.tla` (the media engine wrappers)

- **State.**
  - `npc` and `held` follow `MediaEngine::new` and the native handles it
    holds.
  - `newInit` is what its native `Init` returned.
  - `hpc`, `native` and `result` follow the `init` each holder (clone of the
    engine) is running.
  - `panicked` records an `unimplemented!()` call.
- **Actions.**
  - `Create`, `NewInit`, `FetchVoice` and `FetchVideo` are the four `?`
    steps of `new`. `NewInit` also tests Init's bool.
  - `InitCall(h, e)` and `InitReturn(h)` are `init` of the media, voice or
    video engine, ending in `.map_err(..).map(|_| ())`.
  - `CreateChannel(h)` is a channel stub.
- **Native results.** `NativeInit` and `NativeFetch` are the results a native
  call can give Rust. These are `Result<bool>` and `Result<SharedPtr<..>>` in
  the cxx declarations, and Err is possible only when `NativeMayThrow`.

## 3. Runs

### PeerConnection runs

`MC_PeerConnection.tla` sets:

- `Kinds = {"signaling_change", "ice_candidate", "add_track"}`: one forwarded
  state event, one forwarded payload event and one TODO event;
- `Handlers = {h1, h2}`;
- `MaxCalls = 2`;
- `AppCap = 1` where only the calls are asked about, and `AppCap = 16`, the
  test's own `mpsc::channel::<IceCandidate>(16)`, in `blocking_handler`;
- `BlockingKinds` is `{}` or `{"ice_candidate"}`.

`blocking_handler` keeps only the `ice_candidate` slot and one call: the
hang needs no more, and with the test's capacity the full instance takes
minutes.

These bounds are enough for each case:

- Two calls give a call followed by a second call, or a retry after a cancel,
  which is the case `OwnAnswer` is about.
- Two handlers give a replacement.
- Three kinds give a race on the same slot and on a different slot.
- The engine may emit any number of events, so a channel of any capacity
  fills.

| Run | Expect | Checks | Shows |
|---|---|---|---|
| `facade` | pass | `TypeOK`, `NoSignalingThreadPanic`, `CallerProgress` | If the engine keeps its contract and handlers do not block, no callback panics, and every call and every registration racing a dispatch returns (about 525k states, under 2 min). |
| `cancel_retry` | pass | `OwnAnswer`, `ImplementsAsyncCall` | With dropped futures, retries, abandoned observers and a forwarding handler, a call never gets another call's answer, and the operations implement `AsyncCall` (4.16M states, under 2.5 min). Deadlock is not checked, because a late callback aborts the process, which is a real stop. |
| `add_ice_error` | violation | `EngineErrorSurfaced` | `add_ice_candidate` reports success for a rejected candidate. |
| `abandon_hang` | violation | `CallerProgress` | An abandoned observer hangs the caller. The `None` arm is dead code. |
| `cancel_abort` | violation | `NoSignalingThreadPanic` | A late callback after a dropped future panics the signaling thread. |
| `track_dropped` | violation | `EventReachesHandler` | The `on_add_track` handler is never called. |
| `blocking_handler` | violation | `CallerProgress` | The test's handler breaks spec.md's rule that handler bodies must not block. Once its `channel(16)` is full, `blocking_send` blocks the signaling thread, which then cannot deliver the answer the caller awaits; the test reads the channel only after that await (5k states). |

### Build-script runs

`MC_YuvBuild.tla` has two headers and three sources, with one function
declared and defined in each pair, and three possible lists:

- the grown list (`I420ToARGB`, `ARGBScale`);
- the plain one-function list;
- a formatted list (a blank line, a padded line, a line with an explicit new
  name).

`MaxFaults = 2` allows a failure followed by a failure of another kind.

| Run | Expect | Checks | Shows |
|---|---|---|---|
| `yuv_build` | pass | `BindingsResolve` | With fetch failures retried by cargo and a fixed list, every successful build binds the names `rename_symbols` wrote into the headers and the sources (`Spec`, 129 states). |
| `yuv_faults` | violation | `CompiledTreeComplete` | With every fault of `FaultSpec`, a clone that fails or is killed in its checkout leaves `include/` and part of `source/`. The next build passes main's checks, skips the clone and compiles the sources that are there. |
| `yuv_list_edit` | violation | `BindingsResolve` | Adding a function to the list reruns the script, which does not rename: bindgen allowlists `rs_f` and the sources still say `f` (`FaultSpec` with list edits only). |

Other fault options reach the same stale tree, and TLC finds
`BindingsResolve` violated for each:

- `MayCrash`: a kill after the clone or inside `rename_symbols`;
- `CheckoutMayFail`: a failed checkout;
- `Lists <- MCFormatted`: the blank, padded and aliased lines.

Under `FaultSpec` the build need not succeed either: a `"repo"` tree makes
every later build panic in `ScanPanic`, and a truncated file can fail every
compile. No run checks this liveness, because no property passes under
kills. These are the hazards at build.rs :100, :114, :282 and :267.

### Media-engine runs

`MC_MediaEngine.tla` has two holders, with symmetry. The model stops once
`new` fails or a stub panics, so deadlock is not checked.

| Run | Expect | Checks | Shows |
|---|---|---|---|
| `media_new` | pass | `NewAllOrNothing` | With throwing and false-returning native calls, `new` yields an engine only with Init true and every handle held, and an error leaves no handle (622 states). |
| `media_init_false` | violation | `InitOkMeansInitialised` | `init` returns `Ok(())` for a native `Init` that returned false. |

### Mutants

Each property of a passing run has a mutant, listed in `PROJECT.json`. Each
mutant is defined in its module next to the action it replaces, and TLC finds
the property violated. Each row is one mutant:

| Mutant | What it does | Breaks |
|---|---|---|
| `IssueCallOffByOne` | awaits the previous call's index | `TypeOK` |
| `RecvUntilClosed` | a `while let Some(..)` drain | `CallerProgress` |
| `DeliverToAwaited` | one channel shared by all calls | `OwnAnswer` |
| `RecvClosedEarly` | reports "closed" on an empty channel | `ImplementsAsyncCall` |
| `ScanSkipRename` | skips the rename after a clone | `BindingsResolve` |
| `NewInitUnchecked` | drops the `if !Init()?` test | `NewAllOrNothing` |
| `RecvClosedEarly` | reports "closed" on an empty channel | `NoSignalingThreadPanic` |

### Fairness

The engine's signaling thread is a task queue, so every posted callback
eventually runs, even while events keep arriving. The model gives it strong
fairness on `Deliver(i)`, which is only intermittently enabled.

Tokio wakes the task a value was sent to, so `Recv` is weakly fair, and so is
the application's `AppRecv` on its own channel. A handler that does not block
returns, so `DispatchEnd` is weakly fair. It is enabled only while the
application channel has room.

A thread blocked on a slot Mutex gets it although the signaling thread keeps
re-locking that slot. `std::sync::Mutex` is not fair, so this is the one
assumption beyond the code. It is needed only while events of that very kind
keep coming, and it is stated as strong fairness on `RegisterEnd`.

The caller's own steps and the engine's choice to emit events carry no
fairness.

## 4. Proofs

### `PeerConnectionProofs.tla`

- `TypeCorrect: Spec => []TypeOK`. `TypeOK` is inductive as it stands. The
  proof has one step per action. The lemmas `CallUpdate` and `CallAppend`, with
  `ElementOfSeq` from SequenceTheorems, keep `calls` a sequence of call records
  when one record is replaced or appended.
- `OwnAnswerInvariant: Spec => []OwnAnswerInv` and
  `OwnAnswerCorrect: Spec => []OwnAnswer`. `OwnAnswer` is not inductive by
  itself. For example, a call could hold a buffered value different from the
  one sent, and `Recv` would then return it. The proof strengthens it to
  `OwnAnswerInv`, which says each call record satisfies `AnswerConsistent`:
  - a buffered value equals the value the engine sent;
  - a received outcome is `RecvValue` of that value;
  - both imply that the engine has already delivered.

  The engine answers only a pending observer. So `Deliver`,
  `DeliverToDropped` and `Abandon` change only records with no buffer and no
  outcome. `Recv` copies the buffer, which is the sent value. The lemma
  `ConsistentUpdate` lifts this from one record to the sequence.
- `ErrorSurfacedExceptIce` is a corollary of `OwnAnswerCorrect`, and is
  `EngineErrorSurfaced` restricted to the operations other than
  `add_ice_candidate`. It shows that the `add_ice_error` finding is confined
  to that one `Some(value) => Ok(())` arm.
- `NoPanicWithoutCancel` assumes `~CallerMayCancel`. Under that it proves
  `Spec => []NoSignalingThreadPanic`, for any engine, including one that
  abandons observers. The strengthening `NoPanicInv` says that a receiver is
  gone only once the engine has answered or released the call's observer.
  `Recv` drops `rx` only after a buffered value, which by `OwnAnswerInv` the
  engine has delivered, or once no Sender is left. `DeliverToDropped` is
  therefore never enabled. TLC checked `NoPanicInv` on the `cancel_retry`
  instance with cancels turned off (232k states) before it was proved. The
  `cancel_abort` run shows the assumption is needed: the code aborts once a
  future can be dropped.

### `PeerConnectionRefinement.tla`

- `RefInvariant: Spec => []RefInv`. The refinement needs two more facts, and
  `RefInv` states them:
  - an observer the engine still holds has sent nothing;
  - the awaited call has no result yet, and its `native_wrapper` is alive.

  The second fact rules out `Recv`'s closed-channel branch while the caller
  awaits. That branch has no abstract counterpart, and it is the
  `abandon_hang` finding seen from the other side. `RefInv` was checked with
  TLC on the `cancel_retry` instance (4.16M states) before it was proved.
- `Refinement: Spec => ImplementsAsyncCall`, the refinement of `AsyncCall`.
  - The initial states map to `AC!Init`.
  - Under `TypeOK`, `OwnAnswerInv` and `RefInv`, every step maps to an
    abstract step or a stutter:
    - `IssueCall` is `Issue`;
    - `Deliver` and `DeliverToDropped` are `Answer(i)`, because the answer
      was `None` by `RefInv`;
    - `Recv` of a buffered value is `Return`, because the buffer is the sent
      answer by `OwnAnswerInv`;
    - `Cancel` is `Drop`;
    - everything else leaves `callLog` and `awaited` unchanged.
  - The lemmas `LogIsSeq`, `LogUpdate` and `LogAppend` state what replacing
    or appending a call record does to the log. `StepRecs` names the record
    each action writes.
All these theorems except `NoPanicWithoutCancel` hold under `ConstAssumption` alone, for any sets of kinds,
handlers and blocking kinds, any `MaxCalls` and `AppCap`, and both values of
each environment flag. The runs show them on the small instance above.

### `YuvBuildProofs.tla` and `MediaEngineProofs.tla`

- `TypeCorrect: FaultSpec => []TypeOK` for the build script. `TypeOK` is
  inductive as it stands, under every fault and every set of lists. No run
  checks it; it is the only fact about the build script that holds under
  every fault, and the violations of section 3 show that the others do not.
- `NewAllOrNothingHolds: Spec => []NewAllOrNothing`. The strengthening
  `NewInv` (lemma `NewInvariant`) fixes the handles held at each step of
  `new`, and records that Init said true once `new` is past it.
The following stays with TLC:

- liveness (`CallerProgress`), since TLAPS does not handle liveness under
  fairness or ENABLED;
- `BindingsResolve`, which holds only without faults and with plain lists
  (`yuv_build`), and fails otherwise;
- the properties the violation runs refute.

## 5. Plan

1. **Done.**
   - `PeerConnection` with blocking handlers.
   - The refinement of `AsyncCall`, checked by TLC and proved.
   - `YuvBuild` with the trees git really leaves, and `MediaEngine`, with
     `NewAllOrNothing` proved.
2. **Next.**
   - `Negotiation.tla`: two `PeerConnection` instances running the test's
     offer/answer/candidate script over an abstract signaling state machine.

## 6. Not modelled

- The native engine's internals and the value types (`crate::jsep`) are not in
  this repository. Only the engine's contract appears, as the environment: it
  calls each observer at most once.
- `close()` and `create_data_channel` are synchronous calls into the engine
  with no state of this crate. The drop of `PeerConnection` frees its fields
  in declaration order. Whether an event can still arrive between those frees
  is decided by the native peer connection's destructor, which is not in this
  repository.
- Re-entrant handlers would need an application lock around the
  `PeerConnection`, which is not code of this repository.
- The media stream track FFI has no behaviour here, only declarations.
- The recording helper has no operations.
- The build script's logging and its printed directory listings on failure
  are not modelled. Neither is `copy_dir`, which nothing calls.
