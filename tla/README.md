# Verification of iroh-react-native-bridge

TLA+ models of the bridge's concurrent core, TLC configurations that check them
on small instances, and TLAPS proofs of the results that matter most for every
value of the constants. All definitions are translated from the code under
`src/`; `PROJECT.json` maps each of them to its lines.

## 1. The system

React Native application code calls a JavaScript object (`getIrohBridge()`,
`react-native/src/index.js`), which calls synchronous native functions through
generated JSI bindings, which call the Rust crate
(`rust/iroh_mobile_bridge/src/lib.rs`, `tcp_forward.rs`). The Rust crate keeps
one process-wide state behind one mutex and a tokio runtime with two worker
threads, and talks QUIC to peers through the iroh library.

| Component | State | Operations | What is hard |
| --- | --- | --- | --- |
| Framed stream (lib.rs 87-107, 421-516, 820-1033) | bounded mpsc queue, byte semaphore, inbox, two `Notify` objects, `closed` flag, `close_tx` watch; a writer and a reader task | `send`, `next_message`, `is_stream_open`, `close`; the tasks | calls go on with a clone after the mutex is released; check-then-wait on both `Notify` objects; cancelled writes; which end the peer sees; bounds in frames and in bytes |
| Endpoint lifecycle and session cache (lib.rs 79-133, 456-526, 670-929) | `BridgeState`: endpoint, LRU cache of QUIC sessions, connections map | `start`, `stop`, `connect`, `connect_target` | look up, dial outside the mutex, cache later; `stop` blocks on the endpoint's tasks with the mutex held |
| TCP forwarder (tcp_forward.rs) | forwarders map, accept loop, pump tasks, `dial_lock`, counters | `start_tcp_forwarder`, `stop_tcp_forwarder`, stats | single-flight dialling; pumps take a blocking mutex inside async tasks; abort against tasks that are finishing |
| JS stream (index.js 273-434) | closed, pumping, handler sets, the chain of sends | `onMessage`, `onClose`, `onError`, `send`, `close`; the receive pump | handlers that call the stream again during an iteration over live sets; a stale `null`; retries on backpressure |
| JS logical sessions (index.js 439-465) | set of streams, closed | `openStream`, `close` | a session closed while a stream is being opened |
| JS forwarder handle (index.js 515-543) | stopped | `stats`, `stop` | goes stale when the bridge stops |
| JS runtime resolution (index.js 250-271, 547-595) | cached module or error | `getIrohBridge` | a failure is cached for the process |
| JS validation and error codes (index.js 24-67, 77-248) | none | conversions | two rule sets in two languages: where they differ must be known |
| Dial targets (lib.rs 190-419) | none | parsing | an id in a ticket must not redirect the dial; one bad address must not vanish |
| Dial diagnostics (lib.rs 534-662) | a future and its thread | probes, report | its thread calls back into JavaScript, at any time of a reload |
| Android context (lib.rs 142-188, cpp-adapter.cpp, IrohBridgeModule.kt) | one flag, one JNI reference | install | what Rust keeps over reloads; a refused reference |
| Native glue (react-native-iroh.cpp, IrohBridge.mm, cpp-adapter.cpp) | the module object of a runtime | `installRustCrate`, `registerModule`, the destructor | a module outlived by Rust's threads |
| Generated bindings (iroh_mobile_bridge.cpp, .ts) | Rust's buffers in JavaScript's hands; the global `rsLambda` | one host function per exported function; poll, complete and free of futures | who frees which buffer, and as what size, on every way out; a lambda that refers to a runtime |
| Scripts | none | | |

How they interact: the JS thread is one thread, and its native calls are
synchronous, so one JavaScript runtime is one *caller* of the native side; the
exported functions are thread-safe and may have more. The JS pump polls
`nextMessage(id, 0)` and `isStreamOpen(id)` from a timer. The one thing that calls
back into JavaScript is a future: `dialDiagnostics` polls it, and the thread that
makes the report calls the continuation through a lambda that is global to the
process, which the module's destructor clears when its runtime goes (a reload).
Rust's state outlives runtimes. `connect` inserts a stream into the connections map after spawning
its two tasks; `close` and `stop` remove it and tell the tasks through
`close_tx`. Pumps of forwarders and `connect` share the session cache.

What makes each component correct:

* stream: order without gaps, bounds on memory, no lost wake-up, a clean end
  only when everything was sent, both tasks end after a close;
* lifecycle and cache: one bounded entry per peer and ALPN that leads to that
  peer, a stopped bridge holds nothing, `stop()` returns;
* forwarder: one dial at a time, the counter is the number of connections,
  stopping ends all of them;
* JS stream: one pump, every listener gets every frame once, one close event,
  ordered sends, nothing waits for ever;
* dial targets: the endpoint dialled is the one named, at the addresses given;
* bindings: every block is freed once and as what it was allocated, on every way
  out of a call; a continuation reaches the runtime that waits for it, and no other;
* Android context: what Rust uses for the rest of the process exists;
* sessions and handles: what they opened is closed, their flag tells the truth.

`PROJECT.json` lists under `hazards` where each of these could go wrong, with the
property that would show it or the reason there is none.

## 2. Modules

| Module | Models | Extends / uses |
| --- | --- | --- |
| `FramedStream` | one `ManagedConnection`: calls, tasks, peer | |
| `FrameChannel` | abstract bounded FIFO with an end mark | instanced by `FramedStream`, once per direction |
| `NativeStream` | a connection's receiving side as JavaScript can see it | instanced by `FramedStream`, extended by `JsStream` |
| `JsStream` | `createStream` | `NativeStream` |
| `Bridge` | state mutex, endpoint, session cache, forwarders, worker threads | |
| `DialTarget` | the arguments of a dial: checks in index.js, the binding, resolution in lib.rs | |
| `RustBuffers` | the native heap, `RustBuffer`s and the views that alias them: constant operators | |
| `JsiCalls` | one synchronous call through the bindings | `RustBuffers` |
| `NativeModule` | runtimes, installation, the global lambda, futures, the Android context; any calls | `JsiCalls` |
| `MCFramedStream`, `MCJsStream`, `MCBridge`, `MCDialTarget`, `MCNativeModule` | model values and symmetry for TLC | the module of the same name |
| `FramedStreamProofs`, `JsStreamProofs`, `BridgeProofs`, `DialTargetProofs`, `JsiCallsProofs`, `NativeModuleProofs` | theorems and their lemmas | the module of the same name, TLAPS |
| `BridgeStopProofs` | what `stop()` leaves, with one calling thread | `BridgeProofs` |
| `SumProofs` | lemmas about the community modules' sums | used by `FramedStreamProofs` |

The composition is by refinement. `FramedStream` implements two `FrameChannel`s
and, seen through the three native calls the pump makes, a `NativeStream`;
`JsStream` is built on `NativeStream`, so what is checked of `JsStream` holds on
top of the real stream.

### FramedStream

A thread in `send()` or `next_message()` has a position (`sPc`, `nPc`); a step is
what happens between two points where another thread can interleave: the
closed flag, the semaphore, the channel, the inbox lock, the first poll of a
`Notified`. Every error return is an action (`SendNoCapacity`, `SendRefused`,
`NextTimeout`, ...), except those that fail before touching anything (no entry,
invalid length), which would be stuttering steps. The writer and reader tasks
have `wPc` and `rPc`; both arms of each `tokio::select!` are enabled when ready,
which is how `select!` behaves. The end of the writer task is four steps
(`WriterPublish`, `WriterDropRx`, `WriterDropFrame`, `WriterExit`): it publishes
`closed` before its receiver, and the frames in it, are dropped.

A frame is its number in its direction and its length. Abstractions: `notify_one`
wakes any waiter instead of the oldest; a malformed or truncated frame ends the
reader as the peer's end does (`PeerFinish`); a partly written frame is no frame for
the peer; the QUIC flow-control window is counted in frames (`Window`); the peer's
STOP_SENDING comes only while a write is in progress, the only time it is seen.

### NativeStream and JsStream

`JsStream` has one JS thread: `js` says where the pump stands, `telling` which close
handlers `emitClose` has still to call, `inHandler` that application code runs
inside one of them. Native tasks (`Arrive`, `ReaderEnds`, `WriterEnds`) interleave
between any two native calls. The handler sets are iterated live, as JavaScript's
`Set` is: a handler added during a delivery is visited, a deleted one is not; the
model visits them in any order. A handler may call the stream again, including
`close`. Left out: `onError` (handlers only report), `isClosed`; a handler that
closes the stream does nothing after that; each close handler is registered at
most once, so that its calls can be counted. Outcomes of the native `send` are
nondeterministic while the stream is open (accepted, full, or an invalid frame), since
the queue is `FramedStream`'s.

### Bridge

Callers are application threads; `local` holds the locals of their exported call.
`held` is true while `start` or `stop` keeps the mutex across a wait; all other
critical sections are single steps. `sessions` is in the order of `last_used`.
QUIC connections are numbered by dial; `dialled` remembers peer/ALPN and endpoint.
A pump task inside `with_state` (`Blocked`) occupies its worker thread, also while
it waits for the mutex; steps that the runtime has to drive need a free worker
(`WorkerFree`). `abort_all()` marks tasks; a marked one ends at its next await.
Streams are identified by their QUIC connection only. Binding an endpoint is
taken not to need a worker (`block_on` drives it on the caller's thread), closing
one to need some (the endpoint's own tasks must run); both are assumptions about
the iroh library, and the finding below rests on the second.

### DialTarget

One call of `connect`, `connectTarget` or `startTcpForwarder` with any arguments of the
set `Calls`: index.js accepts and normalises it (`Normalize`) or throws (`Refuse`), and
lib.rs resolves what crossed the binding to an endpoint address or an error code
(`Resolve`). The dial that follows is `Bridge`'s. The parsing functions are operators
with the names of their counterparts shortened (`FromHint` is
`endpoint_addr_from_hint`). A string is a record that says what it spells, or that it
is blank, malformed, absent or not a string. White space is kept in the two places
where it matters. In front of an id's scheme, `normalize_node_id` (lib.rs:190) strips
the scheme before it trims: `connect` refuses such an id and `connectTarget`, which
trims in JavaScript, takes it. Around a target's kind (`PaddedKinds`), lib.rs:300 trims
(`TrimKind`) and index.js:139 and 161 compare the text as it is.

`KnownDifferences` is the exact list of where the two rule sets part. A `connect` whose
address hint is missing, blank or display-only passes index.js:108-117 and is refused
with `OPERATION_FAILED` by lib.rs:367-377, as react-native/README.md:342 says; a
target whose kind has white space around it is a `TypeError` in index.js that lib.rs
would have resolved. Beyond these no accepted target is refused for its shape, and
each call that lib.rs would resolve as it was written is dialled after index.js has
checked and rewritten it. A text that is not blank and does not parse is not a matter
of shape: index.js leaves it to lib.rs. Timeouts are `TimeoutHonoured`'s.

Left out: the ALPN rules, a native library without `connectTarget`, the spellings that
only a URL parser accepts, such as `iroh+direct://` as a relay URL, and the two
characters that only one language trims, U+0085 (Rust) and U+FEFF (JavaScript): an id
of U+0085 alone is blank for lib.rs and not for index.js.

### RustBuffers, JsiCalls and NativeModule

`JsiCalls` is one call of JavaScript into the crate, in the order of the generated
code: each argument is lowered (`RustbufferAlloc`, or into JavaScript's own bytes),
copied (`FromJs`), taken over by Rust, which returns or fails; an error is copied
and freed (`CopyIntoJs`), a result becomes a view with a capacity note (`ToJs`), is
lifted and freed in the `finally` (`RustbufferFree`). Lowering may throw at any
argument. A block of the heap has a capacity and a `holder`, which says for whom it
was allocated; `corrupt` records a free or a read that met another block than it
took it for. The 16 functions of the crate differ by their `Signature` alone; the one
other function called through the same code is `Completion`, which fetches the result
of the diagnostics future.

`NativeModule` interleaves those calls with reloads (`Destroy`, `StandUp`), the
installation (`InstallRustCrate`: on Android the context comes first and may be
refused) and the futures of `dial_diagnostics`. A future's promise is at `js`,
its thread at `probe`, its wake-up in `sched`. `callback()` on the thread is two
steps, the test of `rsLambda` (`CallbackCheck`) and the call (`CallbackCall`); on the
JavaScript thread it is one. A call into a runtime that is gone ends the behaviour
with `crashed`. A platform is Android or not for good.

Assumed of code that is not in the repository: uniffi's poll loop
(`uniffiRustCallAsync`) polls again after MAYBE_READY, completes and frees after READY,
and ignores a continuation that is not one of its own; uniffi's scheduler keeps one
callback, or the wake-up that came before it; Rust drops the copies of the arguments
before it returns; a buffer with no byte has no memory; runtimes follow one
another and each has one thread. Left out: cancelling a future, which index.js never
does; a lambda that is copied while it is cleared (a data race the finding is about).

## 3. Runs

| Run | Instance | Shows |
| --- | --- | --- |
| `stream_send` | 2 senders, 1 slot, 3 bytes, 4 frames of 1 or 2 bytes | `TypeOK`, `PeerReadsInOrder`, `CleanEndIsComplete`, `PermitsConserved`, `OutboundIsChannel` |
| `stream_receive` | 2 receivers, inbox of 2 frames, 5 frames | `DeliveredInOrder`, `InboundIsChannel`, `ConnectionIsNative` |
| `stream_polled` | 1 polling receiver, frames of 1 or 2 bytes into 2 bytes | no lost wake-up in either direction, exact accounting, `PolledFramesArrive` |
| `stream_liveness` | nobody receives, the peer may stall | `CloseEndsTasks`, `AcceptedIsWritten` |
| `js_stream` | 2 listeners, 1 close handler, 1 frame, 2 sends | the six safety properties of `JsStream`; `CloseIsTold`, `ArrivedIsTaken`, `SendsSettle` |
| `js_stream_last_frame` | 1 listener, 1 frame | **violation** of `PumpClosesDrained` |
| `bridge_forwarder` | 1 caller, 1 forwarder with 2 connections, 2 peers, cache of 1, 2 endpoints | `TypeOK`, `CacheSound`, `SingleFlight`, `ActiveCounted`, `StoppedIsEmpty` |
| `bridge_stop` | the same with 1 peer | `StopReturns`, `StopEndsPumps` |
| `bridge_stop_stuck` | 2 forwarders with 1 connection each | **violation** of `StopReturns` |
| `dial_targets` | every call over 2 ids, 2 sockets, 1 relay; 7 timeouts | `IdentityKept`, `AddressesKept`, `KnownDifferences`, `TimeoutHonoured` |
| `native_module` | 2 runtimes, 2 futures, 2 calls, 7 blocks of at most 2 bytes | `TypeOK`, `HeapIntact`, `NothingHeldBetweenCalls`, `CallbackReachesOwner`, `ContextIsLive`, `PromiseSettles` |
| `native_dead_runtime` | the same | **violation** of `NeverCallsDeadRuntime` |

Why the bounds are enough. In the stream runs every queue is small enough to be
full, empty and in between, and there are more frames than it, the task's hand and
the window hold together: the channel has one slot, the inbox two frames, and
frames of two sizes make the byte bound and the frame bound bind separately.
Two threads are the interleavings of two calls with each other and with the
tasks, and threads are symmetric. In `js_stream` two listeners allow one to act
on the other during a delivery; a second delivery would find what the first finds
after any of the handlers' actions, since a turn of the pump keeps nothing of the
frame before. (With `MaxPeerFrames = 2` the safety properties hold as well, on 317 841
states; the liveness properties then take too long for a run kept with the code.)
In `native_module` two runtimes are one and its successor, two futures share the
lambda, and one of them may outlive its runtime; two calls one after the other are
a call that meets what another left in the heap. Seven blocks let every call
finish with its two arguments lowered and copied, and lengths up to 2 make a capacity
equal to a length and above it. The heap is bounded: a call that finds no
block waits, and none does for ever in this instance.
In `bridge_forwarder` a cache of one evicts whenever a second peer is dialled, and
two endpoints let a forwarder's leftovers meet a restarted bridge. Two worker
threads are the code's own number (lib.rs:112). In `dial_targets` two ids are the one
named and another, three addresses make lists with good, bad and repeated members,
and the width of 16 puts timeouts on both sides of the binding's limit. Bounds that only cap exploration
are `MaxSends`, `MaxPeerFrames`, `MaxStarts`, `MaxDials`, `PumpsPerForwarder`,
`MaxRuntimes`, `MaxFutures`, `MaxCalls` and `MaxBlocks`.

Deadlock is checked in the stream runs (a finished stream stutters, action `Gone`)
and in the passing bridge runs, where a caller can always make another call. It
is not in the JS runs, where a closed stream has nothing left to do, in
`dial_targets`, where a call ends, in the native runs, where the last runtime is gone
or the calls are used up, and in `bridge_stop_stuck`, whose point is that the system stops.

### Fairness

* `FramedStream`: weak fairness of each task, of a thread inside a call (its timer
  fires) and of `connect` inserting its stream. tokio polls a task that is ready;
  nobody is obliged to call anything, and the peer is not obliged to read, write
  or end. `PolledSpec` adds that receivers call again, as the JS pump's timer does
  while it has observers. `AcceptedIsWritten` names the peer's reading as a premise.
* `JsStream`: weak fairness of what is on the JS stack and of handlers returning;
  strong fairness of timers and microtasks, which queue while handlers run. The
  liveness properties have the premise `NoEndlessDelivery`: a listener that
  unsubscribes and re-subscribes itself in its own call is visited again at once
  by the live `Set` and can hang the thread. Room in the send queue is never assumed.
* `Bridge`: strong fairness of a caller's and a task's steps: the std mutex is
  released and taken again and again, and the waiter eventually gets it. A copying
  pump is obliged to end only when it is aborted.
* `NativeModule`: weak fairness of a call's steps and of each future's tasks, which
  the JavaScript thread runs when they are queued, and of each diagnostics thread,
  whose probes all have time limits. Nobody is obliged to call, reload or install.

### Findings

1. `js_stream_last_frame`: the pump reads `null`, then asks `isStreamOpen`. When the
   last frame and the end of the stream come in between, the pump closes the
   native connection with the frame in its inbox: a subscribed listener loses it.
2. `bridge_stop_stuck`: with two forwarders whose pumps both want the state mutex
   while `stop()` waits under it for `endpoint.close()`, both worker threads are
   blocked and `stop()` does not return. It rests on `endpoint.close()` needing a
   worker, an assumption about the library. With one forwarder it cannot happen
   (`bridge_stop`, and the theorem `WorkerAlwaysFree`).
3. `native_dead_runtime`: `callback()` tests `rsLambda` (iroh_mobile_bridge.cpp:729)
   and then calls it (737), with no lock. A diagnostics thread that stands between
   the two while a reload runs `cleanup()` (786) calls an empty lambda, or one whose
   runtime is going. `OnlyThreadsMeetDeadRuntime` proves that this is the only way.

Two oddities have no run of their own. `next_message` with a timeout may answer
`None` at once although the stream is open, where lib.rs:976 says `None` means timeout
or close: the reader announces each frame with `notify_one`, which stores a permit;
the fast path takes the frame and leaves the permit, and the next call consumes it,
finds nothing and returns. `NullMeansTimeoutOrClose` states the documented meaning,
and TLC refutes it when it is added to the invariants of `stream_receive.cfg`. The
JS pump polls with timeout 0 and does not see this.

The other shows in `dial_targets`, and no document contradicts it outright: `timeoutMs`
may be any positive number (react-native/README.md:181), but one below a millisecond
is floored to 0 (index.js:118), which lib.rs:777 replaces by the default of 4500 ms; so
ends a multiple of 2^32 ms, which the binding wraps to 0. `TimeoutHonoured` states the
range in which a timeout is kept.

Each property of a passing run has a mutant in `PROJECT.json`: a plausible fault in
a mapped definition, written beside it in its module, that TLC finds by that
property. They show that the properties bite.

## 4. Proofs

Checked by TLAPS for every number of threads, forwarders, pumps, runtimes and futures,
and for every value of the bounds the `ASSUME`s `FrameAssumption`, `BridgeAssumption`,
`BoundsAssumption`, `DialAssumption` and `NativeAssumption` allow (sizes are natural numbers, and a
queue takes at least the largest frame). Every safety invariant and every refinement
that a passing run checks is a theorem. Two of them are about one calling thread, which
is what they are true of, and say so in their hypotheses: `StopLeavesNothing`
(`Callers = {js}`) and `ReceiverSleepsOnlyWhenEmptyAlways` (`Receivers = {r}`).

`FramedStreamProofs`:

* `TypeCorrect`. `TypeOK` is not inductive: that the frame a task pushes is a frame
  depends on where the task stands. `HeldFrames` adds that.
* `PeerReadsInOrderAlways`, `CleanEndIsCompleteAlways`, `OutboundRefines`. The
  invariant is `OutInv`: `Numbered` (what the peer has read, the wire, the frame in
  `write_frame` and the queue are consecutive numbers, up to `accepted` while the
  stream is whole), `Running` and `Finished` (how the writer's position, its end of
  the stream and the living clones of the sender go together: `finish()` of a
  sound stream means an empty queue and no `send()` in progress) and `Bounded`.
* `DeliveredInOrderAlways`, `InboundRefines`. `InInv`: the same towards the
  application (`Ordered`, `Receiving`, `InBounded`), and
* `ReaderSleepsOnlyWhenFullAlways` from `Asleep`: between the check of the inbox and
  the registration, a pop leaves its permit, so that a reader that arms without a
  permit has seen a full inbox.
* `NativeRefines`: `FramedStream` implements `NativeStream`. It needs `InInv` and that
  the peer writes at most `MaxPeerFrames`.
* `InboxAccountedAlways`, `PermitsConservedAlways`. `Bytes` of a queue changes by the
  frame appended or taken (`BytesFacts`); each action that moves a frame moves as much
  in `inboxBytes` or `permits`. `PermitInv` adds that the senders holding permits are
  a finite set, since `Senders` itself need not be. The writer holds no frame, hence
  no permit, outside `write_frame` (`HeldFrames`).
* `ReceiverSleepsOnlyWhenEmptyAlways` from `Announced`: while a receiver that saw an
  empty inbox is on its way to sleep, a frame that arrives has its permit stored or
  is still to be announced. Two receivers can share one permit, and then one may
  sleep on a frame: the theorem, and the run, are about the single pump of JavaScript.

`SumProofs`: the sum that `SumFunctionOnSet` and `FoldSeq` compute, by taking out elements
that `CHOOSE` names, depends neither on the choice nor on the order: one element more
or less changes it by that element (`SumWith`, `SumWithout`), and so does a shift of the
indices (`SumShift`). The library's induction theorems take an operator as a parameter,
which the provers cannot instantiate; `SetInduction` is induction for a *set* of
numbers, from the fact that a finite set has no injection into a smaller one, and
`SizeInduction` lifts it to the subsets of a finite set.

`JsStreamProofs`: `IInv`, inductive, gives all six safety properties. No one of them is so
by itself: `PumpState` ties the `pumping` flag to the pump's place (on the stack or
behind its timer) and says where handlers can be running; `FrameState` that only a
delivery in progress owes frames; `CloseState` that a close handler is unused,
registered or scheduled, and untold until the close; `SendState` that what the native
queue took came before every pending send. Not even the types stand alone: a listener
that subscribes during a delivery counts the frame in hand, so a frame must have been
popped. `UsesNativeStream` says that the object's steps are `NativeStream`'s. With
`NativeRefines` the two halves meet: what the one assumes the other implements.

`BridgeProofs`: `LockInv` (who is past the dial lock holds it) gives
`SingleFlightAlways`; that each forwarder has one such pump gives
`BlockedBoundedAlways` by an injection into the forwarders, and hence
`WorkerAlwaysFree`: with fewer forwarders than workers, a worker is always free.

`BridgeInv`, inductive for any number of callers, gives `BridgeTypes`, `CacheSoundAlways` and
`ActiveCountedAlways`. A caller or a pump looks up under the mutex and caches after a dial
outside it, so that the cache is sound depends on what their locals hold between the
two: a connection dialled for their own key (`CallerLocals`, `Routed`). The counter
is right because a pump marked by `abort_all()` belongs to a loop that has ended
(`PumpGood`); `OwnForwarder` keeps two callers from starting one forwarder; `Mutex` is
that who binds or closes an endpoint holds the lock alone. `Bridge.Without`, the
`sessions.remove(&key)` of lib.rs:792, removes the key's entry at its index and not
with `SelectSeq`, which the provers cannot see into.

`BridgeStopProofs`: `StopLeavesNothing`, from `BridgeInv` and three more facts: a QUIC connection
that lives is one of an open endpoint (`LiveOpen`), so a session that a pump caches
after `stop()` is dead; at most the endpoint being closed is open besides the current
one (`CallState`); and a loop that runs is in the FORWARDERS map, signalled, or about
to be registered by the one caller (`Registered`). With two callers the last one fails.

`DialTargetProofs`: `IdentityAlwaysKept`. Each parser that succeeds returns the id it was
given, or the ticket's for a ticket target (`ParsedFor`, `HintFor`); what crosses the
binding names the endpoint the call names (`ResolvedForNamed`); `IdentityInv` carries
both through the steps. `PassedInv`, that what crosses the binding is an accepted call
and the dial what lib.rs makes of it, gives `AddressesAlwaysKept` (`ResolvedWithAll`: each
parser keeps all of its texts or fails), `OnlyKnownDifferences` (`ShapeAgreed` and
`HintRequired` for what index.js lets through, `ShapeRefused` for what it refuses,
`StillResolved` for what it rewrites) and `TimeoutAlwaysHonoured` (`TimeoutCarried`,
arithmetic modulo the binding's width).

`JsiCallsProofs`: `CallInv` is inductive over the steps of a call. `HeapIntact` needs to
know what every pointer stands for: `ArgsHeld` and `CopiesHeld` (lowered arguments are
live; copies are blocks of their own, with their capacity), `ResultHeld` (the result
is in `ret`, then in the view, whose note or length is the capacity; the error is
in `err` until it is copied). `Accounted` is the converse, that no other block is held
for the call, and gives `NothingHeldBetweenCalls`. One lemma per step; `CallStepInv`
joins them.

`NativeModuleProofs`: `RuntimeInv` (only a living runtime has the module, runs calls and
is what the lambda refers to; the published reference exists) and `FutureInv`: where
a promise stands tells where its continuation is, with JavaScript, in the scheduler,
in the thread's hands or in the inbox (`Phase`), and a promise that was polled has a
lambda (`Served`). From them `NativeTypeCorrect`, `HeapAlwaysIntact`, `NothingEverHeld`,
`CallbackAlwaysReachesOwner` (a thread that finds no lambda has news for a promise
that is gone), `ContextAlwaysLive`, and `OnlyThreadsMeetDeadRuntime`.

Only model-checked: liveness, for which the provers have neither the fairness rules
nor `ENABLED` (`CloseEndsTasks`, `AcceptedIsWritten`, `PolledFramesArrive`, `CloseIsTold`,
`ArrivedIsTaken`, `SendsSettle`, `StopReturns`, `StopEndsPumps`, `PromiseSettles`), and the
three violations. Each inductive invariant was checked by TLC, as an invariant of an
instance like the run's or larger, before it was proved.

## 5. Not modelled, and the plan

Not modelled yet, in the order planned:

1. `LogicalSession` on `JsStream`'s interface, with `connect` as an asynchronous step:
   a session closed during `openStream`, streams that end by themselves, and the
   early discard its `onClose` registration makes possible. The forwarder handle
   against `bridge.stop()`.
2. Two callers in `Bridge`: concurrent dials of one peer by `connect` and a pump, and
   what `stop()` on another thread leaves behind.
3. `PumpCopy`: the forwarder's two copy directions, half-closes, the preamble and
   `BurstStats` (`record_down`).
4. Theorems for these, and step properties: what a step of `FramedStream`, `Bridge` or
   `NativeModule` may never do, from the invariants already proved.

Not planned: the probes and the report of dial diagnostics (they change no state), the
length prefix of a frame (data), the copying of bytes as such, build scripts, and the
iroh, QUIC, tokio and uniffi libraries, which appear only as the environment's actions.
Of the generated bindings: the foreign-future callbacks (cpp 789-1824), since the crate
exports no callback interface that could use them; the checksums and `initialize()`
(ts 1087), which nothing calls; cancellation; `set`, `getPropertyNames` and
`unregisterModule`; `cleanupRustCrate`, which does nothing; and the poll, cancel, free
and complete functions of futures other than buffers (cpp 2016-2335, 2368-2399, 2829-3138
and from 3170), of which the crate has none. What a
reload leaves behind in Rust (open streams, the endpoint, futures never freed) is
visible in `NativeModule` for futures and not followed further.
