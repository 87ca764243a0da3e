---------------------------- MODULE NativeModule ----------------------------
(* The native module over the life of the process: JavaScript runtimes that  *)
(* come and go (a reload), the installation of the module in each, the       *)
(* process-wide Android context, the calls of JsiCalls, and the futures of   *)
(* dial_diagnostics, whose threads call back into JavaScript through one     *)
(* global lambda.  A runtime is stood up after the one before is destroyed.  *)
(*                                                                           *)
(* External, and taken from their use in the bindings: the poll loop of      *)
(* uniffiRustCallAsync, which ignores a continuation that is not one of its  *)
(* own, and uniffi's RustFuture with the scheduler that holds one callback.  *)
(* The call is never cancelled: index.js passes no signal.                   *)
EXTENDS JsiCalls

CONSTANTS
  Functions,     \* the synchronous functions that are called
  MaxRuntimes,   \* bound: runtimes the process stands up
  MaxFutures,    \* bound: futures of dial_diagnostics
  MaxCalls       \* bound: calls of either kind

ASSUME NativeAssumption ==
  /\ Functions \subseteq DOMAIN Api \ {"dial_diagnostics"}
  /\ MaxRuntimes \in Nat /\ MaxFutures \in Nat /\ MaxCalls \in Nat

Runtimes == 1..MaxRuntimes
Futures  == 1..MaxFutures

VARIABLES
  android,     \* the platform
  current,     \* the last runtime stood up,
  alive,       \* and whether it still lives
  resolved,    \* index.js: "no", "runtime" (generatedRuntime) or "error"
  installed,   \* global.NativeIrohMobileBridge is set in the runtime
  refs,        \* runtimes whose global reference to the context exists
  published,   \* the reference that Rust has installed, or 0
  rsLambda,    \* the runtime the global lambda calls into, or 0
  inbox,       \* continuations queued for the JavaScript thread
  crashed,     \* the process called into a runtime that is no more
  made,        \* calls made
  owner,       \* per future: the runtime that started it, or 0
  js,          \* where uniffiRustCallAsync is
  done,        \* the diagnostics thread has sent its report
  sched,       \* the scheduler of the RustFuture
  probe        \* the thread: running, or where in the continuation callback

runtimeVars == <<android, current, alive, resolved, installed>>
contextVars == <<refs, published>>
lambdaVars  == <<rsLambda, inbox, crashed>>
futureVars  == <<owner, js, done, sched, probe>>
vars == <<callVars, runtimeVars, contextVars, lambdaVars, made, futureVars>>

Init ==
  /\ CallInit
  /\ android \in BOOLEAN /\ current = 0 /\ alive = FALSE
  /\ resolved = "no" /\ installed = FALSE
  /\ refs = {} /\ published = 0
  /\ rsLambda = 0 /\ inbox = {} /\ crashed = FALSE /\ made = 0
  /\ owner = [f \in Futures |-> 0] /\ js = [f \in Futures |-> "none"]
  /\ done = [f \in Futures |-> FALSE] /\ sched = [f \in Futures |-> "empty"]
  /\ probe = [f \in Futures |-> "none"]

(* No native function is on the JavaScript thread's stack.                   *)
JsFree == alive /\ pc = "idle" /\ \A f \in Futures : js[f] # "storing"

-----------------------------------------------------------------------------
(* Runtimes and installation.                                                *)

StandUp == /\ ~alive /\ current < MaxRuntimes
           /\ current' = current + 1 /\ alive' = TRUE
           /\ UNCHANGED <<callVars, android, resolved, installed, contextVars,
                          lambdaVars, made, futureVars>>

(* react_native_iroh_init_android_context: once per process; installing may  *)
(* panic, which is caught.                                                   *)
InitRustContext(ref, ok) ==
  \/ published # 0 /\ ok /\ UNCHANGED published
  \/ published = 0 /\ ok /\ published' = ref
  \/ published = 0 /\ ~ok /\ UNCHANGED published

(* Mutant: the reference is deleted again although Rust keeps it.            *)
InitAndroidContextDeletes(ok) ==
  \/ ~ok /\ UNCHANGED contextVars
  \/ InitRustContext(current, ok) /\ UNCHANGED refs

(* Without a VM, a context or a reference nothing is tried; a reference that *)
(* Rust has refused is deleted, one that it did not need is not.             *)
InitAndroidContext(ok) ==
  \/ ~ok /\ UNCHANGED contextVars
  \/ /\ InitRustContext(current, ok)
     /\ refs' = IF ok THEN refs \cup {current} ELSE refs

(* registerModule sets the global of the runtime.                            *)
RegisterModule == installed' = TRUE

(* IrohBridgeModule.installRustCrate, and __hostFunction_..._installRustCrate*)
(* on iOS.                                                                   *)
InstallRustCrate ==
  IF android
  THEN \E ok \in BOOLEAN : /\ InitAndroidContext(ok)
                           /\ IF ok THEN RegisterModule ELSE UNCHANGED installed
  ELSE RegisterModule /\ UNCHANGED contextVars

(* resolveGeneratedRuntime: the installer may be missing or throw; that it   *)
(* answers false is not looked at.  Either outcome is kept.                  *)
ResolveGeneratedRuntime ==
  /\ JsFree /\ resolved = "no"
  /\ \/ resolved' = "error" /\ UNCHANGED <<installed, contextVars>>
     \/ resolved' = "runtime" /\ InstallRustCrate
  /\ UNCHANGED <<callVars, android, current, alive, lambdaVars, made, futureVars>>

(* Mutant: the module is destroyed and the lambda stays.                     *)
DestructorKeeps == UNCHANGED rsLambda

(* ~NativeIrohMobileBridge calls cleanup().                                  *)
Destructor == rsLambda' = IF installed THEN 0 ELSE rsLambda

(* The runtime is torn down between two tasks of its thread; its queue and   *)
(* its promises go with it.  Rust's futures stay.                            *)
Destroy ==
  /\ JsFree
  /\ alive' = FALSE /\ resolved' = "no" /\ installed' = FALSE
  /\ Destructor /\ inbox' = {}
  /\ js' = [f \in Futures |-> IF js[f] \in {"none", "settled"} THEN js[f] ELSE "gone"]
  /\ UNCHANGED <<callVars, android, current, contextVars, crashed, made, owner,
                 done, sched, probe>>

-----------------------------------------------------------------------------
(* Calls.                                                                    *)

CanCall == JsFree /\ resolved = "runtime" /\ installed /\ made < MaxCalls

Call(f) == /\ CanCall
           /\ Begin(f) /\ made' = made + 1
           /\ UNCHANGED <<runtimeVars, contextVars, lambdaVars, futureVars>>

Unborn == {f \in Futures : owner[f] = 0}

DialDiagnostics ==
  /\ CanCall /\ Unborn # {}
  /\ Begin("dial_diagnostics") /\ made' = made + 1
  /\ UNCHANGED <<runtimeVars, contextVars, lambdaVars, futureVars>>

(* rust_future_complete_rust_buffer, for a poll that answered READY.         *)
Complete(f) ==
  /\ JsFree /\ js[f] = "complete"
  /\ Begin(Completion)
  /\ js' = [js EXCEPT ![f] = "completing"]
  /\ UNCHANGED <<runtimeVars, contextVars, lambdaVars, made, owner, done, sched,
                 probe>>

(* A call goes on.  dial_diagnostics returns the handle of a new future; a   *)
(* completion, good or bad, is followed by the release of the future.        *)
InCall ==
  /\ CallStep
  /\ IF pc = "return" /\ fn = "dial_diagnostics"
     THEN \E f \in Unborn : /\ \A g \in Unborn : f <= g
                            /\ owner' = [owner EXCEPT ![f] = current]
                            /\ js' = [js EXCEPT ![f] = "poll"]
     ELSE /\ UNCHANGED owner
          /\ js' = [f \in Futures |->
                      IF js[f] = "completing" /\ pc' = "idle" THEN "free" ELSE js[f]]
  /\ UNCHANGED <<runtimeVars, contextVars, lambdaVars, made, done, sched, probe>>

-----------------------------------------------------------------------------
(* Futures and the callback.                                                 *)

(* Mutant: the callback is given to Rust before there is a lambda.           *)
MakeCallbackFunctionLate == rsLambda

(* makeCallbackFunction: the lambda of the first poll serves all others.     *)
MakeCallbackFunction == IF rsLambda # 0 THEN rsLambda ELSE current

(* The lambda queues the continuation with the CallInvoker of its runtime.   *)
Invoke(lambda, f, ready) ==
  IF alive /\ lambda = current
  THEN inbox' = inbox \cup {<<f, ready>>} /\ UNCHANGED crashed
  ELSE crashed' = TRUE /\ UNCHANGED inbox

(* callback() on the JavaScript thread, where nothing comes in between.      *)
Callback(lambda, f, ready) ==
  IF lambda = 0 THEN UNCHANGED <<inbox, crashed>> ELSE Invoke(lambda, f, ready)

(* rust_future_poll_rust_buffer.  The first poll starts the thread.          *)
Poll(f) ==
  /\ JsFree /\ js[f] = "poll"
  /\ rsLambda' = MakeCallbackFunction
  /\ \/ /\ done[f]
        /\ Callback(rsLambda', f, TRUE)
        /\ js' = [js EXCEPT ![f] = "await"]
        /\ UNCHANGED <<done, probe>>
     \/ /\ probe[f] = "none"             \* the thread is done at once
        /\ Callback(rsLambda', f, TRUE)
        /\ js' = [js EXCEPT ![f] = "await"]
        /\ done' = [done EXCEPT ![f] = TRUE] /\ probe' = [probe EXCEPT ![f] = "end"]
     \/ /\ ~done[f]
        /\ js' = [js EXCEPT ![f] = "storing"]
        /\ probe' = [probe EXCEPT ![f] = IF @ = "none" THEN "running" ELSE @]
        /\ UNCHANGED <<done, inbox, crashed>>
  /\ UNCHANGED <<callVars, runtimeVars, contextVars, made, owner, sched>>

(* The poll is pending: its callback is stored, or called if the wake-up has *)
(* come already.                                                             *)
StoreContinuation(f) ==
  /\ js[f] = "storing"
  /\ js' = [js EXCEPT ![f] = "await"]
  /\ IF sched[f] = "waked"
     THEN sched' = [sched EXCEPT ![f] = "empty"] /\ Callback(rsLambda, f, FALSE)
     ELSE sched' = [sched EXCEPT ![f] = "set"] /\ UNCHANGED <<inbox, crashed>>
  /\ UNCHANGED <<callVars, runtimeVars, contextVars, rsLambda, made, owner, done,
                 probe>>

(* The diagnostics thread sends its report, which wakes the task.            *)
Report(f) ==
  /\ probe[f] = "running"
  /\ done' = [done EXCEPT ![f] = TRUE] /\ probe' = [probe EXCEPT ![f] = "wake"]
  /\ UNCHANGED <<callVars, runtimeVars, contextVars, lambdaVars, made, owner, js,
                 sched>>

Wake(f) ==
  /\ probe[f] = "wake"
  /\ sched' = [sched EXCEPT ![f] = IF @ = "set" THEN "empty" ELSE "waked"]
  /\ probe' = [probe EXCEPT ![f] = IF sched[f] = "set" THEN "check" ELSE "end"]
  /\ UNCHANGED <<callVars, runtimeVars, contextVars, lambdaVars, made, owner, js,
                 done>>

(* callback() on that thread: the test for null ...                          *)
CallbackCheck(f) ==
  /\ probe[f] = "check"
  /\ probe' = [probe EXCEPT ![f] = IF rsLambda = 0 THEN "end" ELSE "call"]
  /\ UNCHANGED <<callVars, runtimeVars, contextVars, lambdaVars, made, owner, js,
                 done, sched>>

(* ... and the call, with whatever the lambda is by then.                    *)
CallbackCall(f) ==
  /\ probe[f] = "call"
  /\ probe' = [probe EXCEPT ![f] = "end"]
  /\ Invoke(rsLambda, f, FALSE)
  /\ UNCHANGED <<callVars, runtimeVars, contextVars, rsLambda, made, owner, js,
                 done, sched>>

(* body() calls the continuation: READY ends the loop, MAYBE_READY polls     *)
(* again.  The future may be one of a runtime that is gone.                  *)
Body(f, ready) ==
  /\ JsFree /\ <<f, ready>> \in inbox
  /\ inbox' = inbox \ {<<f, ready>>}
  /\ js' = [js EXCEPT ![f] = IF @ # "await" THEN @
                             ELSE IF ready THEN "complete" ELSE "poll"]
  /\ UNCHANGED <<callVars, runtimeVars, contextVars, rsLambda, crashed, made, owner,
                 done, sched, probe>>

(* rust_future_free_rust_buffer; the promise settles.                        *)
Free(f) ==
  /\ JsFree /\ js[f] = "free"
  /\ js' = [js EXCEPT ![f] = "settled"]
  /\ UNCHANGED <<callVars, runtimeVars, contextVars, lambdaVars, made, owner, done,
                 sched, probe>>

JsTask(f) == \/ Complete(f) \/ Poll(f) \/ StoreContinuation(f) \/ Free(f)
             \/ \E ready \in BOOLEAN : Body(f, ready)

Thread(f) == Report(f) \/ Wake(f) \/ CallbackCheck(f) \/ CallbackCall(f)

Next == /\ ~crashed
        /\ \/ StandUp \/ ResolveGeneratedRuntime \/ Destroy
           \/ \E f \in Functions : Call(f)
           \/ DialDiagnostics \/ InCall
           \/ \E f \in Futures : JsTask(f) \/ Thread(f)

(* The JavaScript thread runs what is queued on it and a call returns; the   *)
(* diagnostics thread runs, and its time limits make it report.              *)
Fairness == /\ WF_vars(~crashed /\ InCall)
            /\ \A f \in Futures : /\ WF_vars(~crashed /\ JsTask(f))
                                  /\ WF_vars(~crashed /\ Thread(f))

Spec == Init /\ [][Next]_vars /\ Fairness

-----------------------------------------------------------------------------
(* Type correctness.                                                         *)
TypeOK ==
  /\ CallTypeOK
  /\ android \in BOOLEAN /\ current \in 0..MaxRuntimes /\ alive \in BOOLEAN
  /\ resolved \in {"no", "runtime", "error"} /\ installed \in BOOLEAN
  /\ refs \subseteq Runtimes /\ published \in 0..MaxRuntimes
  /\ rsLambda \in 0..MaxRuntimes /\ inbox \subseteq Futures \X BOOLEAN
  /\ crashed \in BOOLEAN /\ made \in 0..MaxCalls
  /\ owner \in [Futures -> 0..MaxRuntimes]
  /\ js \in [Futures -> {"none", "poll", "storing", "await", "complete",
                         "completing", "free", "settled", "gone"}]
  /\ done \in [Futures -> BOOLEAN]
  /\ sched \in [Futures -> {"empty", "set", "waked"}]
  /\ probe \in [Futures -> {"none", "running", "wake", "check", "call", "end"}]

(* The lambda refers to the runtime that lives, or there is none; and when a *)
(* thread finds none, the promise it has news for is gone: a wake-up is      *)
(* dropped only when nobody waits for it.                                    *)
CallbackReachesOwner ==
  /\ rsLambda # 0 => alive /\ rsLambda = current
  /\ \A f \in Futures : probe[f] = "check" /\ rsLambda = 0 => js[f] = "gone"

(* The context Rust uses for the rest of the process is a reference that     *)
(* exists, through all reloads and failed installations, and on Android the  *)
(* module is never there without it.                                         *)
ContextIsLive == /\ published # 0 => published \in refs
                 /\ android /\ installed => published # 0

(* A promise of dialDiagnostics settles, unless its runtime is destroyed (or *)
(* the process crashes in a reload).                                         *)
Started(f) == js[f] \in {"poll", "storing", "await", "complete", "completing", "free"}

PromiseSettles ==
  \A f \in Futures : Started(f) ~> js[f] \in {"settled", "gone"} \/ crashed

(* Once cleanup() has set the lambda to null, "the pointer will no longer be *)
(* left dangling": no thread calls into a runtime that is being destroyed.   *)
NeverCallsDeadRuntime == ~crashed
=============================================================================
