------------------------- MODULE NativeModuleProofs -------------------------
(* Theorems about NativeModule: the native heap through any number of calls, *)
(* and the global lambda and the Android context through any number of       *)
(* reloads.                                                                  *)
EXTENDS NativeModule, JsiCallsProofs

RuntimeTypes ==
  /\ android \in BOOLEAN /\ current \in 0..MaxRuntimes /\ alive \in BOOLEAN
  /\ resolved \in {"no", "runtime", "error"} /\ installed \in BOOLEAN
  /\ refs \subseteq Runtimes /\ published \in 0..MaxRuntimes
  /\ rsLambda \in 0..MaxRuntimes /\ crashed \in BOOLEAN /\ made \in 0..MaxCalls

FutureTypes ==
  /\ inbox \subseteq Futures \X BOOLEAN
  /\ owner \in [Futures -> 0..MaxRuntimes]
  /\ js \in [Futures -> {"none", "poll", "storing", "await", "complete",
                         "completing", "free", "settled", "gone"}]
  /\ done \in [Futures -> BOOLEAN]
  /\ sched \in [Futures -> {"empty", "set", "waked"}]
  /\ probe \in [Futures -> {"none", "running", "wake", "check", "call", "end"}]

(* Only a live runtime has the module, runs calls and promises, and is what  *)
(* the lambda refers to.                                                     *)
RuntimeInv ==
  /\ alive => current # 0
  /\ installed => alive
  /\ pc # "idle" => installed
  /\ rsLambda # 0 => installed /\ rsLambda = current
  /\ published # 0 => published \in refs
  /\ android /\ installed => published # 0

(* Where a promise stands tells where its continuation is: with JavaScript,  *)
(* in the scheduler, in the thread's hands, or in the inbox, and never in    *)
(* two of these.                                                             *)
Silent(f)   == <<f, TRUE>> \notin inbox /\ <<f, FALSE>> \notin inbox
Unpolled(f) == probe[f] = "none" /\ done[f] = FALSE
Working(f)  == probe[f] = (IF done[f] THEN "wake" ELSE "running")
Over(f)     == probe[f] = "end" /\ done[f]

Phase(f) ==
  /\ js[f] = "none" => Silent(f) /\ sched[f] = "empty" /\ Unpolled(f)
  /\ js[f] = "poll" => Silent(f) /\ sched[f] = "empty" /\ (Unpolled(f) \/ Over(f))
  /\ js[f] = "storing" => /\ Silent(f)
                          /\ \/ sched[f] = "empty" /\ Working(f)
                             \/ sched[f] = "waked" /\ Over(f)
  /\ js[f] = "await" =>
       \/ Silent(f) /\ sched[f] = "set" /\ Working(f)
       \/ Silent(f) /\ sched[f] = "empty" /\ probe[f] \in {"check", "call"} /\ done[f]
       \/ /\ <<f, TRUE>> \notin inbox \/ <<f, FALSE>> \notin inbox
          /\ sched[f] = "empty" /\ Over(f)
  /\ js[f] \in {"complete", "completing", "free", "settled"} =>
       Silent(f) /\ sched[f] = "empty" /\ Over(f)

(* A promise that was polled has a lambda to be told through.                *)
Served(f) ==
  /\ owner[f] = 0 => js[f] = "none"
  /\ Started(f) => installed
  /\ Started(f) /\ js[f] # "poll" => rsLambda # 0

FutureInv == \A f \in Futures : Phase(f) /\ Served(f)

NativeInv == CallInv /\ RuntimeTypes /\ FutureTypes /\ RuntimeInv /\ FutureInv

-----------------------------------------------------------------------------
(* The module starts in NativeInv.                                           *)
LEMMA NativeInit == Init => NativeInv
<1> SUFFICES ASSUME Init PROVE NativeInv
  OBVIOUS
<1>1. CallInv
  BY CallInvInit DEF Init
<1>2. RuntimeTypes /\ FutureTypes
  <2>1. 0 \in 0..MaxRuntimes /\ 0 \in 0..MaxCalls
    BY NativeAssumption
  <2>2. RuntimeTypes
    BY <2>1 DEF Init, RuntimeTypes
  <2>3. FutureTypes
    BY <2>1 DEF Init, FutureTypes
  <2> QED
    BY <2>2, <2>3
<1>3. RuntimeInv
  BY DEF Init, CallInit, RuntimeInv
<1>4. FutureInv
  BY DEF Init, FutureInv, Phase, Served, Started, Silent, Unpolled
<1> QED
  BY <1>1, <1>2, <1>3, <1>4 DEF NativeInv

(* A step that moves one future and none of the runtime's variables but,     *)
(* when there was none, the lambda.                                          *)
LEMMA FutureMoves ==
  ASSUME NativeInv, NEW f \in Futures, CallInv',
         NEW a, js' = [js EXCEPT ![f] = a],
         a \in {"poll", "storing", "await", "complete", "completing", "free",
                "settled", "gone"},
         NEW d \in BOOLEAN, done' = [done EXCEPT ![f] = d],
         NEW s \in {"empty", "set", "waked"}, sched' = [sched EXCEPT ![f] = s],
         NEW p \in {"none", "running", "wake", "check", "call", "end"},
         probe' = [probe EXCEPT ![f] = p],
         UNCHANGED <<runtimeVars, contextVars, made, owner>>,
         inbox' \subseteq Futures \X BOOLEAN, crashed' \in BOOLEAN,
         \A g \in Futures \ {f}, r \in BOOLEAN :
           <<g, r>> \in inbox' <=> <<g, r>> \in inbox,
         pc' # "idle" => installed,
         rsLambda' \in {rsLambda, current},
         rsLambda # 0 => rsLambda' = rsLambda,
         rsLambda' # rsLambda => installed,
         Phase(f)', Served(f)'
  PROVE  NativeInv'
<1>1. RuntimeTypes' /\ FutureTypes'
  BY DEF NativeInv, RuntimeTypes, FutureTypes, runtimeVars, contextVars
<1>2. RuntimeInv'
  BY DEF NativeInv, RuntimeInv, runtimeVars, contextVars
<1>3. ASSUME NEW g \in Futures, g # f
      PROVE  Phase(g)' /\ Served(g)'
  <2>1. /\ js'[g] = js[g] /\ done'[g] = done[g] /\ sched'[g] = sched[g]
        /\ probe'[g] = probe[g] /\ owner'[g] = owner[g]
        /\ <<g, TRUE>> \in inbox' <=> <<g, TRUE>> \in inbox
        /\ <<g, FALSE>> \in inbox' <=> <<g, FALSE>> \in inbox
    BY <1>3 DEF NativeInv, FutureTypes
  <2>2. Phase(g) /\ Served(g)
    BY DEF NativeInv, FutureInv
  <2>3. Phase(g)'
    BY <2>1, <2>2 DEF Phase, Silent, Unpolled, Working, Over
  <2>4. Served(g)'
    BY <2>1, <2>2 DEF Served, Started, NativeInv, RuntimeInv, runtimeVars
  <2> QED
    BY <2>3, <2>4
<1> QED
  BY <1>1, <1>2, <1>3 DEF NativeInv, FutureInv

(* An unchanged entry, written as an update.                                 *)
LEMMA Itself ==
  ASSUME FutureTypes, NEW f \in Futures
  PROVE  /\ done = [done EXCEPT ![f] = done[f]] /\ done[f] \in BOOLEAN
         /\ sched = [sched EXCEPT ![f] = sched[f]]
         /\ sched[f] \in {"empty", "set", "waked"}
         /\ probe = [probe EXCEPT ![f] = probe[f]]
         /\ probe[f] \in {"none", "running", "wake", "check", "call", "end"}
         /\ js = [js EXCEPT ![f] = js[f]]
         /\ js[f] \in {"none", "poll", "storing", "await", "complete", "completing",
                      "free", "settled", "gone"}
  BY DEF FutureTypes

(* A callback that was silent has one message at most.                       *)
LEMMA OneOrOther ==
  ASSUME NEW f, NEW r \in BOOLEAN, Silent(f),
         NEW i, i \in {inbox, inbox \cup {<<f, r>>}}
  PROVE  <<f, TRUE>> \notin i \/ <<f, FALSE>> \notin i
<1>1. <<f, TRUE>> # <<f, FALSE>>
  OBVIOUS
<1>2. CASE r = TRUE
  BY <1>1, <1>2 DEF Silent
<1>3. CASE r = FALSE
  BY <1>1, <1>3 DEF Silent
<1> QED
  BY <1>2, <1>3

(* At most one message joins the inbox.                                      *)
LEMMA OneAdded ==
  ASSUME inbox \subseteq Futures \X BOOLEAN, NEW f \in Futures, NEW ready \in BOOLEAN,
         inbox' \in {inbox, inbox \cup {<<f, ready>>}}
  PROVE  /\ inbox' \subseteq Futures \X BOOLEAN
         /\ \A g \in Futures \ {f}, r \in BOOLEAN :
              <<g, r>> \in inbox' <=> <<g, r>> \in inbox
  OBVIOUS

(* The lambda adds the continuation of its future to the inbox, or finds no  *)
(* runtime.                                                                  *)
LEMMA InvokeAdds ==
  ASSUME FutureTypes, NEW lambda, NEW f \in Futures, NEW ready \in BOOLEAN,
         crashed \in BOOLEAN, Callback(lambda, f, ready)
  PROVE  /\ inbox' \in {inbox, inbox \cup {<<f, ready>>}}
         /\ inbox' \subseteq Futures \X BOOLEAN /\ crashed' \in BOOLEAN
         /\ \A g \in Futures \ {f}, r \in BOOLEAN :
              <<g, r>> \in inbox' <=> <<g, r>> \in inbox
         /\ alive /\ lambda \in {0, current} => crashed' = crashed
<1>1. inbox' \in {inbox, inbox \cup {<<f, ready>>}}
  BY DEF Callback, Invoke
<1>2. inbox \subseteq Futures \X BOOLEAN
  BY DEF FutureTypes
<1>3. crashed' \in BOOLEAN /\ (alive /\ lambda \in {0, current} => crashed' = crashed)
  BY DEF Callback, Invoke
<1> QED
  BY <1>1, <1>2, <1>3, OneAdded

-----------------------------------------------------------------------------
(* Runtimes.                                                                 *)
LEMMA StandUpInv == NativeInv /\ StandUp => NativeInv'
<1> SUFFICES ASSUME NativeInv, StandUp PROVE NativeInv'
  OBVIOUS
<1>1. /\ ~alive /\ current < MaxRuntimes /\ current' = current + 1 /\ alive' = TRUE
      /\ UNCHANGED <<callVars, android, resolved, installed, contextVars,
                     lambdaVars, made, futureVars>>
  BY DEF StandUp
<1>2. CallInv'
  BY <1>1, CallStutters DEF NativeInv
<1>3. RuntimeTypes' /\ FutureTypes'
  BY <1>1, NativeAssumption DEF NativeInv, RuntimeTypes, FutureTypes, contextVars,
    lambdaVars, futureVars
<1>4. RuntimeInv'
  BY <1>1, NativeAssumption DEF NativeInv, RuntimeTypes, RuntimeInv, callVars,
    contextVars, lambdaVars
<1>5. FutureInv'
  BY <1>1 DEF NativeInv, FutureInv, Phase, Served, Started, Silent, Unpolled,
    Working, Over, lambdaVars, futureVars
<1> QED
  BY <1>2, <1>3, <1>4, <1>5 DEF NativeInv

(* On Android the module is registered when Rust has a context, and a        *)
(* reference that Rust keeps is not deleted.                                 *)
LEMMA ResolveInv == NativeInv /\ ResolveGeneratedRuntime => NativeInv'
<1> SUFFICES ASSUME NativeInv, ResolveGeneratedRuntime PROVE NativeInv'
  OBVIOUS
<1>1. /\ alive /\ pc = "idle" /\ resolved' \in {"error", "runtime"}
      /\ UNCHANGED <<callVars, android, current, alive, lambdaVars, made, futureVars>>
  BY DEF ResolveGeneratedRuntime, JsFree
<1>2. /\ installed' \in BOOLEAN /\ (installed => installed')
      /\ refs' \in {refs, refs \cup {current}} /\ published' \in {published, current}
      /\ published # 0 => published' = published
      /\ published' # published => refs' = refs \cup {current}
      /\ android /\ installed' /\ ~installed => published' # 0
  <2>1. current # 0
    BY <1>1 DEF NativeInv, RuntimeInv
  <2>2. CASE UNCHANGED <<installed, contextVars>>
    BY <2>2 DEF contextVars, NativeInv, RuntimeTypes
  <2>3. CASE InstallRustCrate
    BY <2>1, <2>3 DEF NativeInv, RuntimeTypes, InstallRustCrate, InitAndroidContext,
      InitRustContext, RegisterModule, contextVars
  <2> QED
    BY <2>2, <2>3 DEF ResolveGeneratedRuntime
<1>3. CallInv'
  BY <1>1, CallStutters DEF NativeInv
<1>4. RuntimeTypes' /\ FutureTypes'
  <2>1. current \in Runtimes
    BY <1>1 DEF NativeInv, RuntimeTypes, RuntimeInv, Runtimes
  <2> QED
    BY <1>1, <1>2, <2>1 DEF NativeInv, RuntimeTypes, FutureTypes, lambdaVars,
      futureVars
<1>5. RuntimeInv'
  <2>1. UNCHANGED <<pc, android, current, alive, rsLambda>>
    BY <1>1 DEF callVars, lambdaVars
  <2>2. /\ current # 0 /\ (android /\ installed => published # 0)
        /\ (published # 0 => published \in refs)
    BY <1>1 DEF NativeInv, RuntimeInv
  <2>3. (published' # 0 => published' \in refs') /\ (android /\ installed' => published' # 0)
    BY <1>2, <2>2
  <2> QED
    BY <1>1, <1>2, <2>1, <2>2, <2>3 DEF NativeInv, RuntimeInv
<1>6. ASSUME NEW f \in Futures PROVE Phase(f)' /\ Served(f)'
  <2>1. Phase(f) /\ Served(f)
    BY DEF NativeInv, FutureInv
  <2>2. UNCHANGED <<rsLambda, inbox, owner, js, done, sched, probe>>
    BY <1>1 DEF lambdaVars, futureVars
  <2> QED
    BY <1>2, <2>1, <2>2 DEF Phase, Served, Started, Silent, Unpolled, Working, Over
<1> QED
  BY <1>3, <1>4, <1>5, <1>6 DEF NativeInv, FutureInv

(* The destructor takes the lambda away, and no promise is left.             *)
LEMMA DestroyInv == NativeInv /\ Destroy => NativeInv'
<1> SUFFICES ASSUME NativeInv, Destroy PROVE NativeInv'
  OBVIOUS
<1>1. /\ pc = "idle" /\ alive' = FALSE /\ resolved' = "no" /\ installed' = FALSE
      /\ rsLambda' = (IF installed THEN 0 ELSE rsLambda) /\ inbox' = {}
      /\ js' = [f \in Futures |-> IF js[f] \in {"none", "settled"} THEN js[f]
                                 ELSE "gone"]
      /\ UNCHANGED <<callVars, android, current, contextVars, crashed, made, owner,
                     done, sched, probe>>
  BY DEF Destroy, Destructor, JsFree
<1>2. CallInv'
  BY <1>1, CallStutters DEF NativeInv
<1>3. rsLambda' = 0
  BY <1>1 DEF NativeInv, RuntimeInv
<1>4. RuntimeTypes'
  <2>1. rsLambda' \in 0..MaxRuntimes
    BY <1>3, NativeAssumption
  <2> QED
    BY <1>1, <2>1 DEF NativeInv, RuntimeTypes, contextVars
<1>5. FutureTypes'
  BY <1>1 DEF NativeInv, FutureTypes
<1>6. RuntimeInv'
  BY <1>1, <1>3 DEF NativeInv, RuntimeInv, callVars, contextVars
<1>7. ASSUME NEW f \in Futures PROVE Phase(f)' /\ Served(f)'
  <2>1. js'[f] \in {"none", "settled", "gone"} /\ (js'[f] # "gone" => js'[f] = js[f])
        /\ (js[f] = "none" => js'[f] = "none")
    BY <1>1
  <2>2. Phase(f) /\ Served(f)
    BY DEF NativeInv, FutureInv
  <2>3. Phase(f)'
    BY <1>1, <2>1, <2>2 DEF Phase, Silent, Unpolled, Over
  <2>4. Served(f)'
    BY <1>1, <2>1, <2>2 DEF Served, Started
  <2> QED
    BY <2>3, <2>4
<1> QED
  BY <1>2, <1>4, <1>5, <1>6, <1>7 DEF NativeInv, FutureInv

-----------------------------------------------------------------------------
(* Calls.                                                                    *)
LEMMA CallsBegin ==
  ASSUME NativeInv, NEW g, Begin(g), installed, made' \in 0..MaxCalls,
         UNCHANGED <<runtimeVars, contextVars, lambdaVars, futureVars>>
  PROVE  NativeInv'
<1>1. CallInv'
  BY BeginInv DEF NativeInv
<1>2. RuntimeTypes' /\ FutureTypes'
  BY DEF NativeInv, RuntimeTypes, FutureTypes, runtimeVars, contextVars, lambdaVars,
    futureVars
<1>3. RuntimeInv'
  BY DEF NativeInv, RuntimeInv, runtimeVars, contextVars, lambdaVars
<1>4. FutureInv'
  BY DEF NativeInv, FutureInv, Phase, Served, Started, Silent, Unpolled, Working,
    Over, runtimeVars, lambdaVars, futureVars
<1> QED
  BY <1>1, <1>2, <1>3, <1>4 DEF NativeInv

(* A call begins; the futures are not touched.                               *)
LEMMA CallsInv ==
  NativeInv /\ (DialDiagnostics \/ \E f \in Functions : Call(f)) => NativeInv'
<1> SUFFICES ASSUME NativeInv, NEW g,
                    CanCall /\ Begin(g) /\ made' = made + 1
                      /\ UNCHANGED <<runtimeVars, contextVars, lambdaVars, futureVars>>
             PROVE  NativeInv'
  BY DEF DialDiagnostics, Call
<1>1. installed /\ made' \in 0..MaxCalls
  BY NativeAssumption DEF CanCall, NativeInv, RuntimeTypes
<1> QED
  BY <1>1, CallsBegin

(* The result of a finished future is asked for.                             *)
LEMMA CompleteInv ==
  ASSUME NativeInv, NEW f \in Futures, Complete(f)
  PROVE  NativeInv'
<1>1. /\ js[f] = "complete" /\ Begin(Completion)
      /\ js' = [js EXCEPT ![f] = "completing"]
      /\ UNCHANGED <<runtimeVars, contextVars, lambdaVars, made, owner, done, sched,
                     probe>>
  BY DEF Complete
<1>2. CallInv'
  BY <1>1, BeginInv DEF NativeInv
<1>3. Phase(f) /\ Served(f) /\ js'[f] = "completing"
  BY <1>1 DEF NativeInv, FutureInv, FutureTypes
<1>4. Phase(f)' /\ Served(f)'
  BY <1>1, <1>3 DEF Phase, Served, Started, Silent, Over, runtimeVars, lambdaVars
<1>5. /\ inbox' = inbox /\ inbox' \subseteq Futures \X BOOLEAN
      /\ crashed' \in BOOLEAN /\ rsLambda' = rsLambda /\ installed
  BY <1>1, <1>3 DEF lambdaVars, Served, Started, NativeInv, RuntimeTypes, FutureTypes
<1> QED
  BY <1>1, <1>2, <1>4, <1>5, Itself, FutureMoves DEF NativeInv

(* A call in progress takes a step; its end makes or completes a future.     *)
LEMMA InCallInv == NativeInv /\ InCall => NativeInv'
<1> SUFFICES ASSUME NativeInv, InCall PROVE NativeInv'
  OBVIOUS
<1>1. /\ CallStep
      /\ UNCHANGED <<runtimeVars, contextVars, lambdaVars, made, done, sched, probe>>
  BY DEF InCall
<1>2. CallInv' /\ pc # "idle" /\ installed /\ alive /\ current # 0
  BY <1>1, CallStepInv DEF NativeInv, RuntimeInv, CallStep, LowerArg, LowerThrows,
    FromJs, RustReturns, RustFails, CopyIntoJs, Return, Lift, RustbufferFree
<1>3. RuntimeTypes' /\ RuntimeInv'
  BY <1>1, <1>2 DEF NativeInv, RuntimeTypes, RuntimeInv, runtimeVars, contextVars,
    lambdaVars
<1>4. ASSUME NEW f \in Unborn, owner' = [owner EXCEPT ![f] = current],
             js' = [js EXCEPT ![f] = "poll"]
      PROVE  NativeInv'
  <2>1. f \in Futures /\ owner[f] = 0
    BY DEF Unborn
  <2>2. FutureTypes'
    BY <1>1, <1>4, <2>1 DEF NativeInv, RuntimeTypes, FutureTypes, runtimeVars,
      lambdaVars
  <2>3. ASSUME NEW g \in Futures PROVE Phase(g)' /\ Served(g)'
    <3>1. Phase(g) /\ Served(g) /\ Phase(f) /\ Served(f)
      BY <2>1 DEF NativeInv, FutureInv
    <3>2. CASE g = f
      <4>1. js[f] = "none" /\ js'[f] = "poll" /\ owner'[f] # 0
        BY <1>2, <1>4, <2>1, <3>1 DEF Served, NativeInv, FutureTypes
      <4> QED
        BY <1>1, <1>2, <3>1, <3>2, <4>1 DEF Phase, Served, Started, Silent, Unpolled,
          runtimeVars, lambdaVars
    <3>3. CASE g # f
      <4>1. js'[g] = js[g] /\ owner'[g] = owner[g]
        BY <1>4, <2>1, <3>3 DEF NativeInv, FutureTypes
      <4> QED
        BY <1>1, <3>1, <4>1 DEF Phase, Served, Started, Silent, Unpolled, Working,
          Over, runtimeVars, lambdaVars
    <3> QED
      BY <3>2, <3>3
  <2> QED
    BY <1>2, <1>3, <2>2, <2>3 DEF NativeInv, FutureInv
<1>5. ASSUME UNCHANGED owner,
             js' = [f \in Futures |->
                      IF js[f] = "completing" /\ pc' = "idle" THEN "free" ELSE js[f]]
      PROVE  NativeInv'
  <2>1. FutureTypes'
    BY <1>1, <1>5 DEF NativeInv, FutureTypes, lambdaVars
  <2>2. ASSUME NEW g \in Futures PROVE Phase(g)' /\ Served(g)'
    <3>1. Phase(g) /\ Served(g)
      BY DEF NativeInv, FutureInv
    <3>2. js'[g] = js[g] \/ (js[g] = "completing" /\ js'[g] = "free")
      BY <1>5
    <3> QED
      BY <1>1, <1>5, <3>1, <3>2 DEF Phase, Served, Started, Silent, Unpolled, Working,
        Over, runtimeVars, lambdaVars
  <2> QED
    BY <1>2, <1>3, <2>1, <2>2 DEF NativeInv, FutureInv
<1> QED
  BY <1>4, <1>5 DEF InCall

-----------------------------------------------------------------------------
(* Futures and the callback.                                                 *)
LEMMA PollInv ==
  ASSUME NativeInv, NEW f \in Futures, Poll(f)
  PROVE  NativeInv' /\ crashed' = crashed
<1>1. /\ JsFree /\ js[f] = "poll" /\ rsLambda' = MakeCallbackFunction
      /\ UNCHANGED <<callVars, runtimeVars, contextVars, made, owner, sched>>
  BY DEF Poll
<1>2. Phase(f) /\ Served(f) /\ CallInv' /\ CallInv
  BY <1>1, CallStutters DEF NativeInv, FutureInv
<1>3. installed /\ alive /\ current # 0 /\ rsLambda' = current /\ owner[f] # 0
  BY <1>1, <1>2 DEF NativeInv, RuntimeInv, Served, Started, MakeCallbackFunction
<1>4. /\ crashed \in BOOLEAN /\ inbox \subseteq Futures \X BOOLEAN
      /\ pc' # "idle" => installed
      /\ rsLambda' \in {rsLambda, current} /\ (rsLambda # 0 => rsLambda' = rsLambda)
  BY <1>3 DEF NativeInv, RuntimeTypes, FutureTypes, RuntimeInv
<1>5. Silent(f) /\ sched[f] = "empty" /\ (Unpolled(f) \/ Over(f))
  BY <1>1, <1>2 DEF Phase
<1>6. ASSUME NEW d \in BOOLEAN, NEW p \in {"end"}, d = TRUE,
             Callback(rsLambda', f, TRUE), js' = [js EXCEPT ![f] = "await"],
             done' = [done EXCEPT ![f] = d], probe' = [probe EXCEPT ![f] = p]
      PROVE  NativeInv' /\ crashed' = crashed
  <2>1. /\ inbox' \in {inbox, inbox \cup {<<f, TRUE>>}}
        /\ inbox' \subseteq Futures \X BOOLEAN /\ crashed' = crashed
        /\ \A g \in Futures \ {f}, r \in BOOLEAN :
             <<g, r>> \in inbox' <=> <<g, r>> \in inbox
    BY <1>3, <1>4, <1>6, InvokeAdds DEF NativeInv
  <2>2. js'[f] = "await" /\ done'[f] /\ probe'[f] = "end" /\ sched'[f] = "empty"
    BY <1>1, <1>5, <1>6 DEF NativeInv, FutureTypes
  <2>3. <<f, TRUE>> \notin inbox' \/ <<f, FALSE>> \notin inbox'
    BY <1>5, <2>1, OneOrOther
  <2>4. Phase(f)' /\ Served(f)'
    BY <1>1, <1>3, <2>2, <2>3 DEF Phase, Served, Started, Over, runtimeVars
  <2> QED
    BY <1>1, <1>2, <1>3, <1>4, <1>6, <2>1, <2>4, Itself, FutureMoves DEF NativeInv
<1>7. CASE /\ done[f] /\ Callback(rsLambda', f, TRUE)
           /\ js' = [js EXCEPT ![f] = "await"] /\ UNCHANGED <<done, probe>>
  <2>1. done' = [done EXCEPT ![f] = TRUE] /\ probe' = [probe EXCEPT ![f] = "end"]
    BY <1>5, <1>7 DEF Unpolled, Over, NativeInv, FutureTypes
  <2> QED
    BY <1>6, <1>7, <2>1
<1>8. CASE /\ probe[f] = "none" /\ Callback(rsLambda', f, TRUE)
           /\ js' = [js EXCEPT ![f] = "await"]
           /\ done' = [done EXCEPT ![f] = TRUE] /\ probe' = [probe EXCEPT ![f] = "end"]
  BY <1>6, <1>8
<1>9. CASE /\ ~done[f] /\ js' = [js EXCEPT ![f] = "storing"]
           /\ probe' = [probe EXCEPT ![f] = IF @ = "none" THEN "running" ELSE @]
           /\ UNCHANGED <<done, inbox, crashed>>
  <2>1. probe' = [probe EXCEPT ![f] = "running"]
    BY <1>5, <1>9 DEF Unpolled, Over
  <2>2. js'[f] = "storing" /\ done'[f] = FALSE /\ probe'[f] = "running"
        /\ sched'[f] = "empty"
    BY <1>1, <1>5, <1>9, <2>1 DEF NativeInv, FutureTypes
  <2>3. Phase(f)' /\ Served(f)'
    BY <1>1, <1>3, <1>5, <1>9, <2>2 DEF Phase, Served, Started, Working, Silent,
      runtimeVars
  <2> QED
    BY <1>1, <1>2, <1>3, <1>4, <1>9, <2>1, <2>3, Itself, FutureMoves DEF NativeInv
<1> QED
  BY <1>7, <1>8, <1>9 DEF Poll

(* The scheduler calls back at once only on the JavaScript thread.           *)
LEMMA StoreInv ==
  ASSUME NativeInv, NEW f \in Futures, StoreContinuation(f)
  PROVE  NativeInv' /\ crashed' = crashed
<1>1. /\ js[f] = "storing" /\ js' = [js EXCEPT ![f] = "await"]
      /\ UNCHANGED <<callVars, runtimeVars, contextVars, rsLambda, made, owner, done,
                     probe>>
  BY DEF StoreContinuation
<1>2. Phase(f) /\ Served(f) /\ CallInv' /\ CallInv
  BY <1>1, CallStutters DEF NativeInv, FutureInv
<1>3. installed /\ alive /\ rsLambda = current /\ rsLambda # 0 /\ owner[f] # 0
  BY <1>1, <1>2 DEF NativeInv, RuntimeInv, Served, Started
<1>4. /\ crashed \in BOOLEAN /\ inbox \subseteq Futures \X BOOLEAN
      /\ pc' # "idle" => installed
  BY <1>3 DEF NativeInv, RuntimeTypes, FutureTypes
<1>5. /\ Silent(f)
      /\ (sched[f] = "empty" /\ Working(f)) \/ (sched[f] = "waked" /\ Over(f))
  BY <1>1, <1>2 DEF Phase
<1>6. CASE sched[f] = "waked"
  <2>1. sched' = [sched EXCEPT ![f] = "empty"] /\ Callback(rsLambda, f, FALSE)
    BY <1>6 DEF StoreContinuation
  <2>2. /\ inbox' \in {inbox, inbox \cup {<<f, FALSE>>}}
        /\ inbox' \subseteq Futures \X BOOLEAN /\ crashed' = crashed
        /\ \A g \in Futures \ {f}, r \in BOOLEAN :
             <<g, r>> \in inbox' <=> <<g, r>> \in inbox
    BY <1>3, <1>4, <2>1, InvokeAdds DEF NativeInv
  <2>3. js'[f] = "await" /\ done'[f] /\ probe'[f] = "end" /\ sched'[f] = "empty"
    BY <1>1, <1>5, <1>6, <2>1 DEF NativeInv, FutureTypes, Over
  <2>4. <<f, TRUE>> \notin inbox' \/ <<f, FALSE>> \notin inbox'
    BY <1>5, <2>2, OneOrOther
  <2>5. Phase(f)' /\ Served(f)'
    BY <1>1, <1>3, <2>3, <2>4 DEF Phase, Served, Started, Over, runtimeVars
  <2> QED
    BY <1>1, <1>2, <1>3, <1>4, <2>1, <2>2, <2>5, Itself, FutureMoves DEF NativeInv
<1>7. CASE sched[f] # "waked"
  <2>1. sched' = [sched EXCEPT ![f] = "set"] /\ UNCHANGED <<inbox, crashed>>
    BY <1>7 DEF StoreContinuation
  <2>2. js'[f] = "await" /\ sched'[f] = "set" /\ Working(f)'
    BY <1>1, <1>5, <1>7, <2>1 DEF NativeInv, FutureTypes, Working
  <2>3. Phase(f)' /\ Served(f)'
    BY <1>1, <1>3, <1>5, <2>1, <2>2 DEF Phase, Served, Started, Silent, runtimeVars
  <2> QED
    BY <1>1, <1>2, <1>3, <1>4, <2>1, <2>3, Itself, FutureMoves DEF NativeInv
<1> QED
  BY <1>6, <1>7

(* The thread moves, and JavaScript does not.                                *)
LEMMA ThreadMoves ==
  ASSUME NativeInv, NEW f \in Futures, UNCHANGED callVars,
         UNCHANGED <<runtimeVars, contextVars, rsLambda, made, owner, js>>,
         NEW d \in BOOLEAN, done' = [done EXCEPT ![f] = d],
         NEW s \in {"empty", "set", "waked"}, sched' = [sched EXCEPT ![f] = s],
         NEW p \in {"none", "running", "wake", "check", "call", "end"},
         probe' = [probe EXCEPT ![f] = p],
         inbox' \subseteq Futures \X BOOLEAN, crashed' \in BOOLEAN,
         \A g \in Futures \ {f}, r \in BOOLEAN :
           <<g, r>> \in inbox' <=> <<g, r>> \in inbox,
         js[f] # "none", Phase(f)'
  PROVE  NativeInv'
<1>1. CallInv' /\ (pc' # "idle" => installed)
  BY CallStutters DEF NativeInv, RuntimeInv, callVars
<1>2. Served(f) /\ js' = [js EXCEPT ![f] = js[f]]
  BY Itself DEF NativeInv, FutureInv
<1>3. Served(f)'
  BY <1>2 DEF Served, Started, runtimeVars
<1>4. js[f] \in {"poll", "storing", "await", "complete", "completing", "free",
                "settled", "gone"}
  BY DEF NativeInv, FutureTypes
<1> QED
  BY <1>1, <1>2, <1>3, <1>4, FutureMoves

(* A Rust thread reports, wakes, or goes through its callback.               *)
LEMMA ThreadInv ==
  ASSUME NativeInv, NEW f \in Futures, Thread(f)
  PROVE  NativeInv'
<1>1. /\ Phase(f) /\ FutureTypes
      /\ crashed \in BOOLEAN /\ inbox \subseteq Futures \X BOOLEAN
  BY DEF NativeInv, FutureInv, RuntimeTypes, FutureTypes
<1>2. CASE Report(f)
  <2>1. /\ probe[f] = "running" /\ done' = [done EXCEPT ![f] = TRUE]
        /\ probe' = [probe EXCEPT ![f] = "wake"]
        /\ UNCHANGED <<callVars, runtimeVars, contextVars, lambdaVars, made, owner, js,
                       sched>>
    BY <1>2 DEF Report
  <2>2. /\ js[f] \in {"storing", "await", "gone"} /\ js'[f] = js[f]
        /\ sched'[f] = sched[f] /\ done'[f] = TRUE /\ probe'[f] = "wake"
        /\ inbox' = inbox /\ js[f] # "none"
    BY <1>1, <2>1 DEF Phase, Unpolled, Over, FutureTypes, lambdaVars
  <2>3. Phase(f)'
    BY <1>1, <2>1, <2>2 DEF Phase, Silent, Working, Over
  <2> QED
    BY <1>1, <2>1, <2>2, <2>3, Itself, ThreadMoves DEF lambdaVars
<1>3. CASE Wake(f)
  <2>1. /\ probe[f] = "wake"
        /\ sched' = [sched EXCEPT ![f] = IF sched[f] = "set" THEN "empty" ELSE "waked"]
        /\ probe' = [probe EXCEPT ![f] = IF sched[f] = "set" THEN "check" ELSE "end"]
        /\ UNCHANGED <<callVars, runtimeVars, contextVars, lambdaVars, made, owner, js,
                       done>>
    BY <1>1, <1>3 DEF Wake, FutureTypes
  <2>2. /\ js[f] \in {"storing", "await", "gone"} /\ js'[f] = js[f]
        /\ js[f] \in {"storing", "await"} => done'[f]
        /\ js[f] = "storing" => sched'[f] = "waked" /\ probe'[f] = "end"
        /\ js[f] = "await" => sched'[f] = "empty" /\ probe'[f] = "check"
        /\ js[f] # "gone" => Silent(f)
        /\ inbox' = inbox
    BY <1>1, <2>1 DEF Phase, Unpolled, Working, Over, FutureTypes, lambdaVars
  <2>3. Phase(f)'
    BY <2>2 DEF Phase, Silent, Over
  <2> QED
    BY <1>1, <2>1, <2>2, <2>3, Itself, ThreadMoves DEF lambdaVars
<1>4. CASE CallbackCheck(f)
  <2>1. /\ probe[f] = "check"
        /\ probe' = [probe EXCEPT ![f] = IF rsLambda = 0 THEN "end" ELSE "call"]
        /\ UNCHANGED <<callVars, runtimeVars, contextVars, lambdaVars, made, owner, js,
                       done, sched>>
    BY <1>4 DEF CallbackCheck
  <2>2. /\ js[f] \in {"await", "gone"} /\ js'[f] = js[f] /\ sched'[f] = sched[f]
        /\ js[f] = "await" => sched[f] = "empty" /\ done'[f] /\ Silent(f)
        /\ probe'[f] \in {"end", "call"} /\ inbox' = inbox
    BY <1>1, <2>1 DEF Phase, Unpolled, Working, Over, FutureTypes, lambdaVars
  <2>3. Phase(f)'
    BY <2>2 DEF Phase, Silent, Over
  <2> QED
    BY <1>1, <2>1, <2>2, <2>3, Itself, ThreadMoves DEF lambdaVars
<1>5. CASE CallbackCall(f)
  <2>1. /\ probe[f] = "call" /\ probe' = [probe EXCEPT ![f] = "end"]
        /\ Invoke(rsLambda, f, FALSE)
        /\ UNCHANGED <<callVars, runtimeVars, contextVars, rsLambda, made, owner, js,
                       done, sched>>
    BY <1>5 DEF CallbackCall
  <2>2. /\ js[f] \in {"await", "gone"} /\ js'[f] = js[f] /\ sched'[f] = sched[f]
        /\ js[f] = "await" => sched[f] = "empty" /\ done'[f] /\ Silent(f)
        /\ probe'[f] = "end"
    BY <1>1, <2>1 DEF Phase, Unpolled, Working, Over, FutureTypes
  <2>3. /\ inbox' \in {inbox, inbox \cup {<<f, FALSE>>}}
        /\ inbox' \subseteq Futures \X BOOLEAN /\ crashed' \in BOOLEAN
        /\ \A g \in Futures \ {f}, r \in BOOLEAN :
             <<g, r>> \in inbox' <=> <<g, r>> \in inbox
    <3>1. inbox' \in {inbox, inbox \cup {<<f, FALSE>>}}
      BY <2>1 DEF Invoke
    <3>2. crashed' \in BOOLEAN
      BY <1>1, <2>1 DEF Invoke
    <3> QED
      BY <1>1, <3>1, <3>2, OneAdded
  <2>4. Silent(f) => <<f, TRUE>> \notin inbox' \/ <<f, FALSE>> \notin inbox'
    BY <2>3, OneOrOther
  <2>5. Phase(f)'
    BY <2>2, <2>4 DEF Phase, Over
  <2> QED
    BY <1>1, <2>1, <2>2, <2>3, <2>5, Itself, ThreadMoves
<1> QED
  BY <1>2, <1>3, <1>4, <1>5 DEF Thread

(* The continuation of a promise that waits for it is the only one.          *)
LEMMA BodyInv ==
  ASSUME NativeInv, NEW f \in Futures, NEW ready \in BOOLEAN, Body(f, ready)
  PROVE  NativeInv'
<1> DEFINE a == IF js[f] # "await" THEN js[f] ELSE IF ready THEN "complete" ELSE "poll"
<1>1. /\ <<f, ready>> \in inbox /\ inbox' = inbox \ {<<f, ready>>}
      /\ js' = [js EXCEPT ![f] = a]
      /\ UNCHANGED <<callVars, runtimeVars, contextVars, rsLambda, crashed, made, owner,
                     done, sched, probe>>
  BY DEF Body, NativeInv, FutureTypes
<1>2. Phase(f) /\ Served(f) /\ CallInv' /\ ~Silent(f) /\ (pc' # "idle" => installed)
  BY <1>1, CallStutters DEF NativeInv, FutureInv, RuntimeInv, Silent, callVars
<1>3. /\ inbox' \subseteq Futures \X BOOLEAN /\ crashed' \in BOOLEAN
      /\ \A g \in Futures \ {f}, r \in BOOLEAN :
           <<g, r>> \in inbox' <=> <<g, r>> \in inbox
  BY <1>1 DEF NativeInv, RuntimeTypes, FutureTypes
<1>4. js[f] \in {"await", "gone"} /\ js'[f] = a
  BY <1>1, <1>2 DEF Phase, NativeInv, FutureTypes
<1>5. CASE js[f] = "await"
  <2>1. /\ <<f, TRUE>> \notin inbox \/ <<f, FALSE>> \notin inbox
        /\ sched[f] = "empty" /\ Over(f)
    BY <1>2, <1>5 DEF Phase
  <2>2. Silent(f)'
    <3>1. CASE ready = TRUE
      BY <1>1, <2>1, <3>1 DEF Silent
    <3>2. CASE ready = FALSE
      BY <1>1, <2>1, <3>2 DEF Silent
    <3> QED
      BY <3>1, <3>2
  <2>3. js'[f] \in {"complete", "poll"} /\ a \in {"complete", "poll"}
    BY <1>4, <1>5
  <2>4. sched'[f] = "empty" /\ Over(f)'
    BY <1>1, <2>1 DEF Over
  <2>5. Phase(f)' /\ Served(f)'
    BY <1>1, <1>2, <1>5, <2>2, <2>3, <2>4 DEF Phase, Served, Started, runtimeVars
  <2> HIDE DEF a
  <2> QED
    BY <1>1, <1>2, <1>3, <2>3, <2>5, Itself, FutureMoves DEF NativeInv
<1>6. CASE js[f] = "gone"
  <2>1. js'[f] = "gone" /\ a = "gone"
    BY <1>4, <1>6
  <2>2. Phase(f)' /\ Served(f)'
    BY <1>1, <1>2, <1>6, <2>1 DEF Phase, Served, Started
  <2> HIDE DEF a
  <2> QED
    BY <1>1, <1>2, <1>3, <2>1, <2>2, Itself, FutureMoves DEF NativeInv
<1> QED
  BY <1>4, <1>5, <1>6

(* JavaScript frees a future it has completed.                               *)
LEMMA FreeInv ==
  ASSUME NativeInv, NEW f \in Futures, Free(f)
  PROVE  NativeInv'
<1>1. /\ js[f] = "free" /\ js' = [js EXCEPT ![f] = "settled"]
      /\ UNCHANGED <<callVars, runtimeVars, contextVars, lambdaVars, made, owner, done,
                     sched, probe>>
  BY DEF Free
<1>2. Phase(f) /\ Served(f) /\ CallInv' /\ (pc' # "idle" => installed)
  BY <1>1, CallStutters DEF NativeInv, FutureInv, RuntimeInv, callVars
<1>3. js'[f] = "settled"
  BY <1>1 DEF NativeInv, FutureTypes
<1>4. Phase(f)' /\ Served(f)'
  BY <1>1, <1>2, <1>3 DEF Phase, Served, Started, Silent, Over, lambdaVars
<1>5. /\ inbox' = inbox /\ inbox' \subseteq Futures \X BOOLEAN
      /\ crashed' \in BOOLEAN /\ rsLambda' = rsLambda
  BY <1>1 DEF lambdaVars, NativeInv, RuntimeTypes, FutureTypes
<1> QED
  BY <1>1, <1>2, <1>4, <1>5, Itself, FutureMoves DEF NativeInv

-----------------------------------------------------------------------------
(* Stuttering keeps it.                                                      *)
LEMMA NativeStutters == NativeInv /\ UNCHANGED vars => NativeInv'
<1> SUFFICES ASSUME NativeInv, UNCHANGED vars PROVE NativeInv'
  OBVIOUS
<1>1. CallInv'
  BY CallStutters DEF NativeInv, vars
<1>2. RuntimeTypes' /\ FutureTypes' /\ RuntimeInv'
  BY DEF NativeInv, RuntimeTypes, FutureTypes, RuntimeInv, vars, callVars, runtimeVars,
    contextVars, lambdaVars, futureVars
<1>3. FutureInv'
  BY DEF NativeInv, FutureInv, Phase, Served, Started, Silent, Unpolled, Working,
    Over, vars, runtimeVars, lambdaVars, futureVars
<1> QED
  BY <1>1, <1>2, <1>3 DEF NativeInv

(* Every step of the module keeps it.                                        *)
LEMMA NativeStep == NativeInv /\ [Next]_vars => NativeInv'
<1>1. NativeInv /\ Next => NativeInv'
  BY StandUpInv, ResolveInv, DestroyInv, CallsInv, InCallInv, CompleteInv, PollInv,
    StoreInv, BodyInv, FreeInv, ThreadInv DEF Next, JsTask
<1> QED
  BY <1>1, NativeStutters

(* So it holds in every behaviour.                                           *)
LEMMA NativeAlways == Spec => []NativeInv
  BY NativeInit, NativeStep, PTL DEF Spec

(* Every variable keeps its type, for any number of runtimes, futures and    *)
(* calls and any size of the heap.                                           *)
THEOREM NativeTypeCorrect == Spec => []TypeOK
<1>1. NativeInv => TypeOK
  BY CallInvSafe DEF NativeInv, RuntimeTypes, FutureTypes, TypeOK
<1> QED
  BY <1>1, NativeAlways, PTL

(* No call of the bindings frees a block twice or with a capacity that is    *)
(* not its own, or reads a block that was freed: toJs, rustbuffer_free,      *)
(* fromJs and copyIntoJs agree for all lengths and capacities.               *)
THEOREM HeapAlwaysIntact == Spec => []HeapIntact
<1>1. NativeInv => HeapIntact
  BY CallInvSafe DEF NativeInv
<1> QED
  BY <1>1, NativeAlways, PTL

(* When no call is in progress, the bindings hold no copy of an argument, no *)
(* result of a synchronous function and no error of Rust's.                  *)
THEOREM NothingEverHeld == Spec => []NothingHeldBetweenCalls
<1>1. NativeInv => NothingHeldBetweenCalls
  BY CallInvSafe DEF NativeInv
<1> QED
  BY <1>1, NativeAlways, PTL

(* rsLambda is the live runtime's through all reloads, and a wake-up that    *)
(* finds it null is for a promise that is gone.                              *)
THEOREM CallbackAlwaysReachesOwner == Spec => []CallbackReachesOwner
<1> SUFFICES ASSUME NativeInv PROVE CallbackReachesOwner
  BY NativeAlways, PTL
<1>1. rsLambda # 0 => alive /\ rsLambda = current
  BY DEF NativeInv, RuntimeInv
<1>2. ASSUME NEW f \in Futures, probe[f] = "check", rsLambda = 0
      PROVE  js[f] = "gone"
  <2>1. Phase(f) /\ Served(f)
    BY DEF NativeInv, FutureInv
  <2>2. js[f] \in {"await", "gone"}
    BY <1>2, <2>1 DEF Phase, Unpolled, Working, Over, NativeInv, FutureTypes
  <2> QED
    BY <1>2, <2>1, <2>2 DEF Served, Started
<1> QED
  BY <1>1, <1>2 DEF CallbackReachesOwner

(* The reference that Rust has installed exists through all reloads and      *)
(* failed installations.                                                     *)
THEOREM ContextAlwaysLive == Spec => []ContextIsLive
<1>1. NativeInv => ContextIsLive
  BY DEF NativeInv, RuntimeInv, ContextIsLive
<1> QED
  BY <1>1, NativeAlways, PTL

(* Only the second half of callback() on a diagnostics thread can meet a     *)
(* runtime that is no more: a poll that calls back at once, and a scheduler  *)
(* that was woken before, always find their own.                             *)
THEOREM OnlyThreadsMeetDeadRuntime ==
  Spec => [][crashed' = crashed \/ \E f \in Futures : CallbackCall(f)]_vars
<1>1. NativeInv /\ [Next]_vars =>
        [crashed' = crashed \/ \E f \in Futures : CallbackCall(f)]_vars
  <2> SUFFICES ASSUME NativeInv, Next
               PROVE  crashed' = crashed \/ \E f \in Futures : CallbackCall(f)
    OBVIOUS
  <2>1. CASE StandUp \/ ResolveGeneratedRuntime \/ Destroy
    BY <2>1 DEF StandUp, ResolveGeneratedRuntime, Destroy, lambdaVars
  <2>2. CASE (\E f \in Functions : Call(f)) \/ DialDiagnostics \/ InCall
    BY <2>2 DEF Call, DialDiagnostics, InCall, lambdaVars
  <2>3. ASSUME NEW f \in Futures, JsTask(f) PROVE crashed' = crashed
    <3>1. CASE Complete(f) \/ Free(f) \/ \E ready \in BOOLEAN : Body(f, ready)
      BY <3>1 DEF Complete, Free, Body, lambdaVars
    <3> QED
      BY <2>3, <3>1, PollInv, StoreInv DEF JsTask
  <2>4. ASSUME NEW f \in Futures, Thread(f)
        PROVE  crashed' = crashed \/ CallbackCall(f)
    BY <2>4 DEF Thread, Report, Wake, CallbackCheck, lambdaVars
  <2> QED
    BY <2>1, <2>2, <2>3, <2>4 DEF Next
<1> QED
  BY <1>1, NativeAlways, PTL DEF Spec
=============================================================================
