------------------------------ MODULE JsiCalls ------------------------------
(* One synchronous call of JavaScript into the crate, through the bindings   *)
(* of iroh_mobile_bridge.ts and the host functions of                        *)
(* iroh_mobile_bridge.cpp: which side allocates, copies, reads and frees the *)
(* buffers of the arguments, the result and the error.  There is one         *)
(* JavaScript thread, so one call at a time.                                 *)
EXTENDS RustBuffers, Sequences

VARIABLES
  heap,
  corrupt,   \* a free or a read met a block that is not what it took it for
  pc,        \* where the call is
  fn,        \* the function called
  args,      \* the lowered arguments: views
  copies,    \* the RustBuffers made of them
  ret, err,  \* what Rust returned, and RustCallStatus.error_buf
  failed,    \* RustCallStatus.code is not 0
  view       \* the view of ret that JavaScript lifts

callVars == <<heap, corrupt, pc, fn, args, copies, ret, err, failed, view>>

Sig(n, r) == [buffers |-> n, returns |-> r]

(* The functions of the crate: how many arguments cross as buffers and what  *)
(* comes back.  next_message has a u64 besides.  Only dial_diagnostics takes *)
(* no RustCallStatus: it cannot fail.                                        *)
Api ==
  [ bridge_version |-> Sig(0, "buffer"),  close |-> Sig(1, "nothing"),
    connect |-> Sig(4, "buffer"),         connect_target |-> Sig(7, "buffer"),
    dial_diagnostics |-> Sig(2, "future"), echo_roundtrip |-> Sig(1, "buffer"),
    is_running |-> Sig(0, "scalar"),      is_stream_open |-> Sig(1, "scalar"),
    next_message |-> Sig(1, "buffer"),    node_id |-> Sig(0, "buffer"),
    send |-> Sig(2, "nothing"),           start |-> Sig(1, "nothing"),
    stop |-> Sig(0, "nothing"),           start_tcp_forwarder |-> Sig(1, "buffer"),
    stop_tcp_forwarder |-> Sig(1, "nothing"),
    tcp_forwarder_stats |-> Sig(1, "buffer") ]

(* rust_future_complete_rust_buffer takes a handle and a status and returns  *)
(* the result of the crate's one future.                                     *)
Completion == "rust_future_complete_rust_buffer"

Signature(f) == IF f = Completion THEN Sig(0, "buffer") ELSE Api[f]

HostFunctions == DOMAIN Api \cup {Completion}

CallInit ==
  /\ heap = [b \in Blocks |-> Unused] /\ corrupt = FALSE
  /\ pc = "idle" /\ fn = "bridge_version"
  /\ args = <<>> /\ copies = <<>>
  /\ ret = Empty /\ err = Empty /\ failed = FALSE /\ view = NoView

(* The locals of the call go out of scope.  Views are dropped, blocks stay.  *)
Ends == /\ pc' = "idle"
        /\ args' = <<>> /\ copies' = <<>>
        /\ ret' = Empty /\ err' = Empty /\ failed' = FALSE /\ view' = NoView
        /\ UNCHANGED fn

Begin(f) == /\ pc = "idle" /\ f \in HostFunctions
            /\ fn' = f /\ pc' = "lower"
            /\ UNCHANGED <<heap, corrupt, args, copies, ret, err, failed, view>>

(* The next argument is lowered into Rust's memory, by rustbuffer_alloc: a   *)
(* view over the whole of a new block.                                       *)
RustbufferAlloc(n) ==
  /\ n > 0
  /\ \E b \in Fresh(heap) :
       /\ heap' = Allocated(heap, b, n, "lowered")
       /\ args' = Append(args, [at |-> b, len |-> n, hint |-> 0])

(* Or into bytes of JavaScript's own, by string_to_buffer; no byte needs no  *)
(* memory either way.                                                        *)
StringToBuffer(n) == /\ args' = Append(args, [at |-> 0, len |-> n, hint |-> 0])
                     /\ UNCHANGED heap

LowerArg ==
  /\ pc = "lower" /\ Len(args) < Signature(fn).buffers
  /\ \E n \in 0..MaxArg : RustbufferAlloc(n) \/ StringToBuffer(n)
  /\ UNCHANGED <<corrupt, pc, fn, copies, ret, err, failed, view>>

(* A value of the wrong type or too long for rustbuffer_alloc.               *)
LowerThrows == /\ pc = "lower" /\ Len(args) < Signature(fn).buffers
               /\ Ends
               /\ UNCHANGED <<heap, corrupt>>

(* Bridging<RustBuffer>::fromJs of one argument: rustbuffer_from_bytes       *)
(* copies the bytes of the view.  C++ may take the arguments in any order.   *)
FromJs ==
  LET i == Len(copies) + 1 IN
  /\ pc = "lower" /\ Len(args) = Signature(fn).buffers /\ i <= Len(args)
  /\ corrupt' = (corrupt \/ ~Live(heap, args[i].at))
  /\ IF args[i].len = 0
     THEN copies' = Append(copies, Empty) /\ UNCHANGED heap
     ELSE \E b \in Fresh(heap) :
            /\ heap' = Allocated(heap, b, args[i].len, "copy")
            /\ copies' = Append(copies, [at |-> b, len |-> args[i].len,
                                        cap |-> args[i].len])
  /\ UNCHANGED <<pc, fn, args, ret, err, failed, view>>

CopyBlocks == {copies[i].at : i \in DOMAIN copies}

(* Rust takes the copies over and drops them before it returns.              *)
DropCopies ==
  corrupt' = (corrupt \/ \/ \E i \in DOMAIN copies : ~FreeIsSound(heap, copies[i])
                         \/ \E i, j \in DOMAIN copies : /\ i # j /\ copies[i].at # 0
                                                       /\ copies[i].at = copies[j].at)

Holder == IF fn \in DOMAIN Api THEN "returned" ELSE "completed"

(* A buffer with no byte has no memory: every String and record that is      *)
(* empty is made from nothing (String::new(), unwrap_or_default()).          *)
RustReturns ==
  LET h == Released(heap, CopyBlocks) IN
  /\ pc = "lower" /\ Len(args) = Signature(fn).buffers /\ Len(copies) = Len(args)
  /\ DropCopies
  /\ \/ heap' = h /\ ret' = Empty
     \/ /\ Signature(fn).returns = "buffer"
        /\ \E b \in Fresh(h), cap \in 1..MaxLen : \E len \in 1..cap :
             /\ heap' = Allocated(h, b, cap, Holder)
             /\ ret' = [at |-> b, len |-> len, cap |-> cap]
  /\ pc' = "return" /\ copies' = <<>>
  /\ UNCHANGED <<fn, args, err, failed, view>>

(* An error or a panic: the message is in error_buf, if there is one, and    *)
(* the value is the default of its type.                                     *)
RustFails ==
  LET h == Released(heap, CopyBlocks) IN
  /\ pc = "lower" /\ Len(args) = Signature(fn).buffers /\ Len(copies) = Len(args)
  /\ Signature(fn).returns # "future"
  /\ DropCopies
  /\ \/ heap' = h /\ err' = Empty
     \/ \E b \in Fresh(h), cap \in 1..MaxLen : \E len \in 1..cap :
          /\ heap' = Allocated(h, b, cap, "error")
          /\ err' = [at |-> b, len |-> len, cap |-> cap]
  /\ pc' = "status" /\ failed' = TRUE /\ copies' = <<>>
  /\ UNCHANGED <<fn, args, ret, view>>

(* Mutant: the error is handed over as a view, as a result is.               *)
CopyIntoJsView ==
  /\ pc = "status" /\ pc' = "return"
  /\ err' = Empty
  /\ UNCHANGED <<heap, corrupt, fn, args, copies, ret, failed, view>>

(* copyIntoJs: the error's bytes are copied to memory that a CMutableBuffer  *)
(* refers to and never deletes; then Rust's buffer is freed.                 *)
CopyIntoJs ==
  /\ pc = "status" /\ pc' = "return"
  /\ IF err.at = 0 THEN UNCHANGED <<heap, corrupt>>
     ELSE \E b \in Fresh(heap) :
            /\ heap' = Released(Allocated(heap, b, err.len, "errorCopy"), {err.at})
            /\ corrupt' = (corrupt \/ ~FreeIsSound(heap, err))
  /\ err' = Empty
  /\ UNCHANGED <<fn, args, copies, ret, failed, view>>

(* The host function returns.  rustCall throws what is in the status.        *)
Return ==
  /\ pc = "return"
  /\ IF Signature(fn).returns = "buffer" /\ ~failed
     THEN /\ view' = ToJs(ret) /\ ret' = Empty /\ pc' = "lift"
          /\ UNCHANGED <<fn, args, copies, err, failed>>
     ELSE Ends
  /\ UNCHANGED <<heap, corrupt>>

(* The converter reads the view and may throw; a try/finally around it frees *)
(* the view of a synchronous call, nothing does for a completed future.      *)
Lift ==
  /\ pc = "lift"
  /\ corrupt' = (corrupt \/ ~Live(heap, view.at))
  /\ IF fn \in DOMAIN Api
     THEN pc' = "finally" /\ UNCHANGED <<fn, args, copies, ret, err, failed, view>>
     ELSE Ends
  /\ UNCHANGED heap

(* An empty view is taken to have no memory.                                 *)
RustbufferFree ==
  /\ pc = "finally"
  /\ IF view.len = 0 THEN UNCHANGED <<heap, corrupt>>
     ELSE /\ corrupt' = (corrupt \/ ~FreeIsSound(heap, OfView(view)))
          /\ heap' = Released(heap, {view.at})
  /\ Ends

CallStep == \/ LowerArg \/ LowerThrows \/ FromJs \/ RustReturns \/ RustFails
            \/ CopyIntoJs \/ Return \/ Lift \/ RustbufferFree

-----------------------------------------------------------------------------
(* Type correctness of the call's state and of the native heap.              *)
CallTypeOK ==
  /\ heap \in Heaps /\ corrupt \in BOOLEAN
  /\ pc \in {"idle", "lower", "status", "return", "lift", "finally"}
  /\ fn \in HostFunctions
  /\ args \in Seq(Views) /\ copies \in Seq(Buffers) /\ Len(copies) <= Len(args)
  /\ ret \in Buffers /\ err \in Buffers /\ failed \in BOOLEAN /\ view \in Views

(* Whatever the lengths and the outcome, no block is freed twice or with     *)
(* another capacity than its own, and JavaScript and fromJs read live memory *)
(* only: the hint of toJs, the early exit of rustbuffer_free for an empty    *)
(* view, and the copy and free in copyIntoJs fit together.                   *)
HeapIntact == ~corrupt

(* Between two calls Rust's results and errors, and the copies made of the   *)
(* arguments, have all been freed, whether the call returned, threw while an *)
(* argument was lowered, or failed in Rust.  What is left is what nobody     *)
(* frees: lowered arguments, the bytes of error copies, and the results of   *)
(* completed futures.                                                        *)
NothingHeldBetweenCalls ==
  pc = "idle" => \A b \in Blocks :
    heap[b].holder \in {"free", "lowered", "errorCopy", "completed"}
=============================================================================
