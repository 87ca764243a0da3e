--------------------------- MODULE JsiCallsProofs ---------------------------
(* The inductive invariant of a call through the bindings, and that Begin    *)
(* and CallStep preserve it.  NativeModuleProofs draws the theorems from it. *)
EXTENDS JsiCalls, TLAPS

(* A buffer or a view stands for the whole block it points to.               *)
Owned(at, cap, who) ==
  IF at = 0 THEN cap = 0 ELSE heap[at].holder = who /\ heap[at].cap = cap

(* Lowered arguments are live, and copies are distinct blocks of their own,  *)
(* which exist only while the call is lowered.                               *)
ArgsHeld == \A i \in 1..Len(args) :
  args[i].at # 0 => heap[args[i].at].holder = "lowered"

CopiesHeld ==
  /\ \A i \in 1..Len(copies) : Owned(copies[i].at, copies[i].cap, "copy")
  /\ \A i, j \in 1..Len(copies) :
       i # j /\ copies[i].at # 0 => copies[i].at # copies[j].at
  /\ Len(copies) # 0 => pc = "lower" /\ Len(args) = Signature(fn).buffers

(* A result is in ret, then in the view; an error is in err.                 *)
Reading == {"lift", "finally"}

ResultHeld ==
  /\ Owned(ret.at, ret.cap, Holder) /\ Owned(err.at, err.cap, "error")
  /\ pc # "status" => err.at = 0
  /\ ret.at # 0 => pc = "return" /\ ~failed /\ Signature(fn).returns = "buffer"
  /\ pc \in Reading => /\ Owned(view.at, OfView(view).cap, Holder)
                       /\ view.at = 0 <=> view.len = 0
  /\ ret.at = 0 <=> ret.len = 0
  /\ ret.at = 0 <=> ret.cap = 0
  /\ pc = "finally" => fn \in DOMAIN Api
  /\ failed => pc \in {"status", "return"}

(* And no other block is held on behalf of the call.                         *)
Accounted == \A b \in Blocks :
  /\ heap[b].holder = "copy" => b \in CopyBlocks
  /\ heap[b].holder = "error" => b = err.at
  /\ heap[b].holder = "returned" => b = ret.at \/ (pc \in Reading /\ b = view.at)

CallInv == /\ CallTypeOK /\ ~corrupt
           /\ ArgsHeld /\ CopiesHeld /\ ResultHeld /\ Accounted

-----------------------------------------------------------------------------
(* What the operators of RustBuffers do to the heap.                         *)
LEMMA HeapAllocated ==
  ASSUME NEW h \in Heaps, NEW b \in Blocks, NEW n \in 0..MaxLen,
         NEW who \in Holders
  PROVE  /\ Allocated(h, b, n, who) \in Heaps
         /\ Allocated(h, b, n, who)[b].cap = n
         /\ Allocated(h, b, n, who)[b].holder = who
         /\ \A c \in Blocks \ {b} : Allocated(h, b, n, who)[c] = h[c]
  BY DEF Allocated, Heaps

(* Releasing blocks leaves a heap.                                           *)
LEMMA HeapReleased ==
  ASSUME NEW h \in Heaps, NEW S
  PROVE  /\ Released(h, S) \in Heaps
         /\ \A b \in Blocks : IF b \in S THEN Released(h, S)[b].holder = "free"
                               ELSE Released(h, S)[b] = h[b]
  BY BoundsAssumption DEF Released, Heaps, Holders, Unused

(* Fresh gives blocks that are free.                                         *)
LEMMA FreshIsFree ==
  ASSUME NEW h, NEW b \in Fresh(h)
  PROVE  b \in Blocks /\ h[b].holder = "free"
  BY DEF Fresh

(* A block that is taken was free, and no other changes.                     *)
LEMMA Taken ==
  ASSUME NEW h \in Heaps, NEW b \in Fresh(h), NEW n \in 0..MaxLen,
         NEW who \in Holders, NEW g, g = Allocated(h, b, n, who)
  PROVE  /\ g \in Heaps /\ b \in Blocks /\ h[b].holder = "free"
         /\ g[b].holder = who /\ g[b].cap = n
         /\ \A c \in Blocks \ {b} : g[c] = h[c]
  BY FreshIsFree, HeapAllocated

(* An element that is appended is the last.                                  *)
LEMMA Appended ==
  ASSUME NEW S, NEW s \in Seq(S), NEW e \in S
  PROVE  /\ Append(s, e) \in Seq(S) /\ Len(Append(s, e)) = Len(s) + 1
         /\ \A i \in 1..Len(s) : Append(s, e)[i] = s[i]
         /\ Append(s, e)[Len(s) + 1] = e
  OBVIOUS

(* The empty values have their types.                                        *)
LEMMA Nothing ==
  /\ Empty \in Buffers /\ NoView \in Views
  /\ <<>> \in Seq(Views) /\ <<>> \in Seq(Buffers) /\ Len(<<>>) <= Len(<<>>)
  BY BoundsAssumption DEF Buffers, Views, Empty, NoView

(* The initial state, and the end of a call from a state where neither a     *)
(* copy, nor a result, nor an error is held.                                 *)
LEMMA CallInvInit == CallInit => CallInv
<1> SUFFICES ASSUME CallInit PROVE CallInv
  OBVIOUS
<1>1. "bridge_version" \in HostFunctions
  BY DEF HostFunctions, Api
<1>2. heap \in Heaps /\ \A b \in Blocks : heap[b].holder = "free"
  BY BoundsAssumption DEF CallInit, Heaps, Unused, Holders
<1>3. CallTypeOK
  BY <1>1, <1>2, Nothing DEF CallInit, CallTypeOK
<1>4. ArgsHeld /\ CopiesHeld
  BY DEF CallInit, ArgsHeld, CopiesHeld
<1>5. ResultHeld /\ Accounted
  BY <1>2 DEF CallInit, ResultHeld, Accounted, Owned, Reading, Empty, NoView
<1> QED
  BY <1>3, <1>4, <1>5 DEF CallInit, CallInv

(* A call that ends with nothing of its own on the heap keeps the invariant. *)
LEMMA EndsInv ==
  ASSUME CallInv, Ends, UNCHANGED corrupt, heap' \in Heaps,
         \A b \in Blocks : heap'[b].holder \notin {"copy", "error", "returned"}
  PROVE  CallInv'
<1>1. CallTypeOK'
  BY Nothing DEF CallInv, CallTypeOK, Ends
<1>2. ArgsHeld' /\ CopiesHeld'
  BY DEF Ends, ArgsHeld, CopiesHeld
<1>3. ResultHeld' /\ Accounted'
  BY DEF Ends, ResultHeld, Accounted, Owned, Reading, Empty, NoView
<1> QED
  BY <1>1, <1>2, <1>3 DEF CallInv

(* What is pointed to is a block or nothing, and never a free block.         *)
LEMMA Pointers ==
  ASSUME CallInv
  PROVE  /\ \A i \in 1..Len(args) : /\ args[i] \in Views
                                    /\ args[i].at # 0 => args[i].at \in Blocks
         /\ \A i \in 1..Len(copies) : /\ copies[i] \in Buffers
                                      /\ copies[i].at # 0 => copies[i].at \in Blocks
         /\ ret.at # 0 => ret.at \in Blocks
         /\ err.at # 0 => err.at \in Blocks
         /\ view.at # 0 => view.at \in Blocks
<1>1. /\ \A v \in Views : v.at # 0 => v.at \in Blocks
      /\ \A c \in Buffers : c.at # 0 => c.at \in Blocks
  BY BoundsAssumption DEF Views, Buffers, Blocks
<1>2. /\ args \in Seq(Views) /\ copies \in Seq(Buffers)
      /\ ret \in Buffers /\ err \in Buffers /\ view \in Views
  BY DEF CallInv, CallTypeOK
<1>3. /\ \A i \in 1..Len(args) : args[i] \in Views
      /\ \A i \in 1..Len(copies) : copies[i] \in Buffers
  BY <1>2
<1> QED
  BY <1>1, <1>2, <1>3

(* No argument, copy or result is in a free block.                           *)
LEMMA FreeIsUnused ==
  ASSUME CallInv, NEW b \in Blocks, heap[b].holder = "free"
  PROVE  /\ \A i \in 1..Len(args) : args[i].at # b
         /\ \A i \in 1..Len(copies) : copies[i].at # b
         /\ ret.at # b /\ err.at # b
         /\ pc \in Reading => view.at # b
<1>1. b # 0 /\ Holder # "free"
  BY DEF Blocks, Holder
<1> QED
  BY <1>1 DEF CallInv, ArgsHeld, CopiesHeld, ResultHeld, Owned

-----------------------------------------------------------------------------
(* One lemma for each step of a call.                                        *)
LEMMA BeginInv ==
  ASSUME CallInv, NEW f, Begin(f)
  PROVE  CallInv'
<1>1. Len(copies) = 0 /\ ret.at = 0 /\ err.at = 0
  BY DEF CallInv, CopiesHeld, ResultHeld, Begin
<1>2. CallTypeOK'
  BY DEF CallInv, CallTypeOK, Begin
<1>3. ArgsHeld' /\ CopiesHeld'
  BY <1>1 DEF CallInv, ArgsHeld, CopiesHeld, Owned, Begin
<1>4. ResultHeld' /\ Accounted'
  BY <1>1 DEF CallInv, ResultHeld, Accounted, CopyBlocks, Owned, Reading, Begin
<1> QED
  BY <1>2, <1>3, <1>4 DEF CallInv, Begin

(* An argument is lowered into a free block, which no other refers to.       *)
LEMMA LowerArgInv ==
  ASSUME CallInv, LowerArg
  PROVE  CallInv'
<1>1. PICK n \in 0..MaxArg : RustbufferAlloc(n) \/ StringToBuffer(n)
  BY DEF LowerArg
<1>2. n \in 0..MaxLen
  BY BoundsAssumption
<1>3. Len(copies) = 0 /\ ret.at = 0 /\ err.at = 0 /\ pc = "lower"
  BY DEF CallInv, CallTypeOK, CopiesHeld, ResultHeld, LowerArg
<1>4. UNCHANGED <<corrupt, pc, fn, copies, ret, err, failed, view>>
  BY DEF LowerArg
<1>5. CASE RustbufferAlloc(n)
  <2>1. PICK b \in Fresh(heap) :
          /\ heap' = Allocated(heap, b, n, "lowered")
          /\ args' = Append(args, [at |-> b, len |-> n, hint |-> 0])
    BY <1>5 DEF RustbufferAlloc
  <2>2. b \in Blocks /\ heap[b].holder = "free"
    BY FreshIsFree
  <2> DEFINE v == [at |-> b, len |-> n, hint |-> 0]
  <2>3. v \in Views
    BY <1>2, <2>2, BoundsAssumption DEF Views, Blocks
  <2> HIDE DEF v
  <2>4. args' = Append(args, v) /\ v.at = b
    BY <2>1 DEF v
  <2>5. /\ args' \in Seq(Views) /\ Len(args') = Len(args) + 1
        /\ \A i \in 1..Len(args) : args'[i] = args[i]
        /\ args'[Len(args) + 1] = v
    BY <2>3, <2>4, Appended DEF CallInv, CallTypeOK
  <2>6. /\ heap' \in Heaps /\ heap'[b].holder = "lowered"
        /\ \A c \in Blocks \ {b} : heap'[c] = heap[c]
    <3>1. heap \in Heaps /\ "lowered" \in Holders
      BY DEF CallInv, CallTypeOK, Holders
    <3> QED
      BY <1>2, <2>1, <3>1, Taken
  <2>7. CallTypeOK'
    BY <1>4, <2>5, <2>6 DEF CallInv, CallTypeOK
  <2>8. ASSUME NEW i \in 1..Len(args'), args'[i].at # 0
        PROVE  heap'[args'[i].at].holder = "lowered"
    <3>1. CASE i = Len(args) + 1
      BY <3>1, <2>4, <2>5, <2>6
    <3>2. CASE i \in 1..Len(args)
      <4>1. args'[i] = args[i] /\ args[i].at \in Blocks \ {b}
        BY <2>2, <2>5, <2>8, <3>2, Pointers, FreeIsUnused
      <4> QED
        BY <2>6, <2>8, <3>2, <4>1 DEF CallInv, ArgsHeld
    <3> QED
      BY <2>5, <3>1, <3>2 DEF CallInv, CallTypeOK
  <2>9. CopiesHeld'
    BY <1>3, <1>4 DEF CallInv, CopiesHeld
  <2>10. ResultHeld' /\ Accounted'
    BY <1>3, <1>4, <2>2, <2>6 DEF CallInv, ResultHeld, Accounted, CopyBlocks, Owned,
      Reading, Holder
  <2> QED
    BY <1>4, <2>7, <2>8, <2>9, <2>10 DEF CallInv, ArgsHeld
<1>6. CASE StringToBuffer(n)
  <2> DEFINE v == [at |-> 0, len |-> n, hint |-> 0]
  <2>1. v \in Views /\ v.at = 0
    BY <1>2, BoundsAssumption DEF Views
  <2>2. args' = Append(args, v) /\ heap' = heap
    BY <1>6 DEF StringToBuffer
  <2> HIDE DEF v
  <2>3. /\ args' \in Seq(Views) /\ Len(args') = Len(args) + 1
        /\ \A i \in 1..Len(args) : args'[i] = args[i]
        /\ args'[Len(args) + 1] = v
    BY <2>1, <2>2, Appended DEF CallInv, CallTypeOK
  <2>4. CallTypeOK'
    BY <1>4, <2>2, <2>3 DEF CallInv, CallTypeOK
  <2>5. ArgsHeld'
    BY <2>1, <2>2, <2>3 DEF CallInv, CallTypeOK, ArgsHeld
  <2>6. CopiesHeld' /\ ResultHeld' /\ Accounted'
    BY <1>3, <1>4, <2>2 DEF CallInv, CopiesHeld, ResultHeld, Accounted, CopyBlocks,
      Owned, Reading, Holder
  <2> QED
    BY <1>4, <2>4, <2>5, <2>6 DEF CallInv
<1> QED
  BY <1>1, <1>5, <1>6

(* Nothing but arguments is held while they are lowered.                     *)
LEMMA LowerThrowsInv ==
  ASSUME CallInv, LowerThrows
  PROVE  CallInv'
<1>1. Len(copies) = 0 /\ ret.at = 0 /\ err.at = 0 /\ pc = "lower"
  BY DEF CallInv, CallTypeOK, CopiesHeld, ResultHeld, LowerThrows
<1>2. \A b \in Blocks : heap[b].holder \notin {"copy", "error", "returned"}
  BY <1>1 DEF CallInv, CallTypeOK, Accounted, CopyBlocks, Reading, Blocks
<1> QED
  BY <1>2, EndsInv DEF LowerThrows, CallInv, CallTypeOK

(* A view is live while it is copied, and its copy is a block of its own.    *)
LEMMA FromJsInv ==
  ASSUME CallInv, FromJs
  PROVE  CallInv'
<1> DEFINE i == Len(copies) + 1
           c == copies'[i]
           Taking == /\ heap' \in Heaps /\ c \in Buffers
                     /\ copies' = Append(copies, c)
                     /\ IF c.at = 0 THEN c.cap = 0 /\ heap' = heap
                        ELSE /\ c.at \in Blocks /\ heap[c.at].holder = "free"
                             /\ heap'[c.at].holder = "copy"
                             /\ heap'[c.at].cap = c.cap
                             /\ \A d \in Blocks \ {c.at} : heap'[d] = heap[d]
<1>1. /\ Len(copies) \in Nat /\ i \in 1..Len(args) /\ pc = "lower"
      /\ Len(args) = Signature(fn).buffers /\ ret.at = 0 /\ err.at = 0
  BY DEF CallInv, CallTypeOK, ResultHeld, FromJs
<1>2. UNCHANGED <<pc, fn, args, ret, err, failed, view>>
  BY DEF FromJs
<1>3. args[i] \in Views /\ (args[i].at # 0 => args[i].at \in Blocks)
  BY <1>1, Pointers
<1>4. corrupt' = FALSE
  <2>1. corrupt = FALSE /\ Live(heap, args[i].at)
    BY <1>1, <1>3 DEF Live, CallInv, CallTypeOK, ArgsHeld
  <2> QED
    BY <2>1 DEF FromJs
<1>5. \/ copies' = Append(copies, Empty) /\ heap' = heap
      \/ \E b \in Fresh(heap) :
           /\ heap' = Allocated(heap, b, args[i].len, "copy")
           /\ copies' = Append(copies, [at |-> b, len |-> args[i].len,
                                        cap |-> args[i].len])
  BY DEF FromJs
<1>6. Taking
  <2>1. heap \in Heaps /\ copies \in Seq(Buffers) /\ "copy" \in Holders
    BY DEF CallInv, CallTypeOK, Holders
  <2>2. CASE copies' = Append(copies, Empty) /\ heap' = heap
    <3>1. c = Empty
      BY <2>1, <2>2, Nothing, Appended
    <3> QED
      BY <2>1, <2>2, <3>1, Nothing DEF Empty
  <2>3. ASSUME NEW b \in Fresh(heap),
               heap' = Allocated(heap, b, args[i].len, "copy"),
               copies' = Append(copies, [at |-> b, len |-> args[i].len,
                                         cap |-> args[i].len])
        PROVE  Taking
    <3> DEFINE new == [at |-> b, len |-> args[i].len, cap |-> args[i].len]
    <3>1. b \in 1..MaxBlocks /\ args[i].len \in 0..MaxLen
      BY <1>3, FreshIsFree DEF Views, Blocks
    <3>2. new \in Buffers
      BY <3>1, BoundsAssumption DEF Buffers
    <3>3. c = new
      BY <2>1, <2>3, <3>2, Appended
    <3>4. /\ heap' \in Heaps /\ b \in Blocks /\ heap[b].holder = "free"
          /\ heap'[b].holder = "copy" /\ heap'[b].cap = args[i].len
          /\ \A d \in Blocks \ {b} : heap'[d] = heap[d]
      BY <2>1, <2>3, <3>1, Taken
    <3> QED
      BY <2>3, <3>1, <3>2, <3>3, <3>4
  <2> QED
    BY <1>5, <2>2, <2>3
<1> HIDE DEF c
<1>7. /\ copies' \in Seq(Buffers) /\ Len(copies') = i /\ copies'[i] = c
      /\ \A j \in 1..Len(copies) : copies'[j] = copies[j]
  BY <1>6, Appended DEF CallInv, CallTypeOK
<1>8. CallTypeOK'
  <2>1. args \in Seq(Views) /\ Len(copies') <= Len(args) /\ heap' \in Heaps
    BY <1>1, <1>6, <1>7 DEF CallInv, CallTypeOK
  <2> QED
    BY <1>2, <1>4, <1>7, <2>1 DEF CallInv, CallTypeOK
<1>9. ArgsHeld'
  <2>1. ASSUME NEW j \in 1..Len(args), args[j].at # 0
        PROVE  heap'[args[j].at].holder = "lowered"
    <3>1. args[j].at \in Blocks /\ heap[args[j].at].holder = "lowered"
      BY <2>1, Pointers DEF CallInv, ArgsHeld
    <3>2. heap'[args[j].at] = heap[args[j].at]
      BY <1>6, <3>1
    <3> QED
      BY <3>1, <3>2
  <2> QED
    BY <1>2, <2>1 DEF ArgsHeld
<1>10. ASSUME NEW j \in 1..Len(copies), copies[j].at # 0
       PROVE  /\ copies[j].at # c.at
              /\ heap'[copies[j].at].holder = "copy"
              /\ heap'[copies[j].at].cap = copies[j].cap
  <2>1. /\ copies[j].at \in Blocks /\ heap[copies[j].at].holder = "copy"
        /\ heap[copies[j].at].cap = copies[j].cap
    BY <1>10, Pointers DEF CallInv, CopiesHeld, Owned
  <2> QED
    BY <1>6, <1>10, <2>1
<1>11. CopiesHeld'
  <2>1. ASSUME NEW j \in 1..Len(copies')
        PROVE  IF copies'[j].at = 0 THEN copies'[j].cap = 0
               ELSE heap'[copies'[j].at].holder = "copy"
                    /\ heap'[copies'[j].at].cap = copies'[j].cap
    <3>1. CASE j = i
      BY <1>6, <1>7, <3>1
    <3>2. CASE j \in 1..Len(copies)
      BY <1>7, <1>10, <3>2 DEF CallInv, CopiesHeld, Owned
    <3> QED
      BY <1>1, <1>7, <3>1, <3>2
  <2>2. ASSUME NEW j \in 1..Len(copies'), NEW k \in 1..Len(copies'), j # k,
               copies'[j].at # 0
        PROVE  copies'[j].at # copies'[k].at
    <3>1. CASE j = i
      <4>1. k \in 1..Len(copies) /\ copies'[k] = copies[k]
        BY <1>1, <1>7, <2>2, <3>1
      <4> QED
        BY <1>7, <1>10, <2>2, <3>1, <4>1
    <3>2. CASE k = i
      <4>1. j \in 1..Len(copies) /\ copies'[j] = copies[j]
        BY <1>1, <1>7, <2>2, <3>2
      <4> QED
        BY <1>7, <1>10, <2>2, <3>2, <4>1
    <3>3. CASE j # i /\ k # i
      BY <1>1, <1>7, <2>2, <3>3 DEF CallInv, CopiesHeld
    <3> QED
      BY <3>1, <3>2, <3>3
  <2> QED
    BY <1>1, <1>2, <2>1, <2>2 DEF CopiesHeld, Owned
<1>12. ResultHeld'
  BY <1>1, <1>2 DEF CallInv, ResultHeld, Owned, Reading, Holder
<1>13. Accounted'
  <2>1. ASSUME NEW b \in Blocks, heap'[b].holder = "copy" PROVE b \in CopyBlocks'
    <3>1. CASE b = c.at
      BY <1>1, <1>7, <3>1 DEF CopyBlocks
    <3>2. CASE b # c.at
      <4>1. heap[b].holder = "copy"
        BY <1>6, <2>1, <3>2
      <4>2. PICK j \in 1..Len(copies) : b = copies[j].at
        BY <4>1 DEF CallInv, CallTypeOK, Accounted, CopyBlocks
      <4>3. j \in DOMAIN copies' /\ copies'[j].at = b
        BY <1>1, <1>7, <4>2
      <4> QED
        BY <4>3 DEF CopyBlocks
    <3> QED
      BY <3>1, <3>2
  <2>2. ASSUME NEW b \in Blocks
        PROVE  heap'[b].holder \notin {"error", "returned"}
    BY <1>1, <1>6 DEF CallInv, Accounted, Reading, Blocks
  <2> QED
    BY <2>1, <2>2 DEF Accounted
<1> QED
  BY <1>4, <1>8, <1>9, <1>11, <1>12, <1>13 DEF CallInv

(* Rust frees each copy once and with its own capacity, and nothing is left  *)
(* of the call but the arguments.                                            *)
LEMMA Dropped ==
  ASSUME CallInv, pc = "lower", DropCopies, NEW h, h = Released(heap, CopyBlocks)
  PROVE  /\ corrupt' = FALSE /\ h \in Heaps
         /\ \A i \in 1..Len(args) :
              args[i].at # 0 => h[args[i].at].holder = "lowered"
         /\ \A b \in Blocks : h[b].holder \notin {"copy", "error", "returned"}
<1>1. h \in Heaps /\ \A b \in Blocks : IF b \in CopyBlocks THEN h[b].holder = "free"
                                      ELSE h[b] = heap[b]
  BY HeapReleased DEF CallInv, CallTypeOK
<1>2. corrupt' = FALSE
  <2>1. \A i \in DOMAIN copies : FreeIsSound(heap, copies[i])
    BY DEF CallInv, CallTypeOK, CopiesHeld, Owned, FreeIsSound
  <2>2. \A i, j \in DOMAIN copies :
          i # j /\ copies[i].at # 0 => copies[i].at # copies[j].at
    BY DEF CallInv, CallTypeOK, CopiesHeld
  <2>3. corrupt = FALSE
    BY DEF CallInv, CallTypeOK
  <2> QED
    BY <2>1, <2>2, <2>3 DEF DropCopies
<1>3. ASSUME NEW i \in 1..Len(args), args[i].at # 0
      PROVE  h[args[i].at].holder = "lowered"
  <2>1. args[i].at \in Blocks /\ heap[args[i].at].holder = "lowered"
    BY <1>3, Pointers DEF CallInv, ArgsHeld
  <2>2. args[i].at \notin CopyBlocks
    BY <1>3, <2>1 DEF CallInv, CallTypeOK, CopiesHeld, CopyBlocks, Owned
  <2> QED
    BY <1>1, <2>1, <2>2
<1>4. ASSUME NEW b \in Blocks
      PROVE  h[b].holder \notin {"copy", "error", "returned"}
  BY <1>1 DEF CallInv, Accounted, ResultHeld, Reading, Blocks
<1> QED
  BY <1>1, <1>2, <1>3, <1>4

(* A result or an error that Rust makes in a block that h leaves free.       *)
LEMMA Made ==
  ASSUME NEW h \in Heaps, NEW b \in Fresh(h), NEW cap \in 1..MaxLen,
         NEW len \in 1..cap, NEW who \in Holders, NEW buf,
         buf = [at |-> b, len |-> len, cap |-> cap],
         heap' = Allocated(h, b, cap, who)
  PROVE  /\ heap' \in Heaps /\ buf \in Buffers /\ buf.at \in Blocks
         /\ h[buf.at].holder = "free" /\ buf.at # 0
         /\ buf.len # 0 /\ buf.cap # 0
         /\ heap'[buf.at].holder = who /\ heap'[buf.at].cap = buf.cap
         /\ \A c \in Blocks \ {buf.at} : heap'[c] = h[c]
<1>1. cap \in 0..MaxLen /\ len \in 0..MaxLen /\ len # 0 /\ cap # 0
  BY BoundsAssumption
<1>2. /\ heap' \in Heaps /\ b \in Blocks /\ h[b].holder = "free"
      /\ heap'[b].holder = who /\ heap'[b].cap = cap
      /\ \A c \in Blocks \ {b} : heap'[c] = h[c]
  BY <1>1, Taken
<1>3. buf \in Buffers /\ b # 0
  BY <1>1, <1>2, BoundsAssumption DEF Buffers, Blocks
<1> QED
  BY <1>1, <1>2, <1>3

(* The block that is made is none of the arguments'.                         *)
LEMMA ArgsKept ==
  ASSUME CallInv, NEW h,
         \A i \in 1..Len(args) : args[i].at # 0 => h[args[i].at].holder = "lowered",
         NEW at, h[at].holder # "lowered",
         \A c \in Blocks \ {at} : heap'[c] = h[c], UNCHANGED args
  PROVE  ArgsHeld'
<1>1. ASSUME NEW i \in 1..Len(args), args[i].at # 0
      PROVE  heap'[args[i].at].holder = "lowered"
  BY <1>1, Pointers
<1> QED
  BY <1>1 DEF ArgsHeld

(* Rust has consumed the copies and hands over a result of its own.          *)
LEMMA RustReturnsInv ==
  ASSUME CallInv, RustReturns
  PROVE  CallInv'
<1> DEFINE h == Released(heap, CopyBlocks)
<1>1. /\ pc = "lower" /\ DropCopies /\ pc' = "return" /\ copies' = <<>>
      /\ UNCHANGED <<fn, args, err, failed, view>>
      /\ \/ heap' = h /\ ret' = Empty
         \/ /\ Signature(fn).returns = "buffer"
            /\ \E b \in Fresh(h), cap \in 1..MaxLen : \E len \in 1..cap :
                 /\ heap' = Allocated(h, b, cap, Holder)
                 /\ ret' = [at |-> b, len |-> len, cap |-> cap]
  BY DEF RustReturns
<1>2. /\ corrupt' = FALSE /\ h \in Heaps
      /\ \A i \in 1..Len(args) : args[i].at # 0 => h[args[i].at].holder = "lowered"
      /\ \A b \in Blocks : h[b].holder \notin {"copy", "error", "returned"}
  BY <1>1, Dropped
<1> HIDE DEF h
<1>3. err.at = 0 /\ err.cap = 0 /\ failed = FALSE
  BY <1>1 DEF CallInv, CallTypeOK, ResultHeld, Owned
<1>4. Holder \in Holders \ {"free", "copy", "error", "lowered"} /\ Holder' = Holder
  BY <1>1 DEF Holder, Holders
<1>5. /\ CopiesHeld' /\ CopyBlocks' = {}
      /\ copies' \in Seq(Buffers) /\ Len(copies') <= Len(args)
  BY <1>1 DEF CallInv, CallTypeOK, CopiesHeld, CopyBlocks
<1>6. CASE heap' = h /\ ret' = Empty
  <2>1. CallTypeOK'
    BY <1>1, <1>2, <1>5, <1>6, Nothing DEF CallInv, CallTypeOK
  <2>2. ArgsHeld' /\ ResultHeld' /\ Accounted'
    BY <1>1, <1>2, <1>3, <1>6 DEF ArgsHeld, ResultHeld, Accounted, Owned, Reading,
      Empty
  <2> QED
    BY <1>2, <1>5, <2>1, <2>2 DEF CallInv
<1>7. ASSUME NEW b \in Fresh(h), NEW cap \in 1..MaxLen, NEW len \in 1..cap,
             Signature(fn).returns = "buffer",
             heap' = Allocated(h, b, cap, Holder),
             ret' = [at |-> b, len |-> len, cap |-> cap]
      PROVE  CallInv'
  <2>1. /\ heap' \in Heaps /\ ret' \in Buffers /\ ret'.at \in Blocks
        /\ h[ret'.at].holder = "free" /\ ret'.at # 0
        /\ ret'.len # 0 /\ ret'.cap # 0
        /\ heap'[ret'.at].holder = Holder /\ heap'[ret'.at].cap = ret'.cap
        /\ \A c \in Blocks \ {ret'.at} : heap'[c] = h[c]
    BY <1>2, <1>4, <1>7, Made
  <2>2. CallTypeOK'
    BY <1>1, <1>2, <1>5, <2>1 DEF CallInv, CallTypeOK
  <2>3. ArgsHeld'
    BY <1>1, <1>2, <2>1, ArgsKept
  <2>4. ResultHeld'
    BY <1>1, <1>3, <1>4, <1>7, <2>1 DEF ResultHeld, Owned, Reading
  <2>5. Accounted'
    BY <1>2, <1>4, <2>1 DEF Accounted
  <2> QED
    BY <1>2, <1>5, <2>2, <2>3, <2>4, <2>5 DEF CallInv
<1> QED
  BY <1>1, <1>6, <1>7

(* Rust has consumed the copies and hands over an error of its own.          *)
LEMMA RustFailsInv ==
  ASSUME CallInv, RustFails
  PROVE  CallInv'
<1> DEFINE h == Released(heap, CopyBlocks)
<1>1. /\ pc = "lower" /\ DropCopies /\ pc' = "status" /\ copies' = <<>>
      /\ failed' = TRUE /\ UNCHANGED <<fn, args, ret, view>>
      /\ \/ heap' = h /\ err' = Empty
         \/ \E b \in Fresh(h), cap \in 1..MaxLen : \E len \in 1..cap :
              /\ heap' = Allocated(h, b, cap, "error")
              /\ err' = [at |-> b, len |-> len, cap |-> cap]
  BY DEF RustFails
<1>2. /\ corrupt' = FALSE /\ h \in Heaps
      /\ \A i \in 1..Len(args) : args[i].at # 0 => h[args[i].at].holder = "lowered"
      /\ \A b \in Blocks : h[b].holder \notin {"copy", "error", "returned"}
  BY <1>1, Dropped
<1> HIDE DEF h
<1>3. ret.at = 0 /\ ret.cap = 0 /\ ret.len = 0
  BY <1>1 DEF CallInv, ResultHeld, Owned
<1>5. /\ CopiesHeld' /\ CopyBlocks' = {}
      /\ copies' \in Seq(Buffers) /\ Len(copies') <= Len(args)
  BY <1>1 DEF CallInv, CallTypeOK, CopiesHeld, CopyBlocks
<1>6. CASE heap' = h /\ err' = Empty
  <2>1. CallTypeOK'
    BY <1>1, <1>2, <1>5, <1>6, Nothing DEF CallInv, CallTypeOK
  <2>2. ArgsHeld' /\ ResultHeld' /\ Accounted'
    BY <1>1, <1>2, <1>3, <1>6 DEF ArgsHeld, ResultHeld, Accounted, Owned, Reading,
      Empty
  <2> QED
    BY <1>2, <1>5, <2>1, <2>2 DEF CallInv
<1>7. ASSUME NEW b \in Fresh(h), NEW cap \in 1..MaxLen, NEW len \in 1..cap,
             heap' = Allocated(h, b, cap, "error"),
             err' = [at |-> b, len |-> len, cap |-> cap]
      PROVE  CallInv'
  <2>1. /\ heap' \in Heaps /\ err' \in Buffers /\ err'.at \in Blocks
        /\ h[err'.at].holder = "free" /\ err'.at # 0
        /\ err'.len # 0 /\ err'.cap # 0
        /\ heap'[err'.at].holder = "error" /\ heap'[err'.at].cap = err'.cap
        /\ \A c \in Blocks \ {err'.at} : heap'[c] = h[c]
    <3>1. "error" \in Holders
      BY DEF Holders
    <3> QED
      BY <1>2, <1>7, <3>1, Made
  <2>2. CallTypeOK'
    BY <1>1, <1>2, <1>5, <2>1 DEF CallInv, CallTypeOK
  <2>3. ArgsHeld'
    BY <1>1, <1>2, <2>1, ArgsKept
  <2>4. ResultHeld'
    BY <1>1, <1>3, <2>1 DEF ResultHeld, Owned, Reading
  <2>5. Accounted'
    BY <1>2, <2>1 DEF Accounted
  <2> QED
    BY <1>2, <1>5, <2>2, <2>3, <2>4, <2>5 DEF CallInv
<1> QED
  BY <1>1, <1>6, <1>7

(* The error's own block is freed with its own capacity, once it is copied.  *)
LEMMA CopyIntoJsInv ==
  ASSUME CallInv, CopyIntoJs
  PROVE  CallInv'
<1>1. /\ pc = "status" /\ pc' = "return" /\ err' = Empty
      /\ UNCHANGED <<fn, args, copies, ret, failed, view>>
  BY DEF CopyIntoJs
<1>2. /\ Len(copies) = 0 /\ ret.at = 0 /\ ret.cap = 0 /\ ret.len = 0
      /\ heap \in Heaps /\ corrupt = FALSE
  BY <1>1 DEF CallInv, CallTypeOK, CopiesHeld, ResultHeld, Owned
<1>3. /\ \A b \in Blocks : heap[b].holder \notin {"copy", "returned"}
      /\ \A b \in Blocks : heap[b].holder = "error" => b = err.at
  BY <1>1, <1>2 DEF CallInv, CallTypeOK, Accounted, CopyBlocks, Reading, Blocks
<1>4. CopiesHeld'
  BY <1>1, <1>2 DEF CopiesHeld
<1>5. /\ heap' \in Heaps /\ corrupt' = FALSE
      /\ \A i \in 1..Len(args) :
           args[i].at # 0 => heap'[args[i].at].holder = "lowered"
      /\ \A b \in Blocks : heap'[b].holder \notin {"copy", "error", "returned"}
  <2>1. CASE err.at = 0
    <3>1. heap' = heap /\ corrupt' = corrupt
      BY <2>1 DEF CopyIntoJs
    <3> QED
      BY <1>2, <1>3, <2>1, <3>1 DEF CallInv, ArgsHeld, Blocks
  <2>2. CASE err.at # 0
    <3>1. PICK b \in Fresh(heap) :
            /\ heap' = Released(Allocated(heap, b, err.len, "errorCopy"), {err.at})
            /\ corrupt' = (corrupt \/ ~FreeIsSound(heap, err))
      BY <2>2 DEF CopyIntoJs
    <3> DEFINE g == Allocated(heap, b, err.len, "errorCopy")
    <3>2. err.len \in 0..MaxLen /\ "errorCopy" \in Holders
      BY DEF CallInv, CallTypeOK, Buffers, Holders
    <3>3. /\ g \in Heaps /\ b \in Blocks /\ heap[b].holder = "free"
          /\ g[b].holder = "errorCopy"
          /\ \A c \in Blocks \ {b} : g[c] = heap[c]
      BY <1>2, <3>2, Taken
    <3> HIDE DEF g
    <3>4. /\ heap' \in Heaps
          /\ \A c \in Blocks : IF c = err.at THEN heap'[c].holder = "free"
                                ELSE heap'[c] = g[c]
      <4>1. heap' = Released(g, {err.at})
        BY <3>1 DEF g
      <4> QED
        BY <3>3, <4>1, HeapReleased
    <3>5. /\ err.at \in Blocks /\ heap[err.at].holder = "error"
          /\ heap[err.at].cap = err.cap
      BY <2>2, Pointers DEF CallInv, ResultHeld, Owned
    <3>6. corrupt' = FALSE
      BY <1>2, <2>2, <3>1, <3>5 DEF FreeIsSound
    <3>7. ASSUME NEW i \in 1..Len(args), args[i].at # 0
          PROVE  heap'[args[i].at].holder = "lowered"
      <4>1. args[i].at \in Blocks /\ heap[args[i].at].holder = "lowered"
        BY <3>7, Pointers DEF CallInv, ArgsHeld
      <4>2. args[i].at # b /\ args[i].at # err.at
        BY <3>3, <3>5, <4>1
      <4>3. g[args[i].at] = heap[args[i].at]
        BY <3>3, <4>1, <4>2
      <4> QED
        BY <3>4, <4>1, <4>2, <4>3
    <3>8. ASSUME NEW c \in Blocks
          PROVE  heap'[c].holder \notin {"copy", "error", "returned"}
      BY <1>3, <3>3, <3>4
    <3> QED
      BY <3>4, <3>6, <3>7, <3>8
  <2> QED
    BY <2>1, <2>2
<1>6. CallTypeOK'
  BY <1>1, <1>5, Nothing DEF CallInv, CallTypeOK
<1>7. ArgsHeld' /\ ResultHeld' /\ Accounted'
  BY <1>1, <1>2, <1>5 DEF ArgsHeld, ResultHeld, Accounted, Owned, Reading, Empty
<1> QED
  BY <1>4, <1>5, <1>6, <1>7 DEF CallInv

(* A result is in the view with its length and its capacity.                 *)
LEMMA ReturnInv ==
  ASSUME CallInv, Return
  PROVE  CallInv'
<1>1. pc = "return" /\ UNCHANGED <<heap, corrupt>>
  BY DEF Return
<1>2. Len(copies) = 0 /\ err.at = 0
  BY <1>1 DEF CallInv, CallTypeOK, CopiesHeld, ResultHeld
<1>3. CASE Signature(fn).returns = "buffer" /\ ~failed
  <2>1. /\ view' = ToJs(ret) /\ ret' = Empty /\ pc' = "lift"
        /\ UNCHANGED <<fn, args, copies, err, failed>>
    BY <1>3 DEF Return
  <2>2. /\ view'.at = ret.at /\ view'.len = ret.len /\ OfView(view').cap = ret.cap
        /\ view' \in Views
    <3>1. ret \in Buffers /\ (ret.cap = 0 <=> ret.len = 0)
      BY DEF CallInv, CallTypeOK, ResultHeld
    <3> QED
      BY <2>1, <3>1, BoundsAssumption DEF ToJs, OfView, Views, Buffers
  <2>3. CallTypeOK'
    BY <1>1, <2>1, <2>2, Nothing DEF CallInv, CallTypeOK
  <2>4. ArgsHeld' /\ CopiesHeld'
    BY <1>1, <1>2, <2>1 DEF CallInv, ArgsHeld, CopiesHeld
  <2>5. ResultHeld'
    BY <1>1, <1>2, <1>3, <2>1, <2>2 DEF CallInv, ResultHeld, Owned, Reading, Holder,
      Empty
  <2>6. Accounted'
    BY <1>1, <1>2, <2>1, <2>2 DEF CallInv, Accounted, CopyBlocks, Reading
  <2> QED
    BY <1>1, <2>3, <2>4, <2>5, <2>6 DEF CallInv
<1>4. CASE ~(Signature(fn).returns = "buffer" /\ ~failed)
  <2>1. Ends /\ ret.at = 0
    BY <1>4 DEF Return, CallInv, ResultHeld
  <2>2. \A b \in Blocks : heap[b].holder \notin {"copy", "error", "returned"}
    BY <1>1, <1>2, <2>1 DEF CallInv, CallTypeOK, Accounted, CopyBlocks, Reading,
      Blocks
  <2> QED
    BY <1>1, <2>1, <2>2, EndsInv DEF CallInv, CallTypeOK
<1> QED
  BY <1>3, <1>4

(* The view is live while it is read; that of a completed future is left.    *)
LEMMA LiftInv ==
  ASSUME CallInv, Lift
  PROVE  CallInv'
<1>1. /\ pc = "lift" /\ heap' = heap /\ Len(copies) = 0
      /\ ret.at = 0 /\ err.at = 0
  BY DEF Lift, CallInv, CallTypeOK, CopiesHeld, ResultHeld
<1>2. corrupt' = FALSE
  <2>1. corrupt = FALSE /\ Live(heap, view.at)
    BY <1>1 DEF CallInv, CallTypeOK, ResultHeld, Owned, Reading, Holder, Live
  <2> QED
    BY <2>1 DEF Lift
<1>3. CASE fn \in DOMAIN Api
  <2>1. pc' = "finally" /\ UNCHANGED <<fn, args, copies, ret, err, failed, view>>
    BY <1>3 DEF Lift
  <2>2. CallTypeOK'
    BY <1>1, <1>2, <2>1 DEF CallInv, CallTypeOK
  <2>3. ArgsHeld' /\ CopiesHeld'
    BY <1>1, <2>1 DEF CallInv, ArgsHeld, CopiesHeld
  <2>4. ResultHeld' /\ Accounted'
    BY <1>1, <1>3, <2>1 DEF CallInv, ResultHeld, Accounted, CopyBlocks, Owned,
      Reading, Holder
  <2> QED
    BY <1>2, <2>2, <2>3, <2>4 DEF CallInv
<1>4. CASE fn \notin DOMAIN Api
  <2>1. Ends
    BY <1>4 DEF Lift
  <2>2. ASSUME NEW b \in Blocks
        PROVE  heap[b].holder \notin {"copy", "error", "returned"}
    <3>1. view.at \in Blocks => heap[view.at].holder = "completed"
      BY <1>1, <1>4 DEF CallInv, ResultHeld, Owned, Reading, Holder, Blocks
    <3> QED
      BY <1>1, <3>1 DEF CallInv, CallTypeOK, Accounted, CopyBlocks, Reading, Blocks
  <2>3. UNCHANGED corrupt
    BY <1>2 DEF CallInv, CallTypeOK
  <2> QED
    BY <1>1, <2>1, <2>2, <2>3, EndsInv DEF CallInv, CallTypeOK
<1> QED
  BY <1>3, <1>4

(* The block of a result is freed with its own capacity.                     *)
LEMMA RustbufferFreeInv ==
  ASSUME CallInv, RustbufferFree
  PROVE  CallInv'
<1>1. /\ pc = "finally" /\ Ends /\ Len(copies) = 0
      /\ ret.at = 0 /\ err.at = 0 /\ fn \in DOMAIN Api
      /\ heap \in Heaps /\ corrupt = FALSE
  BY DEF RustbufferFree, CallInv, CallTypeOK, CopiesHeld, ResultHeld
<1>2. ASSUME NEW b \in Blocks, b # view.at
      PROVE  heap[b].holder \notin {"copy", "error", "returned"}
  BY <1>1, <1>2 DEF CallInv, CallTypeOK, Accounted, CopyBlocks, Blocks
<1>3. (view.at = 0 <=> view.len = 0) /\ Owned(view.at, OfView(view).cap, "returned")
  BY <1>1 DEF CallInv, ResultHeld, Reading, Holder
<1>4. CASE view.len = 0
  <2>1. UNCHANGED <<heap, corrupt>>
    BY <1>4 DEF RustbufferFree
  <2>2. view.at \notin Blocks
    BY <1>3, <1>4 DEF Blocks
  <2> QED
    BY <1>1, <1>2, <2>1, <2>2, EndsInv
<1>5. CASE view.len # 0
  <2>1. /\ corrupt' = (corrupt \/ ~FreeIsSound(heap, OfView(view)))
        /\ heap' = Released(heap, {view.at})
    BY <1>5 DEF RustbufferFree
  <2>2. UNCHANGED corrupt
    <3>1. FreeIsSound(heap, OfView(view))
      BY <1>3, <1>5 DEF FreeIsSound, OfView, Owned
    <3> QED
      BY <1>1, <2>1, <3>1
  <2>3. /\ heap' \in Heaps
        /\ \A b \in Blocks : IF b = view.at THEN heap'[b].holder = "free"
                              ELSE heap'[b] = heap[b]
    BY <1>1, <2>1, HeapReleased
  <2> QED
    BY <1>1, <1>2, <2>2, <2>3, EndsInv
<1> QED
  BY <1>4, <1>5

-----------------------------------------------------------------------------
(* The bindings free exactly what they take over, for every length, capacity *)
(* and outcome: the invariant is preserved by each step of a call.           *)
THEOREM CallStepInv == CallInv /\ CallStep => CallInv'
  BY LowerArgInv, LowerThrowsInv, FromJsInv, RustReturnsInv, RustFailsInv,
    CopyIntoJsInv, ReturnInv, LiftInv, RustbufferFreeInv DEF CallStep

(* Nothing outside callVars matters to it.                                   *)
LEMMA CallStutters == CallInv /\ UNCHANGED callVars => CallInv'
  BY DEF CallInv, CallTypeOK, ArgsHeld, CopiesHeld, ResultHeld, Accounted, callVars,
    Owned, Reading, Holder, CopyBlocks

(* What it says between two calls.                                           *)
LEMMA CallInvSafe ==
  ASSUME CallInv
  PROVE  CallTypeOK /\ HeapIntact /\ NothingHeldBetweenCalls
<1>1. ASSUME NEW b \in Blocks, pc = "idle"
      PROVE  heap[b].holder \in {"free", "lowered", "errorCopy", "completed"}
  <2>1. Len(copies) = 0 /\ ret.at = 0 /\ err.at = 0 /\ heap[b].holder \in Holders
    BY <1>1 DEF CallInv, CallTypeOK, CopiesHeld, ResultHeld, Heaps
  <2> QED
    BY <1>1, <2>1 DEF CallInv, CallTypeOK, Accounted, CopyBlocks, Reading, Blocks,
      Holders
<1> QED
  BY <1>1 DEF CallInv, HeapIntact, NothingHeldBetweenCalls
=============================================================================
