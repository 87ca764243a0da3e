---------------------------- MODULE RustBuffers -----------------------------
(* The memory that JavaScript and Rust hand to each other through the JSI    *)
(* bindings: blocks of the native heap, the RustBuffers that own them and    *)
(* the Uint8Array views that alias them.  Only lengths and capacities are    *)
(* kept.  Block 0 is no block: an empty buffer, or bytes JavaScript owns.    *)
EXTENDS Naturals, FiniteSets

CONSTANTS
  MaxBlocks,   \* bound: blocks of the heap
  MaxLen,      \* bound: bytes of a buffer
  MaxArg       \* bound: bytes of a lowered argument

ASSUME BoundsAssumption == /\ MaxBlocks \in Nat /\ MaxLen \in Nat
                           /\ MaxArg \in 0..MaxLen

Blocks  == 1..MaxBlocks
Holders == {"free", "lowered", "copy", "returned", "completed", "error",
            "errorCopy"}
Heaps   == [Blocks -> [cap : 0..MaxLen, holder : Holders]]
Buffers == [at : 0..MaxBlocks, len : 0..MaxLen, cap : 0..MaxLen]
Views   == [at : 0..MaxBlocks, len : 0..MaxLen, hint : 0..MaxLen]

Unused == [cap |-> 0, holder |-> "free"]
Empty  == [at |-> 0, len |-> 0, cap |-> 0]
NoView == [at |-> 0, len |-> 0, hint |-> 0]

(* The allocator gives any unused block; which one makes no difference.      *)
Fresh(h) == {b \in Blocks : /\ h[b].holder = "free"
                            /\ \A c \in 1..(b - 1) : h[c].holder # "free"}

Live(h, at) == at = 0 \/ h[at].holder # "free"

Allocated(h, b, n, who) == [h EXCEPT ![b] = [cap |-> n, holder |-> who]]

Released(h, S) == [b \in Blocks |-> IF b \in S THEN Unused ELSE h[b]]

(* Rust rebuilds the Vec from pointer and capacity, which have to be those   *)
(* of a block that is allocated.                                             *)
FreeIsSound(h, buf) == IF buf.at = 0 THEN buf.cap = 0
                       ELSE h[buf.at].holder # "free" /\ h[buf.at].cap = buf.cap

(* Mutant: the noted capacity counts the length once more.                   *)
ToJsTooMuch(buf) == [at |-> buf.at, len |-> buf.len,
                     hint |-> IF buf.cap # buf.len THEN buf.cap + buf.len ELSE 0]

(* Bridging<RustBuffer>::toJs: a view of len bytes, with the capacity noted  *)
(* on it when that differs.                                                  *)
ToJs(buf) == [at |-> buf.at, len |-> buf.len,
              hint |-> IF buf.cap # buf.len THEN buf.cap ELSE 0]

(* Mutant: the view's length is taken for the capacity.                      *)
LengthAsCapacity(v) == [at |-> v.at, len |-> 0, cap |-> v.len]

(* The RustBuffer that rustbuffer_free hands back for a view.                *)
OfView(v) == [at |-> v.at, len |-> 0,
              cap |-> IF v.hint # 0 THEN v.hint ELSE v.len]
=============================================================================
