------------------------------ MODULE DialTarget ------------------------------
(* Where a dial goes: the arguments of connect(), connectTarget() and        *)
(* startTcpForwarder() are checked by index.js, cross the binding, and are   *)
(* checked again and resolved to an endpoint address by lib.rs.  An          *)
(* application makes one call here, any of the set Calls.                    *)
(*                                                                           *)
(* A JavaScript value is a record that says what it is: absent (undefined or *)
(* null), wrong (of another type), blank, junk (no parser accepts it) or the *)
(* thing it spells.  White space matters in two places: in front of an id's  *)
(* scheme, where lib.rs does not trim it away, and around a target's kind,   *)
(* where index.js does not.  Prefixes such as ip: and iroh+ticket: are part  *)
(* of a spelling and are left out; so is the alpn, which both sides want not *)
(* blank.  White space is what both languages trim: U+0085 (trimmed by Rust  *)
(* alone) and U+FEFF (by JavaScript alone) are not in the model.             *)
EXTENDS Naturals

CONSTANTS
  Ids,              \* endpoint ids
  Sockets, Relays,  \* direct socket addresses, relay URLs
  Width,            \* 2^32: timeouts cross the binding as u32
  DEFAULT_CONNECT_TIMEOUT_MS,
  HalfMs            \* bound: timeoutMs values tried, in halves of a millisecond

ASSUME DialAssumption == /\ Width \in Nat \ {0} /\ HalfMs \subseteq Nat
                         /\ DEFAULT_CONNECT_TIMEOUT_MS \in Nat \ {0}

Absent == [is |-> "absent"]
Wrong  == [is |-> "wrong"]
Blank  == [is |-> "blank"]
Junk   == [is |-> "junk"]
NoText == {Absent, Wrong, Blank}

\* A text that begins as a ticket does but is none, a relay name without a URL.
BadTicket   == [is |-> "badTicket"]
DisplayOnly == [is |-> "iroh+relay"]

Address == Sockets \cup Relays
Node    == [is : {"id"}, id : Ids, padded : BOOLEAN]  \* padded: " iroh://..."
Addr    == [is : {"addr"}, addr : Address]
Ticket  == [is : {"ticket"}, id : Ids, addrs : SUBSET Address]
List(S) == [is : {"list"}, items : SUBSET S]

(* The legacy JSON ticket: an optional id and address texts.                 *)
Json == [is : {"json"}, id : {Absent, Junk} \cup Node, addrs : SUBSET (Addr \cup {Junk})]

NodeValue == {Absent, Wrong, Blank, Junk} \cup Node
HintValue == {Absent, Wrong, Blank, Junk, BadTicket, DisplayOnly} \cup Addr \cup Ticket \cup Json
Timeout   == {Absent, Wrong} \cup [is : {"halves"}, n : HalfMs]

(* The kinds of a target as the application may write them; none is connect. *)
PaddedKinds == {" endpoint-ticket ", " endpoint-address "}

(* Calls of connect(), and of connectTarget() with either kind of target.    *)
LegacyCalls == [kind : {"none"}, nodeId : NodeValue, hint : HintValue, ticket : {Absent},
                direct : {Absent}, relay : {Absent}, timeout : Timeout]
TicketCalls == [kind : {"endpoint-ticket", " endpoint-ticket ", "other"},
                nodeId : {Absent, Blank} \cup Node,
                ticket : {Absent, Wrong, Blank, BadTicket} \cup Ticket,
                direct : {Absent} \cup List(Addr), relay : {Absent} \cup Addr,
                hint : {Absent}, timeout : Timeout]
AddressCalls == [kind : {"endpoint-address", " endpoint-address "},
                 nodeId : NodeValue, ticket : {Absent, BadTicket},
                 direct : {Absent, Wrong} \cup List({Blank, Junk} \cup Addr),
                 relay : {Absent, Wrong, Blank, Junk} \cup Addr,
                 hint : {Absent}, timeout : Timeout]
Calls == LegacyCalls \cup TicketCalls \cup AddressCalls

VARIABLES
  call,     \* the options the application passes
  stage,    \* "js", "rust", "dial" or "failed"
  passed,   \* what crosses the binding
  result,   \* what became of it: an error code, or the endpoint address
  timeout   \* connect timeout used, in ms

vars == <<call, stage, passed, result, timeout>>

Err(c) == [code |-> c]
Ok(i, as) == [code |-> "ok", id |-> i, addrs |-> as]

-----------------------------------------------------------------------------
(* index.js.  Every refusal is a TypeError, so the order of the checks does  *)
(* not show.                                                                 *)

Text(v) == v \notin NoText
Trim(v) == IF v.is = "id" THEN [v EXCEPT !.padded = FALSE] ELSE v

TimeoutAccepted(h) == h = Absent \/ (h.is = "halves" /\ h.n > 0)

LegacyAccepted(o) == Text(o.nodeId) /\ o.hint # Wrong

TicketAccepted(o) ==
  Text(o.ticket) /\ o.nodeId = Absent /\ o.direct = Absent /\ o.relay = Absent

(* Mutant: a target needs no address.                                        *)
AddressAcceptedBare(o) ==
  /\ o.ticket = Absent /\ Text(o.nodeId)
  /\ o.direct = Absent \/ (o.direct.is = "list" /\ \A t \in o.direct.items : Text(t))
  /\ o.relay = Absent \/ Text(o.relay)

AddressAccepted(o) ==
  /\ o.ticket = Absent /\ Text(o.nodeId)
  /\ o.direct = Absent \/ (o.direct.is = "list" /\ \A t \in o.direct.items : Text(t))
  /\ o.relay = Absent \/ Text(o.relay)
  /\ o.relay # Absent \/ (o.direct # Absent /\ o.direct.items # {})

ShapeAccepted(o) ==
  \/ o.kind = "none" /\ LegacyAccepted(o)
  \/ o.kind = "endpoint-ticket" /\ TicketAccepted(o)
  \/ o.kind = "endpoint-address" /\ AddressAccepted(o)

Accepted(o) == ShapeAccepted(o) /\ TimeoutAccepted(o.timeout)

(* Math.floor.                                                               *)
Floor(h) == IF h = Absent THEN Absent ELSE [is |-> "ms", n |-> h.n \div 2]

(* addressHint || undefined; nothing is trimmed.                             *)
LegacyPassed(o) ==
  [o EXCEPT !.hint = IF o.hint = Blank THEN Absent ELSE o.hint, !.timeout = Floor(o.timeout)]

(* Texts are trimmed, and an empty list of addresses is left out.            *)
TargetPassed(o) ==
  [o EXCEPT !.nodeId = Trim(o.nodeId), !.timeout = Floor(o.timeout),
            !.direct = IF o.direct # Absent /\ o.direct.items = {} THEN Absent ELSE o.direct]

Normalize ==
  /\ stage = "js" /\ Accepted(call)
  /\ stage' = "rust"
  /\ passed' = IF call.kind = "none" THEN LegacyPassed(call) ELSE TargetPassed(call)
  /\ UNCHANGED <<call, result, timeout>>

Refuse ==
  /\ stage = "js" /\ ~Accepted(call)
  /\ stage' = "failed" /\ result' = Err("TypeError")
  /\ UNCHANGED <<call, passed, timeout>>

-----------------------------------------------------------------------------
(* lib.rs.  The first check that fails decides the code.                     *)

(* parse_endpoint_id strips a scheme before it trims.                        *)
NodeParses(v) == v.is = "id" /\ ~v.padded

(* Mutant: malformed addresses are skipped.                                  *)
ParseAddressesLenient(texts, S, i) ==
  LET as == {t.addr : t \in {u \in texts : u.is = "addr" /\ u.addr \in S}}
  IN  IF as = {} THEN Err("INVALID_ADDRESS") ELSE Ok(i, as)

(* There must be an address, and every text must be one of S.                *)
ParseAddresses(texts, S, i) ==
  IF texts = {} \/ \E t \in texts : ~(t.is = "addr" /\ t.addr \in S)
  THEN Err("INVALID_ADDRESS") ELSE Ok(i, {t.addr : t \in texts})

FromTicket(t) ==
  IF t.is # "ticket" \/ t.addrs = {} THEN Err("INVALID_TICKET") ELSE Ok(t.id, t.addrs)

(* Mutant: the id in the JSON ticket is believed.                            *)
FromJsonBelieved(t, i) ==
  IF t.id = Absent THEN ParseAddresses(t.addrs, Address, i)
  ELSE IF ~NodeParses(t.id) THEN Err("INVALID_NODE_ID")
  ELSE ParseAddresses(t.addrs, Address, t.id.id)

FromJson(t, i) ==
  IF t.id # Absent /\ ~NodeParses(t.id) THEN Err("INVALID_NODE_ID")
  ELSE IF t.id # Absent /\ t.id.id # i THEN Err("INVALID_TICKET")
  ELSE ParseAddresses(t.addrs, Address, i)

(* endpoint_addr_from_hint, for the endpoint i.                              *)
FromHint(h, i) ==
  IF h \in {Absent, Blank, DisplayOnly} THEN Err("OPERATION_FAILED")
  ELSE IF h.is = "json" THEN FromJson(h, i)
  ELSE IF h.is \notin {"badTicket", "ticket"} THEN ParseAddresses({h}, Address, i)
  ELSE IF FromTicket(h).code = "ok" /\ h.id # i THEN Err("INVALID_TICKET")
  ELSE FromTicket(h)

LegacyTarget(o) ==
  IF NodeParses(o.nodeId) THEN FromHint(o.hint, o.nodeId.id) ELSE Err("INVALID_NODE_ID")

TicketTarget(o) ==
  IF \/ o.nodeId # Absent \/ o.direct # Absent \/ o.relay # Absent
     \/ o.ticket \in {Absent, Blank}
  THEN Err("INVALID_DIAL_TARGET") ELSE FromTicket(o.ticket)

Items(list) == IF list = Absent THEN {} ELSE list.items

(* Direct addresses and the relay URL have a parser each.                    *)
AddressTarget(o) ==
  LET texts == Items(o.direct) \cup ({o.relay} \ {Absent})
      direct == ParseAddresses(Items(o.direct), Sockets, Trim(o.nodeId).id)
      relay == ParseAddresses({o.relay}, Relays, Trim(o.nodeId).id)
  IN  IF o.ticket # Absent \/ o.nodeId \in {Absent, Blank}
      THEN Err("INVALID_DIAL_TARGET")
      ELSE IF ~NodeParses(Trim(o.nodeId)) THEN Err("INVALID_NODE_ID")
      ELSE IF texts = {} THEN Err("INVALID_DIAL_TARGET")
      ELSE IF Items(o.direct) # {} /\ direct.code # "ok" THEN direct
      ELSE IF o.relay # Absent /\ relay.code # "ok" THEN relay
      ELSE ParseAddresses(texts, Address, Trim(o.nodeId).id)

(* target_kind.trim(): index.js compares the kind as it is written.          *)
TrimKind(k) == CASE k = " endpoint-ticket "  -> "endpoint-ticket"
                 [] k = " endpoint-address " -> "endpoint-address"
                 [] OTHER                    -> k

(* connect() is the first branch, connect_target() the others; the           *)
(* forwarder's resolve_target has them all.                                  *)
ResolveTarget(o) ==
  IF o.kind = "none" THEN LegacyTarget(o)
  ELSE IF TrimKind(o.kind) = "endpoint-ticket" THEN TicketTarget(o)
  ELSE IF TrimKind(o.kind) = "endpoint-address" THEN AddressTarget(o)
  ELSE Err("INVALID_DIAL_TARGET")

(* The binding writes a number as a u32.                                     *)
Lower(t) == IF t = Absent THEN Absent ELSE [t EXCEPT !.n = t.n % Width]

(* Mutant: no timeout is longer than the default.                            *)
ConnectTimeoutCapped(t) ==
  IF t = Absent \/ t.n = 0 \/ t.n > DEFAULT_CONNECT_TIMEOUT_MS
  THEN DEFAULT_CONNECT_TIMEOUT_MS ELSE t.n

ConnectTimeout(t) == IF t = Absent \/ t.n = 0 THEN DEFAULT_CONNECT_TIMEOUT_MS ELSE t.n

Resolve ==
  /\ stage = "rust"
  /\ result' = ResolveTarget(passed)
  /\ IF result'.code = "ok"
     THEN stage' = "dial" /\ timeout' = ConnectTimeout(Lower(passed.timeout))
     ELSE stage' = "failed" /\ UNCHANGED timeout
  /\ UNCHANGED <<call, passed>>

-----------------------------------------------------------------------------
Init ==
  /\ call \in Calls
  /\ stage = "js" /\ passed = Absent /\ result = Err("none") /\ timeout = 0

Next == Normalize \/ Refuse \/ Resolve

Spec == Init /\ [][Next]_vars

(* The endpoint the application named: in the ticket of a ticket target, by  *)
(* nodeId otherwise.                                                         *)
Named(c) == IF c.kind = "endpoint-ticket" THEN c.ticket.id ELSE c.nodeId.id

(* A dial goes to the endpoint the application named, whatever id a ticket   *)
(* in the address hint carries (docs/ARCHITECTURE.md:97).                    *)
IdentityKept == stage = "dial" => result.id = Named(call)

(* The addresses the application wrote down, as texts, and those of tickets. *)
Written(c) ==
  LET hint == CASE c.hint = Absent     -> {}
                [] c.hint.is = "json"   -> c.hint.addrs
                [] c.hint.is = "ticket" -> {}
                [] OTHER               -> {c.hint}
  IN  hint \cup Items(c.direct) \cup ({c.relay} \ {Absent})
Carried(c) ==
  (IF c.hint.is = "ticket" THEN c.hint.addrs ELSE {})
    \cup (IF c.ticket.is = "ticket" THEN c.ticket.addrs ELSE {})

(* A dial is given every address of the call and no other, and at least one: *)
(* one malformed text fails the call and is not dropped on the way           *)
(* (react-native/README.md:337 and 361).                                     *)
AddressesKept ==
  stage = "dial" =>
    /\ result.addrs # {}
    /\ Written(call) \cup [is : {"addr"}, addr : Carried(call)]
         = [is : {"addr"}, addr : result.addrs]

Typed(c) == Wrong \notin {c.nodeId, c.hint, c.ticket, c.direct, c.relay}

(* A call of connect() that names no address: the hint is optional for       *)
(* index.js and required by lib.rs (react-native/README.md:342).             *)
NoAddress(c) == c.kind = "none" /\ c.hint \in {Absent, Blank, DisplayOnly}

(* index.js and lib.rs judge a call differently in two cases and no other.   *)
(* A connect() without an address passes index.js and is refused by lib.rs:  *)
(* exactly then does an accepted call with a readable node id end in         *)
(* OPERATION_FAILED, and no target that index.js lets through is refused for *)
(* its shape.  And a call that lib.rs would resolve as the application wrote *)
(* it fails exactly if white space around a target's kind, which lib.rs      *)
(* ignores, makes index.js refuse it: no other rule of index.js, and nothing *)
(* it rewrites, costs a valid call.                                          *)
KnownDifferences ==
  /\ result.code # "INVALID_DIAL_TARGET"
  /\ stage = "failed" /\ Accepted(call) =>
       (result.code = "OPERATION_FAILED" <=> NoAddress(call) /\ NodeParses(call.nodeId))
  /\ /\ stage \in {"dial", "failed"} /\ Typed(call) /\ TimeoutAccepted(call.timeout)
     /\ ResolveTarget(call).code = "ok"
     => (stage = "failed" <=> call.kind \in PaddedKinds)

(* A whole number of milliseconds that fits the binding is used as it is,    *)
(* a part of a millisecond beyond the first is cut off, and no timeout means *)
(* the default.  Below one millisecond the default is used, see README.md.   *)
TimeoutHonoured ==
  stage = "dial" =>
    /\ call.timeout = Absent => timeout = DEFAULT_CONNECT_TIMEOUT_MS
    /\ call.timeout # Absent /\ call.timeout.n \in 2..(2 * Width - 1) =>
         2 * timeout \in {call.timeout.n, call.timeout.n - 1}
=============================================================================
