--------------------------- MODULE DialTargetProofs ---------------------------
(* A dial goes to the endpoint the application named, with the addresses it  *)
(* gave and the timeout it asked for, and the two languages judge a call     *)
(* differently in two known cases only, for every set of ids and addresses.  *)
(* The arguments: each parser that succeeds returns the id it was given or,  *)
(* for a ticket target, the ticket's, and leaves no usable address out; and  *)
(* what crosses the binding is what the call said.                           *)
EXTENDS DialTarget, TLAPS

(* The kinds as lib.rs reads them.                                           *)
LEMMA KindsTrimmed ==
  /\ TrimKind("endpoint-ticket") = "endpoint-ticket"
  /\ TrimKind(" endpoint-ticket ") = "endpoint-ticket"
  /\ TrimKind("endpoint-address") = "endpoint-address"
  /\ TrimKind(" endpoint-address ") = "endpoint-address"
  /\ TrimKind("other") = "other"
BY DEF TrimKind

(* The target of a kind is resolved by that kind's rules.                    *)
LEMMA ByKind ==
  ASSUME NEW o
  PROVE  /\ o.kind = "none" => ResolveTarget(o) = LegacyTarget(o)
         /\ o.kind \in {"endpoint-ticket", " endpoint-ticket "} =>
              ResolveTarget(o) = TicketTarget(o)
         /\ o.kind \in {"endpoint-address", " endpoint-address "} =>
              ResolveTarget(o) = AddressTarget(o)
         /\ o.kind = "other" => ResolveTarget(o) = Err("INVALID_DIAL_TARGET")
BY KindsTrimmed DEF ResolveTarget

(* Parsing texts attaches the addresses to the id it is given.               *)
LEMMA ParsedFor ==
  ASSUME NEW texts, NEW S, NEW i, ParseAddresses(texts, S, i).code = "ok"
  PROVE  ParseAddresses(texts, S, i).id = i
BY DEF ParseAddresses, Err, Ok

(* A hint is resolved for the endpoint asked for or not at all.              *)
LEMMA HintFor ==
  ASSUME NEW h \in HintValue, NEW i, FromHint(h, i).code = "ok"
  PROVE  FromHint(h, i).id = i
<1>1. CASE h \in {Absent, Blank, DisplayOnly}
  BY <1>1 DEF FromHint, Err
<1>2. CASE h \notin {Absent, Blank, DisplayOnly} /\ h.is = "json"
  <2>1. FromHint(h, i) = FromJson(h, i)
    BY <1>2 DEF FromHint
  <2>2. FromJson(h, i) = ParseAddresses(h.addrs, Address, i)
    BY <2>1 DEF FromJson, Err
  <2> QED BY <2>1, <2>2, ParsedFor
<1>3. CASE h \notin {Absent, Blank, DisplayOnly} /\ h.is \in {"badTicket", "ticket"}
  BY <1>3 DEF FromHint, FromTicket, Err, Ok
<1>4. CASE h \notin {Absent, Blank, DisplayOnly} /\ h.is \notin {"json", "badTicket", "ticket"}
  BY <1>4, ParsedFor DEF FromHint
<1> QED BY <1>1, <1>2, <1>3, <1>4

(* What crosses the binding for the call c.                                  *)
Crosses(c) == IF c.kind = "none" THEN LegacyPassed(c) ELSE TargetPassed(c)

(* A call that is resolved is resolved for the endpoint it names.            *)
LEMMA ResolvedForNamed ==
  ASSUME NEW c \in Calls, Accepted(c), ResolveTarget(Crosses(c)).code = "ok"
  PROVE  ResolveTarget(Crosses(c)).id = Named(c)
<1> DEFINE o == Crosses(c)
<1>1. CASE c \in LegacyCalls
  <2>1. o.kind = "none" /\ o.nodeId = c.nodeId /\ o.hint \in HintValue /\ c.kind = "none"
    BY <1>1 DEF Crosses, LegacyPassed, LegacyCalls, HintValue
  <2>2. ResolveTarget(o) = LegacyTarget(o)
    BY <2>1, ByKind
  <2>3. LegacyTarget(o) = FromHint(o.hint, o.nodeId.id)
    BY <2>2 DEF LegacyTarget, Err
  <2> QED BY <2>1, <2>2, <2>3, HintFor DEF Named
<1>2. CASE c \in TicketCalls
  <2>1. o.kind = c.kind /\ o.ticket = c.ticket
    BY <1>2 DEF Crosses, TargetPassed, TicketCalls
  <2>2. c.kind = "endpoint-ticket"
    BY <1>2 DEF Accepted, ShapeAccepted, TicketCalls
  <2>3. ResolveTarget(o) = TicketTarget(o)
    BY <2>1, <2>2, ByKind
  <2>4. TicketTarget(o) = FromTicket(o.ticket)
    BY <2>3 DEF TicketTarget, Err
  <2>5. FromTicket(o.ticket).id = o.ticket.id
    BY <2>3, <2>4 DEF FromTicket, Err, Ok
  <2> QED BY <2>1, <2>2, <2>3, <2>4, <2>5 DEF Named
<1>3. CASE c \in AddressCalls
  <2>1. /\ o.kind = c.kind /\ c.kind = "endpoint-address"
        /\ o.nodeId = Trim(c.nodeId) /\ c.nodeId \in NodeValue
    BY <1>3 DEF Crosses, TargetPassed, AddressCalls, Accepted, ShapeAccepted
  <2>2. ResolveTarget(o) = AddressTarget(o) /\ AddressTarget(o).code = "ok"
    BY <2>1, ByKind
  <2>3. NodeParses(Trim(o.nodeId))
    BY <2>2 DEF AddressTarget, Err
  <2>4. AddressTarget(o).id = Trim(o.nodeId).id
    <3> HIDE DEF o
    <3> DEFINE texts == Items(o.direct) \cup ({o.relay} \ {Absent})
    <3>1. AddressTarget(o) = ParseAddresses(texts, Address, Trim(o.nodeId).id)
      BY <2>2, <2>3 DEF AddressTarget, Err
    <3> QED BY <2>2, <3>1, ParsedFor
  <2>5. Trim(Trim(c.nodeId)).id = c.nodeId.id
    BY <2>1, <2>3 DEF NodeParses, Trim, NodeValue, Node, Absent, Wrong, Blank, Junk
  <2> QED BY <2>1, <2>2, <2>4, <2>5 DEF Named
<1> QED BY <1>1, <1>2, <1>3 DEF Calls

(* The invariant: the call stays as it was made, and what has crossed the    *)
(* binding is what index.js makes of it.                                     *)
IdentityInv ==
  /\ call \in Calls
  /\ stage = "rust" => passed = Crosses(call) /\ Accepted(call)
  /\ IdentityKept

(* IdentityKept holds in every state: no ticket or hint redirects a dial to  *)
(* another endpoint than the one the application named.                      *)
THEOREM IdentityAlwaysKept == Spec => []IdentityKept
<1>1. Init => IdentityInv
  BY DEF Init, IdentityInv, IdentityKept
<1>2. IdentityInv /\ [Next]_vars => IdentityInv'
  <2> SUFFICES ASSUME IdentityInv, [Next]_vars PROVE IdentityInv'
    OBVIOUS
  <2>1. CASE Normalize
    BY <2>1 DEF Normalize, IdentityInv, IdentityKept, Crosses
  <2>2. CASE Refuse
    BY <2>2 DEF Refuse, IdentityInv, IdentityKept
  <2>3. CASE Resolve
    <3>1. /\ result' = ResolveTarget(Crosses(call)) /\ Accepted(call)
          /\ call' = call /\ stage' \in {"dial", "failed"}
      BY <2>3 DEF Resolve, IdentityInv
    <3>2. stage' = "dial" => result'.code = "ok"
      BY <2>3 DEF Resolve
    <3>3. IdentityKept'
      BY <3>1, <3>2, ResolvedForNamed DEF IdentityKept, IdentityInv
    <3> QED BY <3>1, <3>3 DEF IdentityInv
  <2>4. CASE UNCHANGED vars
    BY <2>4 DEF vars, IdentityInv, IdentityKept
  <2> QED BY <2>1, <2>2, <2>3, <2>4 DEF Next
<1> QED BY <1>1, <1>2, PTL DEF Spec, IdentityInv

-----------------------------------------------------------------------------
(* The connect timeout.                                                      *)

(* What lib.rs is given for a timeout that the binding can carry.            *)
LEMMA TimeoutCarried ==
  ASSUME NEW h \in Timeout, TimeoutAccepted(h)
  PROVE  LET t == ConnectTimeout(Lower(Floor(h)))
         IN  /\ h = Absent => t = DEFAULT_CONNECT_TIMEOUT_MS
             /\ h # Absent /\ h.n \in 2..(2 * Width - 1) => 2 * t \in {h.n, h.n - 1}
<1>1. CASE h = Absent
  BY <1>1 DEF ConnectTimeout, Lower, Floor
<1>2. CASE h # Absent
  <2>1. h.is = "halves" /\ h.n \in Nat
    <3>1. h.is = "halves" /\ h # Wrong
      BY <1>2 DEF TimeoutAccepted, Wrong
    <3>2. h \in [is : {"halves"}, n : HalfMs]
      BY <1>2, <3>1 DEF Timeout
    <3> QED
      BY <3>1, <3>2, DialAssumption
  <2> SUFFICES ASSUME h.n \in 2..(2 * Width - 1)
               PROVE  2 * ConnectTimeout(Lower(Floor(h))) \in {h.n, h.n - 1}
    BY <1>2
  <2> DEFINE ms == h.n \div 2
  <2>2. ms \in Nat /\ ms # 0 /\ ms < Width /\ 2 * ms \in {h.n, h.n - 1}
    BY <2>1, DialAssumption
  <2> HIDE DEF ms
  <2>3. ms % Width = ms
    BY <2>2, DialAssumption
  <2>4. Lower([is |-> "ms", n |-> ms]) = [is |-> "ms", n |-> ms]
    BY <2>3 DEF Lower, Absent
  <2>5. ConnectTimeout([is |-> "ms", n |-> ms]) = ms
    BY <2>2 DEF ConnectTimeout, Absent
  <2>6. Floor(h) = [is |-> "ms", n |-> ms]
    BY <1>2 DEF Floor, ms
  <2> QED
    BY <2>2, <2>4, <2>5, <2>6
<1> QED
  BY <1>1, <1>2

-----------------------------------------------------------------------------
(* The addresses.                                                            *)

(* Texts that are parsed are all addresses, and none is dropped.             *)
LEMMA ParsedAll ==
  ASSUME NEW texts, NEW S, NEW i, ParseAddresses(texts, S, i).code = "ok"
  PROVE  /\ texts # {} /\ \A t \in texts : t.is = "addr" /\ t.addr \in S
         /\ ParseAddresses(texts, S, i).addrs = {t.addr : t \in texts}
BY DEF ParseAddresses, Err, Ok

(* A parser of texts fails with one code only.                               *)
LEMMA ParsedCode ==
  ASSUME NEW texts, NEW S, NEW i
  PROVE  ParseAddresses(texts, S, i).code \in {"ok", "INVALID_ADDRESS"}
BY DEF ParseAddresses, Err, Ok

(* Address texts are told apart by their addresses.                          *)
LEMMA AddrTexts ==
  ASSUME NEW texts \in SUBSET Addr
  PROVE  texts = [is : {"addr"}, addr : {t.addr : t \in texts}]
<1> DEFINE R == [is : {"addr"}, addr : {t.addr : t \in texts}]
<1>1. ASSUME NEW t \in texts PROVE t \in R
  BY DEF Addr
<1>2. ASSUME NEW r \in R PROVE r \in texts
  <2>1. PICK t \in texts : t.addr = r.addr
    OBVIOUS
  <2>2. t = r
    BY <2>1 DEF Addr
  <2> QED
    BY <2>2
<1> QED
  BY <1>1, <1>2

Texts(o) == Items(o.direct) \cup ({o.relay} \ {Absent})

(* What lib.rs asks of an endpoint-address target that it resolves.          *)
LEMMA AddressResolved ==
  ASSUME NEW o, AddressTarget(o).code = "ok"
  PROVE  /\ o.ticket = Absent /\ o.nodeId \notin {Absent, Blank} /\ Texts(o) # {}
         /\ Items(o.direct) # {} =>
              ParseAddresses(Items(o.direct), Sockets, Trim(o.nodeId).id).code = "ok"
         /\ o.relay # Absent =>
              ParseAddresses({o.relay}, Relays, Trim(o.nodeId).id).code = "ok"
         /\ AddressTarget(o) = ParseAddresses(Texts(o), Address, Trim(o.nodeId).id)
BY DEF AddressTarget, Err, Texts

(* The hint of connect(): what a dial is given is what was written in it or  *)
(* what its ticket carries.                                                  *)
LEMMA HintAddresses ==
  ASSUME NEW c \in LegacyCalls, c.hint # Wrong, NEW i, FromHint(c.hint, i).code = "ok"
  PROVE  LET as == FromHint(c.hint, i).addrs
         IN  /\ as # {}
             /\ Written(c) \cup [is : {"addr"}, addr : Carried(c)]
                  = [is : {"addr"}, addr : as]
<1> DEFINE h == c.hint
           as == FromHint(h, i).addrs
<1>1. h \in HintValue /\ c.ticket = Absent /\ c.direct = Absent /\ c.relay = Absent
  BY DEF LegacyCalls
<1>2. h \notin {Absent, Blank, DisplayOnly, Wrong}
  BY DEF FromHint, Err
<1>3. Items(c.direct) = {} /\ {c.relay} \ {Absent} = {} /\ c.ticket.is # "ticket"
  BY <1>1 DEF Items, Absent
<1>4. [is : {"addr"}, addr : {}] = {}
  OBVIOUS
<1>5. CASE h.is = "json"
  <2>1. FromHint(h, i) = FromJson(h, i)
    BY <1>2, <1>5 DEF FromHint
  <2>2. FromJson(h, i) = ParseAddresses(h.addrs, Address, i)
    BY <2>1 DEF FromJson, Err
  <2>3. /\ h.addrs # {} /\ \A t \in h.addrs : t.is = "addr"
        /\ as = {t.addr : t \in h.addrs}
    BY <2>1, <2>2, ParsedAll
  <2>4. h.addrs \subseteq Addr
    <3>1. h \in Json
      BY <1>1, <1>2, <1>5 DEF HintValue, Junk, BadTicket, Addr, Ticket
    <3>2. h.addrs \subseteq Addr \cup {Junk}
      BY <3>1 DEF Json
    <3> QED
      BY <2>3, <3>2 DEF Junk
  <2>5. Written(c) = h.addrs
    BY <1>2, <1>3, <1>5 DEF Written
  <2>6. Carried(c) = {}
    BY <1>3, <1>5 DEF Carried
  <2>7. h.addrs = [is : {"addr"}, addr : as]
    BY <2>3, <2>4, AddrTexts
  <2>8. [is : {"addr"}, addr : Carried(c)] = {}
    BY <1>4, <2>6
  <2>9. as # {}
    BY <2>3
  <2> QED
    BY <2>5, <2>7, <2>8, <2>9
<1>6. CASE h.is \in {"badTicket", "ticket"}
  <2>1. FromHint(h, i) = FromTicket(h) /\ FromTicket(h).code = "ok"
    BY <1>2, <1>6 DEF FromHint, Err
  <2>2. h.is = "ticket" /\ h.addrs # {} /\ as = h.addrs
    BY <2>1 DEF FromTicket, Err, Ok
  <2>3. Written(c) = {} /\ Carried(c) = h.addrs
    BY <1>2, <1>3, <2>2 DEF Written, Carried
  <2> QED
    BY <2>2, <2>3
<1>7. CASE h.is \notin {"json", "badTicket", "ticket"}
  <2>1. FromHint(h, i) = ParseAddresses({h}, Address, i)
    BY <1>2, <1>7 DEF FromHint
  <2>2. h.is = "addr" /\ as = {h.addr}
    BY <2>1, ParsedAll
  <2>3. h \in Addr
    BY <1>1, <1>2, <2>2 DEF HintValue, Junk, BadTicket, Ticket, Json
  <2>4. Written(c) = {h} /\ Carried(c) = {}
    BY <1>2, <1>3, <1>7 DEF Written, Carried
  <2>5. {t.addr : t \in {h}} = as
    BY <2>2
  <2>6. {h} = [is : {"addr"}, addr : as]
    <3> HIDE DEF h, as
    <3>1. {h} \in SUBSET Addr
      BY <2>3
    <3> DEFINE texts == {h}
    <3> HIDE DEF texts
    <3>2. texts = [is : {"addr"}, addr : {t.addr : t \in texts}]
      BY <3>1, AddrTexts DEF texts
    <3> QED
      BY <2>5, <3>2 DEF texts
  <2>7. [is : {"addr"}, addr : Carried(c)] = {}
    BY <1>4, <2>4
  <2> QED
    BY <2>2, <2>4, <2>6, <2>7
<1> QED
  BY <1>5, <1>6, <1>7

(* A call that is resolved is given the addresses it was made with.          *)
LEMMA ResolvedWithAll ==
  ASSUME NEW c \in Calls, Accepted(c), ResolveTarget(Crosses(c)).code = "ok"
  PROVE  LET as == ResolveTarget(Crosses(c)).addrs
         IN  /\ as # {}
             /\ Written(c) \cup [is : {"addr"}, addr : Carried(c)]
                  = [is : {"addr"}, addr : as]
<1> DEFINE o == Crosses(c)
<1>0. [is : {"addr"}, addr : {}] = {}
  OBVIOUS
<1>1. CASE c \in LegacyCalls
  <2>1. /\ c.kind = "none" /\ o.kind = "none" /\ o.nodeId = c.nodeId
        /\ o.hint = IF c.hint = Blank THEN Absent ELSE c.hint
    BY <1>1 DEF Crosses, LegacyPassed, LegacyCalls
  <2>2. c.hint # Wrong
    BY <2>1 DEF Accepted, ShapeAccepted, LegacyAccepted
  <2>3. ResolveTarget(o) = LegacyTarget(o)
    BY <2>1, ByKind
  <2>4. LegacyTarget(o) = FromHint(o.hint, o.nodeId.id)
    BY <2>3 DEF LegacyTarget, Err
  <2>5. o.hint = c.hint
    BY <2>1, <2>3, <2>4 DEF FromHint, Err
  <2> QED
    BY <1>1, <2>2, <2>3, <2>4, <2>5, HintAddresses
<1>2. CASE c \in TicketCalls
  <2>1. o.kind = c.kind /\ o.ticket = c.ticket /\ c.hint = Absent
    BY <1>2 DEF Crosses, TargetPassed, TicketCalls
  <2>2. c.kind = "endpoint-ticket"
    BY <1>2 DEF Accepted, ShapeAccepted, TicketCalls
  <2>r. ResolveTarget(o) = TicketTarget(o)
    BY <2>1, <2>2, ByKind
  <2>3. ResolveTarget(o) = FromTicket(o.ticket)
    BY <2>r DEF TicketTarget, Err
  <2>4. /\ c.ticket.is = "ticket" /\ c.ticket.addrs # {}
        /\ ResolveTarget(o).addrs = c.ticket.addrs
    BY <2>1, <2>3 DEF FromTicket, Err, Ok
  <2>5. c.direct = Absent /\ c.relay = Absent
    BY <2>1, <2>2 DEF Accepted, ShapeAccepted, TicketAccepted
  <2>6. Written(c) = {} /\ Carried(c) = c.ticket.addrs
    BY <2>1, <2>4, <2>5 DEF Written, Carried, Items, Absent
  <2> QED
    BY <2>4, <2>6
<1>3. CASE c \in AddressCalls
  <2>1. /\ o.kind = c.kind /\ c.kind = "endpoint-address"
        /\ c.hint = Absent /\ c.relay = o.relay /\ o.ticket = c.ticket
    BY <1>3 DEF Crosses, TargetPassed, AddressCalls, Accepted, ShapeAccepted
  <2>2. Items(o.direct) = Items(c.direct)
    BY <1>3 DEF Crosses, TargetPassed, AddressCalls, Items
  <2>3. ResolveTarget(o) = AddressTarget(o)
    BY <2>1, ByKind
  <2>4. /\ c.ticket = Absent
        /\ ResolveTarget(o) = ParseAddresses(Texts(o), Address, Trim(o.nodeId).id)
    BY <2>1, <2>3, AddressResolved
  <2>5. /\ Texts(o) # {} /\ \A t \in Texts(o) : t.is = "addr"
        /\ ResolveTarget(o).addrs = {t.addr : t \in Texts(o)}
    BY <2>4, ParsedAll
  <2>6. Texts(o) = Items(c.direct) \cup ({c.relay} \ {Absent})
    BY <2>1, <2>2 DEF Texts
  <2>7. Texts(o) \subseteq Addr
    <3>1. ASSUME NEW t \in Items(c.direct) PROVE t \in {Blank, Junk} \cup Addr
      <4>a. AddressAccepted(c)
        BY <2>1 DEF Accepted, ShapeAccepted
      <4>1. c.direct # Absent /\ c.direct # Wrong
        BY <4>a, <3>1 DEF Items, AddressAccepted, Wrong
      <4>2. c.direct \in List({Blank, Junk} \cup Addr)
        BY <1>3, <4>1 DEF AddressCalls
      <4> QED
        BY <3>1, <4>1, <4>2 DEF Items, List
    <3>2. c.relay \in {Absent, Wrong, Blank, Junk} \cup Addr
      BY <1>3 DEF AddressCalls
    <3> QED
      BY <2>5, <2>6, <3>1, <3>2 DEF Wrong, Blank, Junk
  <2>8. Written(c) = Texts(o) /\ Carried(c) = {}
    BY <2>1, <2>4, <2>6 DEF Written, Carried, Absent
  <2>9. Texts(o) = [is : {"addr"}, addr : ResolveTarget(o).addrs]
    BY <2>5, <2>7, AddrTexts
  <2>10. [is : {"addr"}, addr : Carried(c)] = {}
    BY <1>0, <2>8
  <2>11. ResolveTarget(o).addrs # {}
    BY <2>5
  <2> QED
    BY <2>8, <2>9, <2>10, <2>11
<1> QED
  BY <1>1, <1>2, <1>3 DEF Calls

-----------------------------------------------------------------------------
(* Where the rules of index.js and lib.rs differ.                            *)

(* What lib.rs answers to a target that index.js lets through is never about *)
(* its shape.                                                                *)
LEMMA ShapeAgreed ==
  ASSUME NEW c \in Calls, ShapeAccepted(c), c.kind # "none"
  PROVE  ResolveTarget(Crosses(c)).code \in
           {"ok", "INVALID_TICKET", "INVALID_ADDRESS", "INVALID_NODE_ID"}
<1> DEFINE o == Crosses(c)
<1>1. CASE c \in TicketCalls
  <2>1. /\ o.kind = c.kind /\ o.ticket = c.ticket /\ o.nodeId = Trim(c.nodeId)
        /\ c.direct = Absent => o.direct = Absent
        /\ o.relay = c.relay
    BY <1>1 DEF Crosses, TargetPassed, TicketCalls
  <2>2. c.kind = "endpoint-ticket" /\ TicketAccepted(c)
    BY <1>1 DEF ShapeAccepted, TicketCalls
  <2>3. /\ o.nodeId = Absent /\ o.direct = Absent /\ o.relay = Absent
        /\ o.ticket \notin {Absent, Blank}
    BY <2>1, <2>2 DEF TicketAccepted, Text, NoText, Trim, Absent
  <2>4. ResolveTarget(o) = FromTicket(o.ticket)
    BY <2>1, <2>2, <2>3, ByKind DEF TicketTarget
  <2> QED
    BY <2>4 DEF FromTicket, Err, Ok
<1>2. CASE c \in AddressCalls
  <2>1. /\ o.kind = c.kind /\ c.kind = "endpoint-address"
        /\ o.relay = c.relay /\ o.ticket = c.ticket /\ o.nodeId = Trim(c.nodeId)
    BY <1>2 DEF Crosses, TargetPassed, AddressCalls, ShapeAccepted
  <2>2. Items(o.direct) = Items(c.direct)
    BY <1>2 DEF Crosses, TargetPassed, AddressCalls, Items
  <2>3. AddressAccepted(c)
    BY <2>1 DEF ShapeAccepted
  <2>4. o.ticket = Absent /\ o.nodeId \notin {Absent, Blank}
    <3>1. c.nodeId \in NodeValue /\ c.nodeId \notin {Absent, Blank} /\ o.ticket = Absent
      BY <1>2, <2>1, <2>3 DEF AddressCalls, AddressAccepted, Text, NoText
    <3>2. Trim(c.nodeId) \notin {Absent, Blank}
      BY <3>1 DEF Trim, NodeValue, Node, Absent, Wrong, Blank, Junk
    <3> QED
      BY <2>1, <3>1, <3>2
  <2>5. Texts(o) # {}
    BY <2>1, <2>2, <2>3 DEF AddressAccepted, Texts, Items
  <2>6. ResolveTarget(o) = AddressTarget(o)
    BY <2>1, ByKind
  <2> HIDE DEF o
  <2>7. AddressTarget(o).code \in {"ok", "INVALID_ADDRESS", "INVALID_NODE_ID"}
    BY <2>4, <2>5, ParsedCode DEF AddressTarget, Texts, Err
  <2> QED
    BY <2>6, <2>7 DEF o
<1> QED
  BY <1>1, <1>2 DEF Calls, LegacyCalls

(* lib.rs refuses a legacy call for want of an address exactly if it names   *)
(* none, and never as a wrong target.                                        *)
LEMMA HintRequired ==
  ASSUME NEW c \in Calls, ShapeAccepted(c), c.kind = "none"
  PROVE  LET code == ResolveTarget(Crosses(c)).code
         IN  /\ code # "INVALID_DIAL_TARGET"
             /\ code = "OPERATION_FAILED" <=> NoAddress(c) /\ NodeParses(c.nodeId)
<1> DEFINE o == Crosses(c)
<1>1. /\ o.kind = "none" /\ o.nodeId = c.nodeId
      /\ o.hint = IF c.hint = Blank THEN Absent ELSE c.hint
  <2>1. c \in LegacyCalls
    BY DEF Calls, TicketCalls, AddressCalls
  <2> QED
    BY <2>1 DEF Crosses, LegacyPassed, LegacyCalls
<1>2. ResolveTarget(o) = LegacyTarget(o)
  BY <1>1, ByKind
<1>3. NoAddress(c) <=> o.hint \in {Absent, Blank, DisplayOnly}
  BY <1>1 DEF NoAddress
<1> HIDE DEF o
<1>4. ASSUME NEW h, NEW i
      PROVE  /\ FromHint(h, i).code # "INVALID_DIAL_TARGET"
             /\ FromHint(h, i).code = "OPERATION_FAILED" <=> h \in {Absent, Blank, DisplayOnly}
  BY ParsedCode DEF FromHint, FromJson, FromTicket, Err, Ok
<1>5. CASE NodeParses(o.nodeId)
  BY <1>1, <1>2, <1>3, <1>4, <1>5 DEF LegacyTarget, o
<1>6. CASE ~NodeParses(o.nodeId)
  BY <1>1, <1>2, <1>6 DEF LegacyTarget, Err, o
<1> QED
  BY <1>5, <1>6

(* What index.js refuses for its shape lib.rs would not have resolved, but   *)
(* for a kind with white space around it.                                    *)
LEMMA ShapeRefused ==
  ASSUME NEW c \in Calls, Typed(c), ~ShapeAccepted(c), c.kind \notin PaddedKinds
  PROVE  ResolveTarget(c).code # "ok"
<1> SUFFICES ASSUME ResolveTarget(c).code = "ok" PROVE FALSE
  OBVIOUS
<1>t. Wrong \notin {c.nodeId, c.hint, c.ticket, c.direct, c.relay}
  BY DEF Typed
<1>1. CASE c \in LegacyCalls
  <2>1. c.kind = "none"
    BY <1>1 DEF LegacyCalls
  <2>2. c.nodeId \in {Absent, Blank}
    BY <1>t, <2>1 DEF ShapeAccepted, LegacyAccepted, Text, NoText
  <2>3. ~NodeParses(c.nodeId)
    BY <2>2 DEF NodeParses, Absent, Blank
  <2>4. ResolveTarget(c) = LegacyTarget(c)
    BY <2>1, ByKind
  <2> QED
    BY <2>3, <2>4 DEF LegacyTarget, Err
<1>2. CASE c \in TicketCalls
  <2>1. c.kind = "endpoint-ticket"
    <3>1. c.kind \in {"endpoint-ticket", "other"}
      BY <1>2 DEF TicketCalls, PaddedKinds
    <3>2. c.kind = "other" => ResolveTarget(c) = Err("INVALID_DIAL_TARGET")
      BY ByKind
    <3> QED
      BY <3>1, <3>2 DEF Err
  <2>2. ~TicketAccepted(c)
    BY <2>1 DEF ShapeAccepted
  <2>3. \/ c.nodeId # Absent \/ c.direct # Absent \/ c.relay # Absent
        \/ c.ticket \in {Absent, Blank}
    BY <1>t, <2>2 DEF TicketAccepted, Text, NoText
  <2>4. ResolveTarget(c) = TicketTarget(c)
    BY <2>1, ByKind
  <2> QED
    BY <2>3, <2>4 DEF TicketTarget, Err
<1>3. CASE c \in AddressCalls
  <2>1. c.kind = "endpoint-address" /\ AddressTarget(c).code = "ok"
    <3>1. c.kind = "endpoint-address"
      BY <1>3 DEF AddressCalls, PaddedKinds
    <3> QED
      BY <3>1, ByKind
  <2>2. ~AddressAccepted(c)
    BY <2>1 DEF ShapeAccepted
  <2>3. /\ c.ticket = Absent /\ c.nodeId \notin {Absent, Blank} /\ Texts(c) # {}
        /\ Items(c.direct) # {} =>
             ParseAddresses(Items(c.direct), Sockets, Trim(c.nodeId).id).code = "ok"
        /\ c.relay # Absent =>
             ParseAddresses({c.relay}, Relays, Trim(c.nodeId).id).code = "ok"
    BY <2>1, AddressResolved
  <2>4. Text(c.nodeId)
    BY <1>t, <2>3 DEF Text, NoText
  <2>5. c.relay # Absent => Text(c.relay)
    <3> SUFFICES ASSUME c.relay # Absent PROVE Text(c.relay)
      OBVIOUS
    <3>1. \A t \in {c.relay} : t.is = "addr"
      BY <2>3, ParsedAll
    <3> QED
      BY <3>1 DEF Text, NoText, Absent, Wrong, Blank
  <2>6. c.direct # Absent =>
          c.direct.is = "list" /\ \A t \in c.direct.items : Text(t)
    <3> SUFFICES ASSUME c.direct # Absent
                 PROVE  c.direct.is = "list" /\ \A t \in c.direct.items : Text(t)
      OBVIOUS
    <3>1. c.direct \in List({Blank, Junk} \cup Addr)
      BY <1>3, <1>t DEF AddressCalls
    <3>2. c.direct.is = "list" /\ Items(c.direct) = c.direct.items
      BY <3>1 DEF List, Items
    <3>3. \A t \in c.direct.items : t.is = "addr"
      BY <2>3, <3>2, ParsedAll
    <3> QED
      BY <3>2, <3>3 DEF Text, NoText, Absent, Wrong, Blank
  <2>7. c.relay # Absent \/ (c.direct # Absent /\ c.direct.items # {})
    BY <2>3 DEF Texts, Items
  <2> QED
    BY <2>2, <2>3, <2>4, <2>5, <2>6, <2>7 DEF AddressAccepted
<1> QED
  BY <1>1, <1>2, <1>3 DEF Calls

(* What index.js rewrites makes no difference to a call that lib.rs would    *)
(* resolve as it was written.                                                *)
LEMMA StillResolved ==
  ASSUME NEW c \in Calls, ShapeAccepted(c), ResolveTarget(c).code = "ok"
  PROVE  ResolveTarget(Crosses(c)).code = "ok"
<1> DEFINE o == Crosses(c)
<1>1. CASE c \in LegacyCalls
  <2>1. /\ c.kind = "none" /\ o.kind = "none" /\ o.nodeId = c.nodeId
        /\ o.hint = IF c.hint = Blank THEN Absent ELSE c.hint
    BY <1>1 DEF Crosses, LegacyPassed, LegacyCalls
  <2>2. ResolveTarget(o) = LegacyTarget(o) /\ ResolveTarget(c) = LegacyTarget(c)
    BY <2>1, ByKind
  <2>3. LegacyTarget(c) = FromHint(c.hint, c.nodeId.id) /\ NodeParses(c.nodeId)
    BY <2>2 DEF LegacyTarget, Err
  <2>4. c.hint # Blank
    BY <2>2, <2>3 DEF FromHint, Err
  <2> QED
    BY <2>1, <2>2, <2>3, <2>4 DEF LegacyTarget
<1>2. CASE c \in TicketCalls
  <2>1. /\ o.kind = c.kind /\ o.ticket = c.ticket /\ o.nodeId = Trim(c.nodeId)
        /\ c.direct = Absent => o.direct = Absent
        /\ o.relay = c.relay
    BY <1>2 DEF Crosses, TargetPassed, TicketCalls
  <2>2. c.kind = "endpoint-ticket" /\ TicketAccepted(c)
    BY <1>2 DEF ShapeAccepted, TicketCalls
  <2>3. o.nodeId = c.nodeId /\ o.direct = c.direct
    BY <2>1, <2>2 DEF TicketAccepted, Trim, Absent
  <2>4. ResolveTarget(o) = TicketTarget(o) /\ ResolveTarget(c) = TicketTarget(c)
    BY <2>1, <2>2, ByKind
  <2> QED
    BY <2>1, <2>3, <2>4 DEF TicketTarget
<1>3. CASE c \in AddressCalls
  <2>1. /\ o.kind = c.kind /\ c.kind = "endpoint-address" /\ c.nodeId \in NodeValue
        /\ o.relay = c.relay /\ o.ticket = c.ticket /\ o.nodeId = Trim(c.nodeId)
    BY <1>3 DEF Crosses, TargetPassed, AddressCalls, ShapeAccepted
  <2>2. Items(o.direct) = Items(c.direct)
    BY <1>3 DEF Crosses, TargetPassed, AddressCalls, Items
  <2>3. Trim(o.nodeId) = Trim(c.nodeId)
    BY <2>1 DEF Trim, NodeValue, Node, Absent, Wrong, Blank, Junk
  <2>4. o.nodeId \in {Absent, Blank} => c.nodeId \in {Absent, Blank}
    BY <2>1 DEF Trim, NodeValue, Node, Absent, Wrong, Blank, Junk
  <2>5. ResolveTarget(o) = AddressTarget(o) /\ ResolveTarget(c) = AddressTarget(c)
    BY <2>1, ByKind
  <2>6. c.nodeId \notin {Absent, Blank}
    BY <2>5, AddressResolved
  <2> HIDE DEF o
  <2>7. AddressTarget(o) = AddressTarget(c)
    BY <2>1, <2>2, <2>3, <2>4, <2>6 DEF AddressTarget
  <2> QED
    BY <2>5, <2>7 DEF o
<1> QED
  BY <1>1, <1>2, <1>3 DEF Calls

-----------------------------------------------------------------------------
(* The invariant behind the theorems: what crosses the binding is a call     *)
(* that index.js accepted, and the dial is what lib.rs makes of it.          *)
PassedInv ==
  /\ call \in Calls
  /\ stage \in {"rust", "dial"} => Accepted(call)
  /\ stage = "rust" => passed = Crosses(call)
  /\ stage \in {"js", "rust"} => result = Err("none")
  /\ stage \in {"js", "rust", "dial", "failed"}
  /\ stage = "failed" =>
       IF Accepted(call)
       THEN result = ResolveTarget(Crosses(call)) /\ result.code # "ok"
       ELSE result = Err("TypeError")
  /\ stage = "dial" => /\ result = ResolveTarget(Crosses(call)) /\ result.code = "ok"
                      /\ timeout = ConnectTimeout(Lower(Floor(call.timeout)))

(* What was passed on to the dial is right in every behaviour.               *)
LEMMA PassedAlways == Spec => []PassedInv
<1>1. Init => PassedInv
  BY DEF Init, PassedInv, Err
<1>2. PassedInv /\ [Next]_vars => PassedInv'
  <2> SUFFICES ASSUME PassedInv, [Next]_vars PROVE PassedInv'
    OBVIOUS
  <2>1. CASE Normalize
    BY <2>1 DEF Normalize, PassedInv, Crosses
  <2>2. CASE Refuse
    BY <2>2 DEF Refuse, PassedInv, Err
  <2>3. CASE Resolve
    <3>1. /\ call \in Calls /\ Accepted(call) /\ passed = Crosses(call)
      BY <2>3 DEF Resolve, PassedInv
    <3>2. /\ call' = call /\ stage' \in {"dial", "failed"}
          /\ result' = ResolveTarget(Crosses(call))
          /\ stage' = "failed" => result'.code # "ok"
          /\ stage' = "dial" => /\ result'.code = "ok"
                               /\ timeout' = ConnectTimeout(Lower(passed.timeout))
      BY <2>3, <3>1 DEF Resolve
    <3>3. passed.timeout = Floor(call.timeout)
      BY <3>1 DEF Crosses, LegacyPassed, TargetPassed, Calls, LegacyCalls,
        TicketCalls, AddressCalls
    <3> QED
      BY <3>1, <3>2, <3>3 DEF PassedInv
  <2>4. CASE UNCHANGED vars
    BY <2>4 DEF vars, PassedInv
  <2> QED
    BY <2>1, <2>2, <2>3, <2>4 DEF Next
<1> QED
  BY <1>1, <1>2, PTL DEF Spec

(* A dial is given every address of the call and no other, and at least one, *)
(* for every set of sockets and relays: one malformed text fails the call.   *)
THEOREM AddressesAlwaysKept == Spec => []AddressesKept
<1>1. PassedInv => AddressesKept
  BY ResolvedWithAll DEF PassedInv, AddressesKept
<1> QED
  BY <1>1, PassedAlways, PTL

(* index.js and lib.rs judge a call differently in the two known cases and   *)
(* in no other, for every set of ids, sockets and relays.                    *)
THEOREM OnlyKnownDifferences == Spec => []KnownDifferences
<1>1. PassedInv => KnownDifferences
  <2> SUFFICES ASSUME PassedInv PROVE KnownDifferences
    OBVIOUS
  <2> USE DEF PassedInv
  <2>1. ASSUME stage \in {"dial", "failed"}, Accepted(call)
        PROVE  /\ result.code # "INVALID_DIAL_TARGET"
               /\ result.code = "OPERATION_FAILED"
                    <=> NoAddress(call) /\ NodeParses(call.nodeId)
    <3>1. result = ResolveTarget(Crosses(call)) /\ call \in Calls /\ ShapeAccepted(call)
      BY <2>1 DEF Accepted
    <3>2. CASE call.kind = "none"
      BY <3>1, <3>2, HintRequired
    <3>3. CASE call.kind # "none"
      <4>1. ~NoAddress(call)
        BY <3>3 DEF NoAddress
      <4>2. result.code \in {"ok", "INVALID_TICKET", "INVALID_ADDRESS", "INVALID_NODE_ID"}
        BY <3>1, <3>3, ShapeAgreed
      <4> QED
        BY <4>1, <4>2
    <3> QED
      BY <3>2, <3>3
  <2>2. result.code # "INVALID_DIAL_TARGET"
    BY <2>1 DEF Err
  <2>3. ASSUME stage \in {"dial", "failed"}, Typed(call), TimeoutAccepted(call.timeout),
               ResolveTarget(call).code = "ok"
        PROVE  stage = "failed" <=> call.kind \in PaddedKinds
    <3>1. CASE ShapeAccepted(call)
      <4>1. call.kind \notin PaddedKinds
        BY <3>1 DEF ShapeAccepted, PaddedKinds
      <4>2. ResolveTarget(Crosses(call)).code = "ok"
        BY <2>3, <3>1, StillResolved
      <4>3. stage # "failed"
        BY <2>3, <3>1, <4>2 DEF Accepted
      <4> QED
        BY <4>1, <4>3
    <3>2. CASE ~ShapeAccepted(call)
      <4>1. stage = "failed"
        BY <2>3, <3>2 DEF Accepted
      <4>2. call.kind \in PaddedKinds
        BY <2>3, <3>2, ShapeRefused
      <4> QED
        BY <4>1, <4>2
    <3> QED
      BY <3>1, <3>2
  <2> QED
    BY <2>1, <2>2, <2>3 DEF KnownDifferences
<1> QED
  BY <1>1, PassedAlways, PTL

(* A whole number of milliseconds that fits the binding's u32 is used as it  *)
(* is and no timeout means the default, for every width and every default.   *)
THEOREM TimeoutAlwaysHonoured == Spec => []TimeoutHonoured
<1>1. PassedInv => TimeoutHonoured
  <2> SUFFICES ASSUME PassedInv, stage = "dial" PROVE TimeoutHonoured
    BY DEF TimeoutHonoured
  <2>1. call \in Calls /\ TimeoutAccepted(call.timeout)
    BY DEF PassedInv, Accepted
  <2>2. call.timeout \in Timeout
    BY <2>1 DEF Calls, LegacyCalls, TicketCalls, AddressCalls
  <2>3. timeout = ConnectTimeout(Lower(Floor(call.timeout)))
    BY DEF PassedInv
  <2> QED
    BY <2>1, <2>2, <2>3, TimeoutCarried DEF TimeoutHonoured
<1> QED
  BY <1>1, PassedAlways, PTL
=============================================================================
