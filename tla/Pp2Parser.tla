------------------------------ MODULE Pp2Parser ------------------------------
(***************************************************************************)
(* The packet parser of Drivers/Net/Pp2Dxe (Mvpp2Lib.c, with the macros of *)
(* Pp2Dxe.h): a table of match entries, the lowest that matches wins, that *)
(* the driver fills at start, and a shadow of it in memory.  Opening a     *)
(* port and changing its station address edit the entries of addresses.    *)
(* An allocation may fail in each.  A frame is its bytes; the numbers of   *)
(* protocols are those Pp2Dxe.h gives, which are not the registered ones.  *)
(***************************************************************************)
EXTENDS Integers, Sequences, FiniteSets, TLC, SequencesExt, FiniteSetsExt

CONSTANTS
  Port,
  MVPP2_PRS_TCAM_SRAM_SIZE,
  Unicast,     \* the addresses ports may have, six bytes each
  AiPairs,     \* what Mvpp2PrsDoubleVlanAiFreeGet finds, see Init
  Bounds       \* bounds: address changes (calls), failed allocations (faults)

VARIABLES
  drv,    \* table and shadow, the ports' addresses
  hist    \* history

vars == <<drv, hist>>

ConstantsOK ==
  /\ Port \subseteq 0 .. 3 /\ MVPP2_PRS_TCAM_SRAM_SIZE \in 32 .. 256
  /\ Unicast \subseteq [1 .. 6 -> 0 .. 255]
  /\ AiPairs \subseteq (SUBSET (0 .. 6)) \X (SUBSET (0 .. 6))
  /\ Bounds \subseteq [calls : Nat, faults : Nat]

Tid == 0 .. MVPP2_PRS_TCAM_SRAM_SIZE - 1
FreeTid == 1 .. MVPP2_PRS_TCAM_SRAM_SIZE - 31
Fixed(n) == MVPP2_PRS_TCAM_SRAM_SIZE - n

\* MV_IPPR_*, MV_ETH_P_*, MV_PPP_* of Pp2Dxe.h.
TCP == 0
UDP == 1
IPIP == 2
ICMPV6 == 3
IGMP == 4
IP == 5
IPV6 == 6
PPP_SES == 7
ARP == 8
VLAN_Q == 9
VLAN_AD == 10
EDSA == 11
PPP_IP == 12
PPP_IPV6 == 13
LBDT == 65530
Bcast == [i \in 1 .. 6 |-> 255]

(* ------------------------------- entries -------------------------------- *)

Byte == 0 .. 255
Bit5 == {b \in Byte : (b \div 32) % 2 = 1}
Low6Zero == {b \in Byte : b % 64 = 0}
High4(n) == {b \in Byte : b \div 16 = n}
NoData == [o \in {} |-> {}]
NoRi == [drop |-> FALSE, dsa |-> FALSE, pppoe |-> FALSE, vlan |-> "NONE",
         l2 |-> "UCAST", l3 |-> "UN", cast |-> "UCAST", l4 |-> "NONE",
         frag |-> FALSE, special |-> FALSE, lite |-> FALSE]
AllAi == 0 .. 7

\* An entry after SetMem: it matches every port, AI and byte.  data gives
\* the bytes allowed at offsets from the current one; an entry that wins
\* moves by shift, changes AI bits and fields of the result.
Entry(lu, next) ==
  [lu |-> lu, ports |-> Port, ai0 |-> {}, ai1 |-> {}, data |-> NoData,
   next |-> next, done |-> FALSE, flow |-> 0, shift |-> 0, clear |-> {},
   set |-> {}, ri |-> <<>>]
Invalid == Entry("none", "none")

\* The bytes of a field, and the two of an EtherType.
At(o, bytes) == [i \in o .. o + Len(bytes) - 1 |-> {bytes[i - o + 1]}]
MatchEtype(o, type) == At(o, <<type \div 256, type % 256>>)

\* Mvpp2PrsHwWrite with Mvpp2PrsShadowSet.
Write(t, tid, e, lu) == [t EXCEPT !.hw[tid] = e, !.shadow[tid] = lu]

\* The first entry that is free in the shadow, 0: none.
TcamFirstFree(t) ==
  LET free == {tid \in FreeTid : t.shadow[tid] = "none"}
  IN IF free = {} THEN 0 ELSE Min(free)

Free == -1
\* Entries in the order the code adds them, each <<index or Free, entry,
\* lookup the shadow gets>>.  An initialization that finds no free entry
\* returns at once.
AddAll(t, entries) ==
  FoldLeft(LAMBDA s, x :
             LET tid == IF x[1] = Free THEN TcamFirstFree(s) ELSE x[1]
             IN IF ~s.ok THEN s
                ELSE IF x[1] = Free /\ tid = 0 THEN [s EXCEPT !.ok = FALSE]
                ELSE Write(s, tid, x[2], x[3]), t, entries)

(* ---------------------------- initialization ---------------------------- *)

Empty == [hw |-> [tid \in Tid |-> Invalid], shadow |-> [tid \in Tid |-> "none"],
          ok |-> TRUE]

\* One flow a port, for no port yet.
DefFlowInit(t) ==
  AddAll(t, [i \in 1 .. 4 |->
    <<Fixed(19) - (i - 1),
      [Entry("FLOWS", "MH") EXCEPT !.ports = {}, !.flow = i - 1, !.done = TRUE],
      "FLOWS">>])

MhInit(t) ==
  AddAll(t, <<<<Fixed(10), [Entry("MH", "MAC") EXCEPT !.shift = 2], "MH">>>>)

MVPP2_PE_DROP_ALL == 0
MVPP2_PE_MAC_MC_ALL == Fixed(3)
MVPP2_PE_MAC_MC_IP6 == Fixed(29)

\* An entry for a set of ports, made for none when it is not there: one port.
SharedEntrySet(t, tid, e, p, add) ==
  LET cur == IF t.shadow[tid] = "none" THEN [e EXCEPT !.ports = {}] ELSE t.hw[tid]
  IN Write(t, tid, [cur EXCEPT !.ports = IF add THEN @ \cup {p} ELSE @ \ {p}], "MAC")
DropEntry == [Entry("MAC", "FLOWS") EXCEPT !.ri = [drop |-> TRUE]]
CastEntry(cast, data) ==
  [Entry("MAC", "DSA") EXCEPT !.data = data, !.shift = 12, !.ri = [l2 |-> cast]]
Mvpp2PrsMacDropAllSet(t, p, add) ==
  SharedEntrySet(t, MVPP2_PE_DROP_ALL, DropEntry, p, add)
Mvpp2PrsMacPromiscSet(t, p, add) ==
  SharedEntrySet(t, Fixed(2), CastEntry("UCAST", NoData), p, add)
Mvpp2PrsMacMultiSet(t, p, index, add) ==
  LET first == IF index = MVPP2_PE_MAC_MC_ALL THEN 1 ELSE 51
  IN SharedEntrySet(t, index, CastEntry("MCAST", At(0, <<first>>)), p, add)

\* Drop what no address takes; promiscuous and drop-all for no port.  The
\* calls for multicast have port and index the wrong way round (:1535): a
\* port beyond every map is taken out of the drop-all entry, nothing
\* changes, and multicast has no entry.
MacInit(t) ==
  LET drop == AddAll(t, <<<<Fixed(1), DropEntry, "MAC">>>>)
      promisc == Mvpp2PrsMacPromiscSet(Mvpp2PrsMacDropAllSet(drop, 0, FALSE), 0, FALSE)
  IN Mvpp2PrsMacMultiSet(Mvpp2PrsMacMultiSet(promisc, MVPP2_PE_MAC_MC_ALL, 0, FALSE),
                         MVPP2_PE_MAC_MC_IP6, 0, FALSE)

\* Mvpp2PrsDsaTagSet and Mvpp2PrsDsaTagEthertypeSet: a new entry.
DsaTag(tagged, shift, o, match, ri, ports) ==
  [Entry("DSA", IF tagged THEN "VLAN" ELSE "L2") EXCEPT
     !.ports = ports, !.shift = shift,
     !.data = IF tagged THEN (o :> Bit5) @@ match ELSE match,
     !.clear = IF tagged THEN AllAi ELSE {},
     !.ri = IF tagged THEN ri ELSE [vlan |-> "NONE"] @@ ri]
DsaInit(t) ==
  LET none == [f \in {} |-> FALSE]
      etype == MatchEtype(0, EDSA) @@ MatchEtype(2, 0)
      dsa == [dsa |-> TRUE]
  IN AddAll(t, <<<<Fixed(17), DsaTag(FALSE, 8, 0, NoData, none, {}), "DSA">>,
                 <<Fixed(18), DsaTag(TRUE, 8, 0, NoData, none, {}), "DSA">>,
                 <<Fixed(15), DsaTag(FALSE, 4, 0, NoData, none, {}), "DSA">>,
                 <<Fixed(16), DsaTag(TRUE, 4, 0, NoData, none, {}), "DSA">>,
                 <<Fixed(13), DsaTag(FALSE, 12, 7, etype, dsa, {}), "DSA">>,
                 <<Fixed(14), DsaTag(TRUE, 12, 7, etype, dsa, {}), "DSA">>,
                 <<Fixed(11), DsaTag(FALSE, 8, 7, etype, dsa, Port), "DSA">>,
                 <<Fixed(12), DsaTag(TRUE, 8, 7, etype, dsa, Port), "DSA">>,
                 <<Fixed(9), [Entry("DSA", "VLAN") EXCEPT !.clear = AllAi], "MAC">>>>)

\* An entry that ends the walk of the headers.
Ends(lu, data, ri) == [Entry(lu, "FLOWS") EXCEPT !.data = data, !.ri = ri]

EtypeInit(t) ==
  LET l2(type, next, shift, ri) ==
        [Entry("L2", next) EXCEPT !.data = MatchEtype(0, type),
                                  !.shift = shift, !.ri = ri]
      ip4 == l2(IP, "IP4", 6, [l3 |-> "IP4"])
  IN AddAll(t, <<<<Free, l2(PPP_SES, "PPPOE", 8, [pppoe |-> TRUE]), "L2">>,
                 <<Free, Ends("L2", MatchEtype(0, ARP), [l3 |-> "ARP"]), "L2">>,
                 <<Free, Ends("L2", MatchEtype(0, LBDT), [special |-> TRUE]), "L2">>,
                 <<Free, [ip4 EXCEPT !.data = At(2, <<69>>) @@ @], "L2">>,
                 <<Free, [ip4 EXCEPT !.data = (2 :> High4(4)) @@ @,
                                     !.ri = [l3 |-> "IP4_OPT"]], "L2">>,
                 <<Free, l2(IPV6, "IP6", 26, [l3 |-> "IP6"]), "L2">>,
                 <<Fixed(6), Ends("L2", NoData, [l3 |-> "UN"]), "L2">>>>)

\* Tags.  A double entry has to come before every single one.  The array
\* of indices in use, PrsDoubleVlans, is never allocated: ai is the number
\* of a zero byte near address 0.
VlanTids(t, kinds) ==
  {tid \in FreeTid : t.shadow[tid] = "VLAN" /\ t.hw[tid].ri.vlan \in kinds}
AddIf(t, fits, e) ==
  IF fits THEN AddAll(t, <<<<Free, e, "VLAN">>>>) ELSE [t EXCEPT !.ok = FALSE]
VlanAdd(t, tpid) ==
  AddIf(t, TcamFirstFree(t) > Max({0} \cup VlanTids(t, {"DOUBLE"})),
        [Entry("VLAN", "L2") EXCEPT
           !.data = MatchEtype(0, tpid), !.shift = 4, !.clear = AllAi,
           !.ai0 = AllAi, !.ri = [vlan |-> "SINGLE"]])
DoubleVlanAdd(t, tpid1, tpid2, ai) ==
  AddIf(t, TcamFirstFree(t) < Min({Fixed(30)} \cup VlanTids(t, {"SINGLE", "TRIPLE"})),
        [Entry("VLAN", "VLAN") EXCEPT
           !.data = MatchEtype(0, tpid1) @@ MatchEtype(4, tpid2), !.shift = 8,
           !.clear = AllAi \ ai, !.set = ai \cup {7}, !.ri = [vlan |-> "DOUBLE"]])
VlanInit(t, ais) ==
  LET double == DoubleVlanAdd(DoubleVlanAdd(t, VLAN_Q, VLAN_AD, ais[1]),
                              VLAN_Q, VLAN_Q, ais[2])
  IN AddAll(VlanAdd(VlanAdd(double, VLAN_AD), VLAN_Q),
       <<<<Fixed(5), [Entry("VLAN", "L2") EXCEPT !.clear = AllAi, !.ai1 = {7},
                                      !.ri = [vlan |-> "DOUBLE"]], "VLAN">>,
         <<Fixed(4), [Entry("VLAN", "L2") EXCEPT !.ri = [vlan |-> "NONE"]], "VLAN">>>>)

PppoeInit(t) ==
  LET ppp(type, next, l3) ==
        [Entry("PPPOE", next) EXCEPT !.data = MatchEtype(0, type), !.shift = 6,
                                     !.ri = [l3 |-> l3]]
  IN AddAll(t, <<<<Free, ppp(PPP_IP, "IP4", "IP4_OPT"), "PPPOE">>,
                 <<Free, [ppp(PPP_IP, "IP4", "IP4") EXCEPT
                            !.data = At(2, <<69>>) @@ @], "PPPOE">>,
                 <<Free, ppp(PPP_IPV6, "IP6", "IP6"), "PPPOE">>,
                 <<Free, Ends("PPPOE", NoData, [l3 |-> "UN"]), "PPPOE">>>>)

\* AI bit 0 set: the destination has been looked at, the next header is.
Ip6Proto(proto, ri) ==
  <<Free, [Ends("IP6", At(0, <<proto>>), ri) EXCEPT !.ai1 = {0}], "IP6">>
Ip6Dst(data, cast) ==
  [Entry("IP6", "IP6") EXCEPT !.data = data, !.ai0 = {0}, !.set = {0},
                              !.shift = -18, !.ri = [cast |-> cast]]
Ip6Init(t) ==
  LET other == Ends("IP6", NoData, [l4 |-> "OTHER"])
  IN AddAll(t, <<Ip6Proto(TCP, [l4 |-> "TCP"]), Ip6Proto(UDP, [l4 |-> "UDP"]),
                 Ip6Proto(ICMPV6, [special |-> TRUE]), Ip6Proto(IPIP, [lite |-> TRUE]),
                 <<Free, Ip6Dst(At(0, <<255>>), "MCAST"), "IP6">>,
                 <<Free, [Ends("IP6", At(1, <<0>>), [l3 |-> "UN", drop |-> TRUE])
                            EXCEPT !.ai1 = {0}], "IP4">>,
                 <<Fixed(8), [other EXCEPT !.ai1 = {0}], "IP4">>,
                 <<Fixed(30), [other EXCEPT !.ai1 = {1}], "IP4">>,
                 <<Fixed(28), Ip6Dst(NoData, "UCAST"), "IP6">>>>)

\* IPv4: the protocol, then the destination.  The entry for fragments has
\* no condition on them, and comes first: the second never wins.
Ip4Header(data, ri) ==
  [Entry("IP4", "IP4") EXCEPT !.data = data, !.shift = 12, !.ai0 = {0},
                              !.set = {0}, !.ri = ri]
Ip4Proto(proto, ri) ==
  <<<<Free, Ip4Header(At(5, <<proto>>), [frag |-> TRUE] @@ ri), "IP4">>,
    <<Free, Ip4Header((2 :> Low6Zero) @@ At(3, <<0>>) @@ At(5, <<proto>>), ri), "IP4">>>>
Ip4Dst(data, cast) == [Ends("IP4", data, [cast |-> cast]) EXCEPT !.ai1 = {0}]
Ip4Init(t) ==
  AddAll(t, Ip4Proto(TCP, [l4 |-> "TCP"]) \o Ip4Proto(UDP, [l4 |-> "UDP"])
            \o Ip4Proto(IGMP, [special |-> TRUE])
            \o <<<<Free, Ip4Dst(At(0, <<255, 255, 255, 255>>), "BCAST"), "IP4">>,
                 <<Free, Ip4Dst(0 :> High4(14), "MCAST"), "IP4">>,
                 <<Fixed(7), Ip4Header(NoData, [l4 |-> "OTHER"]), "IP4">>,
                 <<Fixed(27), Ip4Dst(NoData, "UCAST"), "IP4">>>>)

Mvpp2PrsDefaultInit(ais) ==
  Ip4Init(Ip6Init(PppoeInit(VlanInit(EtypeInit(DsaInit(
    MacInit(MhInit(DefFlowInit(Empty))))), ais))))

(* ------------------------- addresses of a port -------------------------- *)

Mvpp2PrsTcamPortSet(t, tid, p, add) ==
  [t EXCEPT !.hw[tid].ports = IF add THEN @ \cup {p} ELSE @ \ {p}]

\* The entry of an address for exactly this port.
Mvpp2PrsMacDaRangeFind(t, p, da) ==
  {tid \in FreeTid : /\ t.shadow[tid] = "MAC"
                     /\ t.hw[tid].data = At(0, da)
                     /\ t.hw[tid].ports = {p}}

\* Mvpp2PrsMacDaAccept; fails: which of its two allocations, of the search
\* (1), which then finds nothing, and of a new entry (2), fail.  Every
\* address is taken for a broadcast one (Pp2Dxe.h:68).
MacEntry(p, da) ==
  [Entry("MAC", "DSA") EXCEPT !.ports = {p}, !.data = At(0, da), !.shift = 12,
                              !.ri = [l2 |-> "BCAST"]]
Mvpp2PrsMacDaAccept(t, p, da, add, fails) ==
  LET found == IF 1 \in fails THEN {} ELSE Mvpp2PrsMacDaRangeFind(t, p, da)
      tid == IF found # {} THEN Min(found) ELSE TcamFirstFree(t)
  IN IF add
     THEN IF found = {} /\ (tid = 0 \/ 2 \in fails) THEN [t EXCEPT !.ok = FALSE]
          ELSE Write(t, tid, MacEntry(p, da), "MAC")
     ELSE IF found = {} THEN t ELSE Write(t, tid, Invalid, "none")

\* MVPP2_TAG_TYPE_MH: no DSA entry is for the port.
Mvpp2PrsTagModeSet(t, p) ==
  FoldLeft(LAMBDA s, n : Mvpp2PrsTcamPortSet(s, Fixed(n), p, FALSE), t,
           <<16, 15, 18, 17>>)

\* The entry of a flow, from the table's end; -1: no memory for the search.
Mvpp2PrsFlowFind(t, flow, fails) ==
  IF 1 \in fails THEN -1
  ELSE Max({-1} \cup {tid \in Tid : t.shadow[tid] = "FLOWS" /\ t.hw[tid].flow = flow})

\* The port's flow; a new entry if none was found.
Mvpp2PrsDefFlow(t, p, fails) ==
  LET found == Mvpp2PrsFlowFind(t, p, fails)
      tid == IF found = -1 THEN TcamFirstFree(t) ELSE found
  IN IF found = -1 /\ (tid = 0 \/ 2 \in fails) THEN [t EXCEPT !.ok = FALSE]
     ELSE Write(t, tid, [Entry("FLOWS", "MH") EXCEPT !.ports = {p}, !.flow = p,
                                               !.done = TRUE], "FLOWS")

(* ------------------------------- actions -------------------------------- *)

\* Pp2DxeInitialise: the table is filled; it goes on only if that worked.
Init ==
  /\ \E ais \in AiPairs, mac \in [Port -> Unicast] :
       /\ drv = [t |-> Mvpp2PrsDefaultInit(ais), mac |-> mac,
                 perm |-> mac, opened |-> [p \in Port |-> "no"]]
       /\ drv.t.ok
  /\ \E max \in Bounds :
       hist = [max |-> max, calls |-> 0, faults |-> 0,
               failed |-> {},                    \* the last call failed
               stale |-> {}]                     \* an allocation failed

\* The allocations of a call that fail: calls numbered in its order.
Fails(n) == {f \in SUBSET ((1 .. n) \X {1, 2}) :
               Cardinality(f) <= hist.max.faults - hist.faults}
Of(f, i) == {x[2] : x \in {y \in f : y[1] = i}}

Done(p, t, f) ==
  /\ hist' = [hist EXCEPT !.faults = @ + Cardinality(f),
                          !.failed = IF t.ok THEN @ \ {p} ELSE @ \cup {p},
                          !.stale = IF f = {} THEN @ ELSE @ \cup {p},
                          !.calls = @ + 1]

\* Pp2DxeOpen, once for a port, from its first Initialize; the interface
\* is initialized also if it fails.
Pp2DxeOpen(p) ==
  /\ drv.opened[p] = "no"
  /\ \E f \in Fails(3) :
       LET bcast == Mvpp2PrsMacDaAccept(drv.t, p, Bcast, TRUE, Of(f, 1))
           own == IF ~bcast.ok THEN bcast
                  ELSE Mvpp2PrsMacDaAccept(bcast, p, drv.mac[p], TRUE, Of(f, 2))
           t2 == IF ~own.ok THEN own
                 ELSE Mvpp2PrsDefFlow(Mvpp2PrsTagModeSet(own, p), p, Of(f, 3))
       IN /\ drv' = [drv EXCEPT !.t = [t2 EXCEPT !.ok = TRUE],
                                !.opened[p] = IF t2.ok THEN "yes" ELSE "failed"]
          /\ Done(p, t2, f)

\* Pp2SnpStationAddress, to a new address or back to the permanent one.
\* Where no entry can be made it returns without restoring the TPL; a
\* removal whose search cannot allocate counts as done.
Pp2SnpStationAddress(p, new) ==
  /\ drv.opened[p] # "no" /\ hist.calls < hist.max.calls
  /\ \E f \in Fails(2) :
       LET removed == Mvpp2PrsMacDaAccept(drv.t, p, drv.mac[p], FALSE, Of(f, 1))
           t2 == Mvpp2PrsMacDaAccept(removed, p, new, TRUE, Of(f, 2))
       IN /\ drv' = [drv EXCEPT !.t = [t2 EXCEPT !.ok = TRUE], !.mac[p] = new]
          /\ Done(p, t2, f)

Next ==
  \E p \in Port : \/ Pp2DxeOpen(p)
                  \/ \E a \in Unicast : Pp2SnpStationAddress(p, a)
                  \/ Pp2SnpStationAddress(p, drv.perm[p])

Spec == Init /\ [][Next]_vars

(* ------------------------------ the parser ------------------------------ *)

\* Mvpp2PrsHwPortInit, for every port: where the walk begins, and how long it is.
HwPortInit == [first |-> "MH", lookups |-> 15, offset |-> 0]

\* Behind a frame's end there is padding.
ByteAt(frame, i) == IF i + 1 \in DOMAIN frame THEN frame[i + 1] ELSE 0
Matches(e, p, s, frame) ==
  /\ e.lu = s.lu /\ p \in e.ports
  /\ e.ai1 \subseteq s.ai /\ e.ai0 \cap s.ai = {}
  /\ \A o \in DOMAIN e.data : ByteAt(frame, s.off + o) \in e.data[o]
Lookup(t, p, frame, s) ==
  LET hits == {tid \in Tid : Matches(t.hw[tid], p, s, frame)}
      e == t.hw[Min(hits)]
  IN IF s.flow # -1 \/ hits = {} THEN s
     ELSE [lu |-> e.next, off |-> s.off + e.shift, ai |-> (s.ai \ e.clear) \cup e.set,
           ri |-> e.ri @@ s.ri, flow |-> IF e.done THEN e.flow ELSE -1]
Parse(t, p, frame) ==
  FoldLeft(LAMBDA s, i : Lookup(t, p, frame, s),
           [lu |-> HwPortInit.first, off |-> HwPortInit.offset, ai |-> {},
            ri |-> NoRi, flow |-> -1],
           [i \in 1 .. HwPortInit.lookups |-> i])

\* The bytes of a frame.
Etype(type) == <<type \div 256, type % 256>>
Zeros(n) == [i \in 1 .. n |-> 0]
Fill(n, b) == [i \in 1 .. n |-> b]
Ip4Bytes(f) ==
  <<IF f.opts THEN 70 ELSE 69>> \o Zeros(8) \o <<f.proto>> \o Zeros(6)
  \o (CASE f.dst = "UCAST" -> <<10, 0, 0, 1>> [] f.dst = "MCAST" -> <<224, 0, 0, 1>>
        [] f.dst = "BCAST" -> Fill(4, 255))
Ip6Bytes(f) ==
  <<96>> \o Zeros(5) \o <<f.proto, f.hop>> \o Zeros(16)
  \o (IF f.dst = "MCAST" THEN <<255, 2>> ELSE <<254, 128>>) \o Zeros(14)
Frame(da, f) ==
  Zeros(2) \o da \o Zeros(6)
  \o FoldLeft(LAMBDA s, v : s \o Etype(v) \o Zeros(2), <<>>, f.vlans)
  \o (IF f.pppoe THEN Etype(PPP_SES) \o Zeros(6) \o Etype(PPP_IP) ELSE Etype(f.type))
  \o (CASE f.type = IP -> Ip4Bytes(f) [] f.type = IPV6 -> Ip6Bytes(f)
        [] OTHER -> Zeros(46))

(* ------------------------------ properties ------------------------------ *)

Plain == [vlans |-> <<>>, pppoe |-> FALSE, type |-> 2048, opts |-> FALSE,
          proto |-> 6, dst |-> "UCAST", hop |-> 64]
Delivered(p, da, f) ==
  LET r == Parse(drv.t, p, Frame(da, f)) IN r.flow = p /\ ~r.ri.drop

\* A port whose opening or last change of address was reported to work
\* gets the frames to its address and to all; as long as no allocation
\* failed it gets no others.
AddressesAccepted ==
  \A p \in Port : drv.opened[p] = "yes" =>
    LET taken == {da \in Unicast \cup {Bcast} : Delivered(p, da, Plain)}
    IN /\ p \notin hist.failed => drv.mac[p] \in taken
       /\ p \notin hist.stale => taken = {drv.mac[p], Bcast}

\* Table and shadow agree on what is free; an address is entered once.
TableInStep ==
  /\ \A tid \in Tid : drv.t.shadow[tid] = "none" <=> drv.t.hw[tid] = Invalid
  /\ hist.stale = {} =>
       \A p \in Port, da \in Unicast :
         Cardinality(Mvpp2PrsMacDaRangeFind(drv.t, p, da)) <= 1

\* What the walk of the headers finds of a frame: its tags, its protocols,
\* whom it is for, and whether it dies here (hop limit 0 of an IPv6 packet
\* of no known protocol).  The mark of fragments is wrong, and an IPv4
\* packet over PPP counts as one with options; both are left out.
Found(f) ==
  LET dies == f.type = IPV6 /\ f.hop = 0 /\ f.proto \notin {TCP, UDP, IPIP, ICMPV6}
      ip == f.type \in {IP, IPV6}
  IN [drop |-> dies, pppoe |-> f.pppoe,
      vlan |-> CASE Len(f.vlans) = 0 -> "NONE" [] Len(f.vlans) = 1 -> "SINGLE"
                 [] OTHER -> "DOUBLE",
      l3 |-> CASE f.type = IP -> IF f.opts \/ f.pppoe THEN "IP4_OPT" ELSE "IP4"
               [] f.type = IPV6 -> IF dies THEN "UN" ELSE "IP6"
               [] f.type = ARP -> "ARP" [] OTHER -> "UN",
      cast |-> IF ip THEN f.dst ELSE "UCAST",
      special |-> f.type = LBDT \/ (f.type = IP /\ f.proto = IGMP)
                  \/ (f.type = IPV6 /\ f.proto = ICMPV6),
      l4 |-> CASE ~ip \/ dies -> "NONE"
               [] f.proto = TCP -> "TCP" [] f.proto = UDP -> "UDP"
               [] f.type = IP /\ f.proto = IGMP -> "NONE"
               [] f.type = IPV6 /\ f.proto \in {ICMPV6, IPIP} -> "NONE"
               [] OTHER -> "OTHER"]
Frames ==
  {[Plain EXCEPT !.vlans = v, !.type = type, !.proto = UDP] :
     v \in {<<>>, <<VLAN_Q>>, <<VLAN_AD>>, <<VLAN_Q, VLAN_AD>>, <<VLAN_Q, VLAN_Q>>},
     type \in {IP, ARP, 2048}}
  \cup {[Plain EXCEPT !.type = IP, !.pppoe = ppp, !.opts = opts, !.proto = proto, !.dst = dst] :
          ppp \in BOOLEAN, opts \in BOOLEAN, proto \in {TCP, IGMP, 6},
          dst \in {"UCAST", "MCAST", "BCAST"}}
  \cup {[Plain EXCEPT !.type = IPV6, !.proto = proto, !.dst = dst, !.hop = hop] :
          proto \in {TCP, UDP, IPIP, ICMPV6, 6}, dst \in {"UCAST", "MCAST"},
          hop \in {0, 64}}
  \cup {[Plain EXCEPT !.type = LBDT]}

\* The table parses every frame to a port's own address as the frame was
\* built, whatever other entries came and went, in less than the lookups
\* the hardware allows.
ParsedAsBuilt ==
  \A p \in Port : drv.opened[p] = "yes" /\ p \notin hist.failed =>
    \A f \in Frames :
      LET r == Parse(drv.t, p, Frame(drv.mac[p], f))
          ref == Found(f)
      IN r.flow = p /\ \A field \in DOMAIN ref : r.ri[field] = ref[field]

=============================================================================
