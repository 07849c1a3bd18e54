---------------------------- MODULE PciHostBridge ----------------------------
(***************************************************************************)
(* Chips/Hisilicon/Drivers/PciHostBridgeDxe/PciHostBridge.c: the resource  *)
(* allocation protocol of a host bridge with its list of root bridges,     *)
(* between the PCI enumerator, which submits requests phase by phase and   *)
(* may free, adjust and retry, and the global coherency domain (GCD),      *)
(* which owns the memory space.                                            *)
(*                                                                         *)
(* An alignment is a mask, as in the descriptors: 0, 1, 3, ...             *)
(***************************************************************************)
EXTENDS Integers, Sequences, FiniteSets, SequencesExt

CONSTANTS
  Bridges,             \* the root bridges, in the order of the list
  MemBase, MemLimit,   \* the memory window of each
  BusBase, BusLimit,   \* its buses
  Submissions,         \* for each, the sets of requests the enumerator has
  Bounds               \* bounds: submissions of a bridge (rounds), requests the
                       \* GCD has no memory for (faults), questions (asks)

Bridge == Range(Bridges)

ConstantsOK ==
  /\ \A b \in Range(Bridges) :
       MemBase[b] \in Nat \ {0} /\ MemLimit[b] \in Nat /\ BusBase[b] \in Nat \ {0}
  /\ \A m \in Bounds : m.rounds \in [Bridge -> Nat] /\ m.faults \in Nat

VARIABLES
  drv,    \* PCI_HOST_BRIDGE_INSTANCE and the root bridges' ResAllocNode
  dev,    \* the GCD, and the status of the last AllocateResources
  hist    \* history

vars == <<drv, dev, hist>>

\* PCI_RESOURCE_TYPE, in order; TypeBus has its own function.
MemTypes == <<"Mem32", "PMem32", "Mem64", "PMem64">>
Types == <<"Io">> \o MemTypes
Type == Range(Types)

NoNode == [Status |-> "None", Base |-> 0, Length |-> 0, Alignment |-> 0]
NoNodes == [b \in Bridge |-> [t \in Type |-> NoNode]]
NoRange == [min |-> 0, len |-> 0]
NoAnswer == [op |-> "none"]
NoBus == [Status |-> "None", Base |-> 0, Length |-> 0]

\* InitializePciHostBridge with RootBridgeConstructor for each bridge.
Init ==
  /\ drv = [node |-> NoNodes, bus |-> [b \in Bridge |-> NoBus],
            ResourceSubmited |-> FALSE, CanRestarted |-> TRUE]
  /\ dev = [gcd |-> {}, status |-> "none",
            Configuration |-> [t \in Type |-> NoRange], answer |-> NoAnswer]
  /\ \E max \in Bounds :
       hist = [max |-> max, rounds |-> [b \in Bridge |-> 0], faults |-> 0, asks |-> 0,
               asked |-> [b \in Bridge |-> [t \in Type |-> NoNode]],
               forgot |-> {},     \* ranges that a restart left in the GCD
               stale |-> {},      \* requests made again after a refusal that
                                  \* took away their length
               starved |-> FALSE] \* the GCD had no memory

Allocated ==
  {x \in Bridge \X Type : drv.node[x[1]][x[2]].Status = "Allocated"}
Cells(base, len) == base .. base + len - 1

(* ----------------------------- the requests ---------------------------- *)

\* GetNextRootBridge: the bridge after a given one, as the enumerator goes
\* through the list.
GetNextRootBridge(b) ==
  LET later == {i \in DOMAIN Bridges : i > 1 /\ Bridges[i - 1] = b} IN
  IF later = {} THEN "NOT_FOUND" ELSE Bridges[CHOOSE i \in later : TRUE]

\* A valid mask is one below a power of two.
GetPowerOfTwo(n) == CHOOSE p \in {2^k : k \in 0 .. n} : p <= n /\ n < 2 * p
MaskOK(mask) == mask = GetPowerOfTwo(mask + 1) - 1

\* SubmitResources with SubmitGetResourceType: each descriptor replaces
\* the node of its type; a bad mask ends the call after the ones before
\* it.  The nodes of other types keep what they had.
Submit(nodes, req) ==
  [t \in Type |-> IF t \in DOMAIN req
     THEN [Status |-> "Requested", Base |-> nodes[t].Base,
           Length |-> req[t].len, Alignment |-> req[t].mask]
     ELSE nodes[t]]

SubmitResources(b) ==
  /\ hist.rounds[b] < hist.max.rounds[b]
  /\ \A c \in Bridge, t \in Type : drv.node[c][t].Status # "Allocated"
  /\ \E req \in Submissions[b] :
       LET bad == {i \in DOMAIN Types :
                     Types[i] \in DOMAIN req /\ ~MaskOK(req[Types[i]].mask)}
           good == {Types[i] : i \in {j \in DOMAIN Types :
                                        \A k \in bad : j < k}}
           taken == [t \in DOMAIN req \cap good |-> req[t]]
       IN /\ drv' = [drv EXCEPT !.node[b] = Submit(@, taken),
                       !.ResourceSubmited = @ \/ DOMAIN taken # {}]
          /\ dev' = [dev EXCEPT !.status = "none"]
          /\ hist' = [hist EXCEPT !.rounds[b] = @ + 1,
                        !.asked[b] = Submit(@, taken)]

(* ----------------------------- allocation ------------------------------ *)

Aligned(base, mask) == ((base + mask) \div (mask + 1)) * (mask + 1)

\* AllocateMemorySpace at a given address: "OK" if the range is free.
GcdStatus(gcd, base, len, starved) ==
  IF len = 0 THEN "INVALID_PARAMETER"
  ELSE IF \E g \in gcd : Cells(g.base, g.len) \cap Cells(base, len) # {}
    THEN "NOT_FOUND"
  ELSE IF starved THEN "OUT_OF_RESOURCES" ELSE "SUCCESS"

\* Slip: a request that does not fit keeps its length and is allocated.
AllocateNodeAnyway(a, b, t, starved) ==
  LET n == a.node[b][t]
      base == Aligned(MemBase[b] + a.used, n.Alignment)
      status == GcdStatus(a.gcd, base, n.Length, starved)
  IN IF status = "SUCCESS"
       THEN [a EXCEPT !.node[b][t].Base = base,
                      !.node[b][t].Status = "Allocated",
                      !.gcd = @ \cup {[base |-> base, len |-> n.Length]},
                      !.used = @ + n.Length, !.status = status]
       ELSE [a EXCEPT !.node[b][t].Length = 0, !.status = status]

\* NotifyAllocateMemResources of one node.  The state a holds the nodes,
\* the GCD, the lengths allocated so far (AllocatedLenMem, without the
\* gaps that alignment left) and the status.
AllocateNode(a, b, t, starved) ==
  LET n == a.node[b][t]
      base == Aligned(MemBase[b] + a.used, n.Alignment)
      fits == base + n.Length - 1 <= MemLimit[b]
      status == IF fits THEN GcdStatus(a.gcd, base, n.Length, starved)
                ELSE "OUT_OF_RESOURCES"
  IN CASE status = "SUCCESS" ->
            [a EXCEPT !.node[b][t].Base = base,
                      !.node[b][t].Status = "Allocated",
                      !.gcd = @ \cup {[base |-> base, len |-> n.Length]},
                      !.used = @ + n.Length, !.status = status]
       [] status = "OUT_OF_RESOURCES" /\ fits -> [a EXCEPT !.status = status]
       [] OTHER -> [a EXCEPT !.node[b][t].Length = 0, !.status = status]

NotifyAllocateMemResources(a, b, t, starved) == AllocateNode(a, b, t, starved)

\* NotifyAllocateResources goes through all nodes with a request, also one
\* an earlier round left; I/O is skipped; the status is that of the last.
NotifyAllocateResources(starved) ==
  FoldLeft(LAMBDA a, b :
      FoldLeft(LAMBDA c, t :
          IF c.node[b][t].Status = "None" THEN c
          ELSE NotifyAllocateMemResources(c, b, t, starved = <<b, t>>),
        [a EXCEPT !.used = 0], MemTypes),
    [node |-> drv.node, gcd |-> dev.gcd, used |-> 0, status |-> "SUCCESS"],
    Bridges)

AllocateResources ==
  /\ \A b \in Bridge, t \in Type : drv.node[b][t].Status # "Allocated"
  /\ IF ~drv.ResourceSubmited
       THEN dev' = [dev EXCEPT !.status = "NOT_READY"] /\ UNCHANGED <<drv, hist>>
       ELSE \E starved \in {<<>>} \cup (Bridge \X Range(MemTypes)) :
         LET a == NotifyAllocateResources(starved)
             hit == starved # <<>> /\ drv.node[starved[1]][starved[2]].Length > 0
         IN /\ starved # <<>> => hit /\ hist.faults < hist.max.faults
            /\ drv' = [drv EXCEPT !.node = a.node]
            /\ dev' = [dev EXCEPT !.gcd = a.gcd, !.status = a.status]
            /\ hist' = [hist EXCEPT
                 !.faults = @ + (IF hit THEN 1 ELSE 0),
                 !.starved = hit,
                 !.stale = {x \in Bridge \X Type : drv.node[x[1]][x[2]].Length
                                          # hist.asked[x[1]][x[2]].Length}]

(* ------------------------------- phases -------------------------------- *)

\* NotifyFreeResources: allocated nodes go back to the GCD and are
\* cleared; nodes that were refused stay requested.  Buses are kept.
FreeResources ==
  LET freed == Allocated
      range(x) == [base |-> drv.node[x[1]][x[2]].Base,
                   len |-> drv.node[x[1]][x[2]].Length]
  IN /\ drv' = [drv EXCEPT
          !.node = [b \in Bridge |-> [t \in Type |->
                      IF <<b, t>> \in freed THEN NoNode ELSE drv.node[b][t]]],
          !.ResourceSubmited = FALSE, !.CanRestarted = TRUE]
     /\ dev' = [dev EXCEPT !.gcd = @ \ {range(x) : x \in freed},
                           !.status = "none"]
     /\ hist' = [hist EXCEPT !.stale = {}, !.starved = FALSE,
          !.asked = [b \in Bridge |-> [t \in Type |->
                       IF <<b, t>> \in freed THEN NoNode ELSE @[b][t]]]]

\* NotifyBeginEnumeration clears all nodes without freeing them; NOT_READY
\* once buses have been allocated, until FreeResources.
BeginEnumeration ==
  /\ drv.CanRestarted
  /\ drv' = [drv EXCEPT !.node = NoNodes, !.bus = [b \in Bridge |-> NoBus],
               !.ResourceSubmited = FALSE, !.CanRestarted = TRUE]
  /\ dev' = [dev EXCEPT !.status = "none"]
  /\ hist' = [hist EXCEPT !.forgot = dev.gcd, !.asked = NoNodes,
                          !.stale = {}, !.starved = FALSE]

\* BeginBusAllocation and EndResourceAllocation: no restart from here.
CannotRestart ==
  /\ drv' = [drv EXCEPT !.CanRestarted = FALSE]
  /\ UNCHANGED <<dev, hist>>

\* NotifyPhase; the phases without effect are left out.
NotifyPhase ==
  BeginEnumeration \/ CannotRestart \/ AllocateResources \/ FreeResources

\* SetBusNumbers: the range must lie in the bridge's; a length of zero
\* makes its end less than its start.  The enumerator calls it between
\* BeginBusAllocation and its requests.
SetBusNumbers(b) ==
  /\ ~drv.CanRestarted /\ ~drv.ResourceSubmited /\ drv.bus[b].Status = "None"
  /\ \E start \in {BusBase[b] - 1, BusBase[b]}, len \in {0, 2} :
       /\ start <= start + len - 1
       /\ start >= BusBase[b] /\ start + len - 1 <= BusLimit[b]
       /\ drv' = [drv EXCEPT !.bus[b] = [Status |-> "Allocated",
                                          Base |-> start, Length |-> len]]
  /\ UNCHANGED <<dev, hist>>

(* --------------------------- what it reports --------------------------- *)

\* SetResource: a descriptor for each node with a request.
SetResource(b) ==
  [t \in {u \in Type : drv.node[b][u].Status # "None"} |->
     LET n == drv.node[b][t] IN
       [min |-> n.Base, len |-> n.Length, satisfied |-> n.Status = "Allocated"]]

\* GetProposedResources allocates the descriptors and fills them in.
GetProposedResources(b) == SetResource(b)

\* What is asked for is found by the handle; any other handle is INVALID_PARAMETER.
Answer(a) ==
  /\ hist.asks < hist.max.asks /\ dev.answer = NoAnswer
  /\ hist' = [hist EXCEPT !.asks = @ + 1]
  /\ dev' = [dev EXCEPT !.answer = a] /\ UNCHANGED drv

\* StartBusEnumeration: the buses of the bridge, with an end of zero.
StartBusEnumeration(h) ==
  Answer(IF h \in Bridge
           THEN [op |-> "StartBusEnumeration", status |-> "SUCCESS", bridge |-> h,
                 min |-> BusBase[h], len |-> BusLimit[h] - BusBase[h] + 1]
           ELSE [op |-> "StartBusEnumeration", status |-> "INVALID_PARAMETER"])

\* GetAttributes: those given to the constructor, none.
GetAttributes(h) ==
  Answer([op |-> "GetAttributes",
          status |-> IF h \in Bridge THEN "SUCCESS" ELSE "INVALID_PARAMETER"])

\* PreprocessController: a known bridge, and a phase up to the collection.
PreprocessController(h, phase) ==
  Answer([op |-> "PreprocessController",
          status |-> IF h \in Bridge /\ phase <= 1 THEN "SUCCESS" ELSE "INVALID_PARAMETER"])

\* Slip: every node is told, the refused as well.
RootBridgeIoConfigurationAll(b) ==
  /\ hist.asks < hist.max.asks /\ dev.answer = NoAnswer
  /\ LET told == [t \in Type |-> [min |-> drv.node[b][t].Base, len |-> drv.node[b][t].Length]]
     IN dev' = [dev EXCEPT !.Configuration = told,
                  !.answer = [op |-> "Configuration", status |-> "SUCCESS", bridge |-> b]]
  /\ hist' = [hist EXCEPT !.asks = @ + 1] /\ UNCHANGED drv

\* RootBridgeIoConfiguration: the descriptors are one static table for all
\* bridges; a type that this bridge has not been given keeps what another,
\* or an earlier enumeration, left in it.
RootBridgeIoConfiguration(b) ==
  /\ hist.asks < hist.max.asks /\ dev.answer = NoAnswer
  /\ LET told == [t \in Type |-> IF drv.node[b][t].Status = "Allocated"
                    THEN [min |-> drv.node[b][t].Base, len |-> drv.node[b][t].Length]
                    ELSE dev.Configuration[t]]
     IN dev' = [dev EXCEPT !.Configuration = told,
                  !.answer = [op |-> "Configuration", status |-> "SUCCESS", bridge |-> b]]
  /\ hist' = [hist EXCEPT !.asks = @ + 1] /\ UNCHANGED drv

\* The caller has read the answer.
Read ==
  /\ dev.answer # NoAnswer
  /\ dev' = [dev EXCEPT !.answer = NoAnswer] /\ UNCHANGED <<drv, hist>>

Ask(h) ==
  \/ StartBusEnumeration(h) \/ GetAttributes(h)
  \/ \E phase \in 1 .. 2 : PreprocessController(h, phase)
  \/ h \in Bridge /\ RootBridgeIoConfiguration(h)

(* ---------------------------- specification ---------------------------- *)

Next ==
  \/ dev.answer = NoAnswer /\ NotifyPhase
  \/ dev.answer = NoAnswer /\ \E b \in Bridge : SubmitResources(b) \/ SetBusNumbers(b)
  \/ \E h \in Bridge \cup {0} : Ask(h)
  \/ Read

Spec == Init /\ [][Next]_vars

(* ------------------------------ properties ----------------------------- *)

Owned(b, t) ==
  LET n == drv.node[b][t] IN [base |-> n.Base, len |-> n.Length]

\* What the nodes hold is what the GCD has given to this driver, except
\* ranges a restart has forgotten (PciHostBridge.c:733): in the bridge's
\* window, aligned, and of two nodes never the same address.
NodesMatchGcd ==
  /\ dev.gcd = {Owned(x[1], x[2]) : x \in Allocated} \cup hist.forgot
  /\ \A x \in Allocated :
       LET n == drv.node[x[1]][x[2]] IN
         /\ n.Base % (n.Alignment + 1) = 0
         /\ Cells(n.Base, n.Length) \subseteq MemBase[x[1]] .. MemLimit[x[1]]
         /\ \A y \in Allocated \ {x} : Cells(n.Base, n.Length)
              \cap Cells(Owned(y[1], y[2]).base, Owned(y[1], y[2]).len) = {}

\* Positions of a bridge's nodes whose alignments do not rise.
Falling(b) ==
  \A i, j \in DOMAIN MemTypes :
    LET m == hist.asked[b][MemTypes[i]] n == hist.asked[b][MemTypes[j]] IN
      i < j /\ m.Status # "None" /\ n.Status # "None" => m.Alignment >= n.Alignment
Wanted(b) ==
  FoldLeft(LAMBDA s, t : s + hist.asked[b][t].Length, 0, MemTypes)
Room(b) == MemLimit[b] - MemBase[b] + 1

\* Requests whose alignments fall in the order of the types, and whose
\* lengths are multiples of them, are satisfied in full if they fit, for
\* every bridge.  (With rising alignments the gaps are not counted, and
\* PciHostBridge.c:626 asks the GCD for what the driver already has.)
FallingRequestsFit ==
  Allocated # {} /\ ~hist.starved /\ hist.forgot = {} =>
    \A b \in Bridge :
      /\ Falling(b) /\ Wanted(b) <= Room(b)
      /\ \A t \in Range(MemTypes) :
           LET n == hist.asked[b][t] IN
             n.Length % (n.Alignment + 1) = 0
               /\ MemBase[b] % (n.Alignment + 1) = 0
      => \A t \in Range(MemTypes) :
           hist.asked[b][t].Status # "None" /\ <<b, t>> \notin hist.stale =>
             drv.node[b][t].Status = "Allocated"

\* The bridges' requests of this round, in the order of allocation.
Order ==
  [i \in 1 .. Len(Bridges) * Len(MemTypes) |->
     <<Bridges[((i - 1) \div Len(MemTypes)) + 1],
       MemTypes[((i - 1) % Len(MemTypes)) + 1]>>]
Asked == SelectSeq(Order, LAMBDA x : hist.asked[x[1]][x[2]].Status # "None")

\* A descriptor that GetProposedResources calls satisfied is what was
\* asked for, in this round or before a refusal.  AllocateResources
\* reports an error only when a request was refused, and success only when
\* the last request of all was satisfied (:661 forgets the others).  The
\* buses told are the bridge's; a range that Configuration tells for a
\* type the bridge has is its own.  A node that was refused tells nothing,
\* so what is told otherwise was somebody's (PciRootBridgeIo.c:2302).
ProposalsAreTrue ==
  /\ dev.status \notin {"none", "SUCCESS", "NOT_READY"} =>
       \E i \in DOMAIN Asked : Asked[i] \notin Allocated
  /\ dev.status = "SUCCESS" /\ Asked # <<>> =>
       Last(Asked) \in Allocated
  /\ \A b \in Bridge : \A t \in DOMAIN GetProposedResources(b) :
       LET p == GetProposedResources(b)[t] a == hist.asked[b][t] IN
         p.satisfied => p.len = a.Length /\ a.Status # "None"
                          /\ p.min % (a.Alignment + 1) = 0
  /\ dev.answer.op = "StartBusEnumeration" /\ dev.answer.status = "SUCCESS" =>
       dev.answer.min + dev.answer.len - 1 = BusLimit[dev.answer.bridge]
  /\ dev.answer.op = "Configuration" => \A t \in Type :
       LET n == drv.node[dev.answer.bridge][t] c == dev.Configuration[t] IN
         /\ n.Status = "Allocated" => c = [min |-> n.Base, len |-> n.Length]
         /\ c # NoRange => \E b \in Bridge : Cells(c.min, c.len) \subseteq MemBase[b] .. MemLimit[b]

=============================================================================
