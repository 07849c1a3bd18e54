------------------------------- MODULE DeviceTree -------------------------------
(***************************************************************************)
(* What the firmware changes in the tables it hands to an operating        *)
(* system.  Styx (FdtDxe, BdsLinuxFdt.c): the device tree of the board, or *)
(* one from a disk, is copied at ReadyToBoot and given the reserved        *)
(* memory, the cores and the state of some devices; the copy or, when that *)
(* fails, the original is installed.  D02 and D03 (UpdateFdtDxe,           *)
(* FdtUpdateLib): a copy in runtime memory is given the addresses of the   *)
(* network ports, the timer's clock and the memory.  AcpiPlatformDxe       *)
(* (EthMac.c): the network ports' addresses in the DSDT.                   *)
(* A write to a tree may fail for want of room: a fault, as any service.   *)
(***************************************************************************)
EXTENDS Integers, Sequences, FiniteSets, SequencesExt

CONSTANTS
  Boards,         \* what is there at the start, a record for each system
  MacLen,         \* bytes of an address in the DSDT
  Bounds          \* bound: faults

VARIABLES
  drv,    \* the routine at work
  dev,    \* the board, the memory that is held, the trees, what is installed
  hist    \* history

vars == <<drv, dev, hist>>

(* -------------------------------- a tree -------------------------------- *)

Top(name) == <<name, 0, 0>>
Sub(name, i) == <<name, i, 0>>
NoTree == [nodes |-> {}, props |-> {}, rsv |-> {}]
Has(t, n, p) == \E x \in t.props : x[1] = n /\ x[2] = p
Value(t, n, p) == (CHOOSE x \in t.props : x[1] = n /\ x[2] = p)[3]
DelProp(t, n, p) == [t EXCEPT !.props = {x \in @ : ~(x[1] = n /\ x[2] = p)}]
SetProp(t, n, p, v) == [DelProp(t, n, p) EXCEPT !.props = @ \cup {<<n, p, v>>}]
AddNode(t, n) == [t EXCEPT !.nodes = @ \cup {n}]
Within(name) ==
  IF name = "cpus" THEN {"cpus", "CPU", "cpu-map", "cluster", "core"} ELSE {name}
DelNode(t, name) ==
  [t EXCEPT !.nodes = {n \in @ : n[1] \notin Within(name)},
            !.props = {x \in @ : x[1][1] \notin Within(name)}]
\* The writes <<node, property, value>>, but for the k-th.
Written(t, writes, k) ==
  FoldLeft(LAMBDA to, w : SetProp(to, w[1], w[2], w[3]), t,
           IF k \in DOMAIN writes THEN RemoveAt(writes, k) ELSE writes)

(* ------------------------------- the start ------------------------------ *)

ConstantsOK == MacLen \in Nat \ {0} /\ Bounds \subseteq [faults : Nat]

Plan == dev.plan
Start == [styx |-> "boot", D02 |-> "update", D03 |-> "update", acpi |-> "dsdt"]
Init ==
  \E b \in Boards, max \in Bounds :
    /\ drv = [pc |-> Start[b.system], i |-> 0, left |-> 0, mac |-> 0, phandle |-> <<>>,
              blob |-> "orig", status |-> "SUCCESS"]
    /\ dev = [plan |-> b, tree |-> [orig |-> b.tree, new |-> NoTree, copy |-> NoTree],
              mem |-> [orig |-> "firmware", new |-> "none", copy |-> "none", map |-> "none"],
              installed |-> "none", runtime |-> FALSE, dsdt |-> <<>>]
    /\ hist = [faults |-> max.faults, lost |-> FALSE]

At(pc) == drv.pc = pc
Busy == ~At("end")
Goto(pc) == drv' = [drv EXCEPT !.pc = pc]
Tree == dev.tree.new
Put(t) == dev' = [dev EXCEPT !.tree.new = t]
\* What fails: nothing, or one of n calls.
Failing(n) == IF hist.faults = 0 THEN {0} ELSE 0 .. n
Note(k) ==
  hist' = IF k = 0 THEN hist ELSE [hist EXCEPT !.faults = @ - 1, !.lost = TRUE]

(* ------------------------- Styx: choosing a tree ------------------------ *)

\* The file on a volume goes before the tree in the firmware volumes, and
\* when it is there but cannot be loaded there is no tree.
FdtReadyToBoot ==
  /\ At("boot")
  /\ IF \/ Plan.file = "unreadable"
        \/ Plan.file = "none" /\ "good" \notin ToSet(Plan.fvs)
     THEN Goto("end") /\ UNCHANGED dev
     ELSE /\ Goto("header")
          /\ dev' = [dev EXCEPT !.mem.orig = IF Plan.file = "none" THEN "pool" ELSE "pages"]
  /\ UNCHANGED hist

\* The caller only asserts that it went well.
CheckHeader ==
  /\ At("header")
  /\ Goto(IF Plan.blob = "valid" THEN "relocate" ELSE "install")
  /\ UNCHANGED <<dev, hist>>

\* 1: no memory below the limit, 2: no memory, 3: fdt_open_into fails.
RelocateFdt ==
  /\ At("relocate")
  /\ \E k \in Failing(3) :
       /\ IF k > 1 THEN Goto("install") /\ UNCHANGED dev
          ELSE /\ Goto("chosen")
               /\ dev' = [dev EXCEPT !.mem.new = "pages", !.tree.new = dev.tree.orig]
       /\ Note(k)

(* ------------------------ Styx: chosen and memory ----------------------- *)

\* The node that is missing is added, or is not for the first failure.
Chosen ==
  /\ At("chosen")
  /\ \E k \in IF Top("chosen") \in Tree.nodes THEN {0} ELSE Failing(1) :
       /\ Goto(IF k = 1 THEN "fail" ELSE "memory")
       /\ Put(IF k = 1 THEN Tree ELSE AddNode(Tree, Top("chosen")))
       /\ Note(k)

MemoryProps ==
  <<<<Top("memory"), "name", "memory">>, <<Top("memory"), "device_type", "memory">>,
    <<Top("memory"), "reg", <<Plan.resource>>>>>>
Memory ==
  /\ At("memory")
  /\ Goto("reserve")
  /\ IF Top("memory") \in Tree.nodes THEN UNCHANGED <<dev, hist>>
     ELSE \E k \in Failing(4) :
            /\ Put(IF k = 1 THEN Tree
                   ELSE Written(AddNode(Tree, Top("memory")), MemoryProps, k - 1))
            /\ Note(k)

IsLinuxReservedRegion(type) ==
  type \in {"RuntimeServicesCode", "RuntimeServicesData", "UnusableMemory",
            "ACPIReclaimMemory", "ACPIMemoryNVS", "ReservedMemoryType"}
Reserved == SelectSeq(Plan.map, LAMBDA d : IsLinuxReservedRegion(d.type))
\* 1: no memory for the map, 2: no map, then each reservation.
Reserve ==
  /\ At("reserve")
  /\ \E k \in Failing(2 + Len(Reserved)) :
       /\ Goto(IF k = 1 THEN "fail" ELSE "pmu")
       /\ dev' = [dev EXCEPT !.mem.map = IF k = 1 THEN @ ELSE "pages",
                    !.tree.new.rsv =
                       IF k \in {1, 2} THEN @
                       ELSE {<<Reserved[i].from, Reserved[i].to>> :
                               i \in DOMAIN Reserved \ {k - 2}}]
       /\ Note(k)

(* ------------------------- Styx: cores and power ------------------------ *)

Cores == DOMAIN Plan.cores
ArmCoreCount == Len(Plan.cores)
Pmu == Top("pmu")
\* 1: no node, 2: a core has no interrupt, then each entry.
PmuNode ==
  /\ At("pmu")
  /\ \E k \in Failing(2 + ArmCoreCount) :
       /\ Goto(IF k \in {1, 2} THEN "fail" ELSE "psci")
       /\ LET bare == DelNode(Tree, "pmu")
              all == [i \in Cores |-> Plan.cores[i].spi]
          IN Put(IF k = 1 THEN bare
                 ELSE SetProp(AddNode(bare, Pmu), Pmu, "interrupts",
                              IF k > 2 THEN RemoveAt(all, k - 2) ELSE all))
       /\ Note(k)

PsciUsed == Plan.PsciOsSupport /\ Plan.TrustedFWSupport
Psci ==
  /\ At("psci")
  /\ \E k \in IF Top("psci") \notin Tree.nodes /\ PsciUsed THEN Failing(2) ELSE {0} :
       /\ Goto(IF k = 1 THEN "fail" ELSE "cpus")
       /\ Put(IF Top("psci") \in Tree.nodes
              THEN IF Plan.PsciOsSupport THEN Tree ELSE DelNode(Tree, "psci")
              ELSE IF ~PsciUsed \/ k = 1 THEN Tree
              ELSE Written(AddNode(Tree, Top("psci")), <<<<Top("psci"), "method", "smc">>>>, k - 1))
       /\ Note(k)

Cpus ==
  /\ At("cpus")
  /\ \E k \in Failing(2) :
       /\ drv' = [drv EXCEPT !.pc = IF k = 1 THEN "fail" ELSE "cpu", !.i = ArmCoreCount,
                             !.phandle = [i \in Cores |-> 0]]
       /\ LET bare == DelNode(Tree, "cpus")
          IN Put(IF k = 1 THEN bare
                 ELSE Written(AddNode(bare, Top("cpus")), <<<<Top("cpus"), "cells", 2>>>>, k - 1))
       /\ Note(k)

Phandles(t) == {x[3] : x \in {y \in t.props : y[2] \in {"phandle", "linux,phandle"}}}
fdt_alloc_phandle(t) ==
  1 + CHOOSE m \in Phandles(t) \cup {0} : \A h \in Phandles(t) : h <= m
CpuProps(i, h) ==
  LET n == Sub("CPU", i - 1) IN
  <<<<n, "phandle", h>>, <<n, "linux,phandle", h>>,
    <<n, "enable-method", IF PsciUsed THEN "psci" ELSE "spin-table">>>> \o
  (IF PsciUsed THEN <<>> ELSE <<<<n, "cpu-release-addr", Plan.cores[i].mailbox>>>>) \o
  <<<<n, "reg", <<Plan.cores[i].cluster, Plan.cores[i].core>>>>, <<n, "device_type", "cpu">>>> \o
  (IF i = Plan.primary THEN <<>> ELSE <<<<n, "status", "disabled">>>>)
\* From the last core to the first.
Cpu ==
  /\ At("cpu")
  /\ LET i == drv.i
         h == fdt_alloc_phandle(AddNode(Tree, Sub("CPU", i - 1)))
     IN \E k \in Failing(1 + Len(CpuProps(i, h))) :
          /\ drv' = [drv EXCEPT !.pc = IF k = 1 THEN "fail" ELSE IF i = 1 THEN "map" ELSE @,
                                !.i = i - 1, !.phandle[i] = h]
          /\ Put(IF k = 1 THEN Tree
                 ELSE Written(AddNode(Tree, Sub("CPU", i - 1)), CpuProps(i, h), k - 1))
          /\ Note(k)

Cluster(i) == Plan.cores[i].cluster
ClusterInRange(id, low, high) == \E i \in low .. high : Cluster(i) = id
InCluster(id) == {i \in Cores : Cluster(i) = id}
NumberOfCoresInCluster(id) == Cardinality(InCluster(id))
NumberOfClustersInTable == Cardinality({i \in Cores : ~ClusterInRange(Cluster(i), 1, i - 1)})

CpuMap ==
  /\ At("map")
  /\ \E k \in Failing(1) :
       /\ drv' = [drv EXCEPT !.pc = IF k = 1 THEN "fail" ELSE "cluster", !.i = ArmCoreCount,
                             !.left = NumberOfClustersInTable]
       /\ Put(IF k = 1 THEN Tree ELSE AddNode(Tree, Top("cpu-map")))
       /\ Note(k)

LastOf(S) == CHOOSE i \in S : \A j \in S : j <= i
\* The table's index of core c of the cluster that ends at index top.
CoreIndex(top) ==
  LET n == NumberOfCoresInCluster(Cluster(top))
      at[c \in 0 .. n - 1] ==
        IF c = n - 1 THEN top
        ELSE LastOf({j \in InCluster(Cluster(top)) : j < at[c + 1]})
  IN at
CoreNode(l, c) == <<"core", l, c>>
\* The next cluster ends at the last core of one that was not had yet.
NextCluster(top) ==
  LastOf({j \in 1 .. top - 1 : ~ClusterInRange(Cluster(j), j + 1, ArmCoreCount)})
\* 1: no cluster node, then for each core: no node, no property.
ClusterNode ==
  /\ At("cluster")
  /\ LET l == drv.left - 1
         at == CoreIndex(drv.i)
         n == Cardinality(DOMAIN at)
         bare == AddNode(Tree, Sub("cluster", l))
     IN \E k \in Failing(1 + 2 * n) :
          LET upto == IF k > 1 /\ k <= 1 + n THEN n - (k - 2) ELSE 0
              had == {c \in DOMAIN at : c >= upto}
              named == IF k > 1 + n THEN had \ {k - 2 - n} ELSE had
          IN /\ drv' = [drv EXCEPT
                          !.pc = IF k \in 1 .. 1 + n THEN "fail" ELSE IF l = 0 THEN "status" ELSE @,
                          !.left = l, !.i = IF k \notin 1 .. 1 + n /\ l > 0
                                            THEN NextCluster(@) ELSE @]
             /\ Put(IF k = 1 THEN Tree
                    ELSE [bare EXCEPT
                            !.nodes = @ \cup {CoreNode(l, c) : c \in had},
                            !.props = @ \cup {<<CoreNode(l, c), "cpu", drv.phandle[at[c]]>> :
                                                c \in named}])
             /\ Note(k)

(* ----------------------- Styx: devices and the end ---------------------- *)

\* SetDeviceStatus on what the SoC's revision and the board's build allow.
SetSocIdStatus ==
  <<<<"sata", Plan.IsRevB1 /\ Plan.sata1>>, <<"gpio2", Plan.IsRevB1>>, <<"gpio3", Plan.IsRevB1>>,
    <<"gwdt", Plan.IsRevB1>>, <<"kcs", Plan.DO_KCS /\ Plan.IsRevB1>>>>
SetXgbeStatus ==
  <<<<"xgmac0", Plan.DO_XGBE>>, <<"phy0", Plan.DO_XGBE>>,
    <<"xgmac1", Plan.DO_XGBE>>, <<"phy1", Plan.DO_XGBE>>>>
SetMacAddress ==
  IF ~Plan.DO_XGBE THEN <<>>
  ELSE SelectSeq(<<<<Top("xgmac0"), "mac-address", 1>>, <<Top("xgmac1"), "mac-address", 2>>>>,
                 LAMBDA w : w[1] \in Tree.nodes)
SetDeviceStatus(all) ==
  LET there == SelectSeq(all, LAMBDA s : Top(s[1]) \in Tree.nodes)
  IN [i \in DOMAIN there |->
        <<Top(there[i][1]), "status", IF there[i][2] THEN "ok" ELSE "disabled">>]
Statuses ==
  /\ At("status")
  /\ LET writes == SetDeviceStatus(SetSocIdStatus \o SetXgbeStatus) \o SetMacAddress
     IN \E k \in Failing(Len(writes)) :
          /\ Put(Written(Tree, writes, k))
          /\ Note(k)
  /\ Goto("finish")

\* A tree that was read from a firmware volume is in pool memory, which is
\* not freed as pages.
Freed(kind) == IF kind = "pages" THEN "none" ELSE kind
Finish ==
  /\ At("finish")
  /\ drv' = [drv EXCEPT !.pc = "install", !.blob = "new"]
  /\ dev' = [dev EXCEPT !.mem.orig = Freed(@)]
  /\ UNCHANGED hist
FailCompleteFdt ==
  /\ At("fail")
  /\ Goto("install")
  /\ dev' = [dev EXCEPT !.mem.new = Freed(@)]
  /\ UNCHANGED hist
Install ==
  /\ At("install")
  /\ Goto("end")
  /\ dev' = [dev EXCEPT !.installed = drv.blob]
  /\ UNCHANGED hist

Styx ==
  \/ FdtReadyToBoot \/ CheckHeader \/ RelocateFdt \/ Chosen \/ Memory \/ Reserve \/ PmuNode
  \/ Psci \/ Cpus \/ Cpu \/ CpuMap \/ ClusterNode \/ Statuses \/ Finish \/ FailCompleteFdt \/ Install

(* ------------------------ D02 and D03: the update ----------------------- *)

D03 == Plan.system = "D03"
\* The NVRAM's attributes, whose status is not looked at.
SetNvramSpace(k) == Plan.nvram /\ k # 1
\* 1: the GCD refuses, 2: no memory.
UpdateFdt ==
  /\ At("update")
  /\ \E k \in Failing(IF Plan.blob = "valid" THEN 2 ELSE 1) :
       /\ drv' = IF Plan.blob # "valid"
                 THEN [drv EXCEPT !.pc = "end", !.status = "INVALID_PARAMETER"]
                 ELSE IF k = 2 THEN [drv EXCEPT !.pc = "end", !.status = "OUT_OF_RESOURCES"]
                 ELSE [drv EXCEPT !.pc = "open"]
       /\ dev' = [dev EXCEPT !.runtime = SetNvramSpace(k),
                             !.mem.copy = IF k = 2 \/ Plan.blob # "valid" THEN @ ELSE "pages",
                             !.tree.copy = IF k = 2 \/ Plan.blob # "valid" THEN @ ELSE dev.tree.orig]
       /\ Note(k)

\* 1: no memory, 2: fdt_open_into fails.
Open ==
  /\ At("open")
  /\ \E k \in Failing(2) :
       /\ drv' = CASE k = 1 -> [drv EXCEPT !.pc = "drop", !.status = "OUT_OF_RESOURCES"]
                   [] k = 2 -> [drv EXCEPT !.pc = "exit", !.status = "INVALID_PARAMETER"]
                   [] OTHER -> [drv EXCEPT !.pc = IF Top("soc") \in dev.tree.copy.nodes
                                                  THEN "mac" ELSE "refclk"]
       /\ dev' = IF k = 1 THEN dev
                 ELSE [dev EXCEPT !.mem.new = "pages",
                                  !.tree.new = IF k = 2 THEN @ ELSE dev.tree.copy]
       /\ Note(k)

Ports == 0 .. Len(Plan.macs) - 1
\* The board's NIC protocol fails for 0; the address stays as it was.
GetMacAddress(port) == IF Plan.macs[port + 1] = 0 THEN drv.mac ELSE Plan.macs[port + 1]
Ethernet(port) == Sub("ethernet", port)
LocalMac == "local-mac-address"
\* 1: the property is not set again, 2: it is not deleted.
DelPhyhandleUpdateMacAddress ==
  /\ At("mac")
  /\ LET port == drv.i
         mac == GetMacAddress(port)
         doit == /\ Has(Tree, Ethernet(port), LocalMac)
                 /\ D03 => Plan.macs[port + 1] # 0
     IN \E k \in IF doit THEN Failing(1) ELSE {0} :
          /\ drv' = [drv EXCEPT !.mac = mac, !.i = port + 1,
                                !.pc = IF port + 1 \in Ports THEN @ ELSE "refclk"]
          /\ Put(IF ~doit THEN Tree
                 ELSE IF k = 1 THEN DelProp(Tree, Ethernet(port), LocalMac)
                 ELSE SetProp(Tree, Ethernet(port), LocalMac, mac))
          /\ Note(k)

\* Only D03; a failure is overwritten by what comes next.
UpdateRefClk ==
  /\ At("refclk")
  /\ LET doit == /\ D03 /\ Plan.CntFrq # 0 /\ Top("soc") \in Tree.nodes
                 /\ Has(Tree, Top("refclk"), "clock-frequency")
     IN \E k \in IF doit THEN Failing(1) ELSE {0} :
          /\ Put(IF ~doit THEN Tree
                 ELSE IF k = 1 THEN DelProp(Tree, Top("refclk"), "clock-frequency")
                 ELSE SetProp(Tree, Top("refclk"), "clock-frequency", Plan.CntFrq))
          /\ Note(k)
  /\ Goto("node")

\* Without a node D02 goes on until it cannot set its property.
GetMemoryNode ==
  /\ At("node")
  /\ \E k \in IF Top("memory") \in Tree.nodes THEN {0} ELSE Failing(1) :
       /\ drv' = [drv EXCEPT !.pc = IF k = 1 THEN "exit" ELSE "reg",
                             !.status = IF k = 0 THEN @ ELSE IF D03 THEN "NOT_FOUND"
                                                             ELSE "INVALID_PARAMETER"]
       /\ Put(IF k = 1 THEN Tree ELSE AddNode(Tree, Top("memory")))
       /\ Note(k)

IsMemMapRegion(type) ==
  type \in {"RuntimeServicesCode", "RuntimeServicesData", "ConventionalMemory",
            "ACPIReclaimMemory", "ACPIMemoryNVS", "LoaderCode", "LoaderData",
            "BootServicesCode", "BootServicesData", "PalCode"}
\* The merge of the memory that is mapped: what does not start where the last
\* one ended begins a region, from 0 at first.
Merge(got, d) ==
  IF ~IsMemMapRegion(d.type) THEN got
  ELSE IF d.from = got.last THEN [got EXCEPT !.last = d.to]
  ELSE [regs |-> Append(got.regs, <<got.start, got.last>>), start |-> d.from, last |-> d.to]
Regions ==
  LET all == FoldLeft(Merge, [regs |-> <<>>, start |-> 0, last |-> 0], Plan.map)
  IN Append(all.regs, <<all.start, all.last>>)

\* 1: no memory for the map, 2: no map, 3: no memory for the regions, 4: no
\* room in the tree.
Refusals(k) ==
  CASE k \in {1, 3} -> "OUT_OF_RESOURCES" [] k = 2 -> "ABORTED" [] k = 4 -> "INVALID_PARAMETER"
    [] OTHER -> "SUCCESS"
UpdateMemoryNode ==
  /\ At("reg")
  /\ \E k \in Failing(4) :
       /\ drv' = [drv EXCEPT !.pc = IF k = 0 THEN "copy" ELSE "exit", !.status = Refusals(k)]
       /\ Put(IF k = 0 THEN SetProp(Tree, Top("memory"), "reg", Regions) ELSE Tree)
       /\ Note(k)

CopyBack ==
  /\ At("copy")
  /\ Goto("exit")
  /\ dev' = [dev EXCEPT !.tree.copy = Tree]
  /\ UNCHANGED hist
Exit ==
  /\ At("exit")
  /\ Goto(IF drv.status = "SUCCESS" THEN "table" ELSE "drop")
  /\ dev' = [dev EXCEPT !.mem.new = Freed(@)]
  /\ UNCHANGED hist
\* InstallFdtIntoConfigurationTable: 1: no room for a table.
InstallTable ==
  /\ At("table")
  /\ \E k \in Failing(1) :
       /\ drv' = IF k = 1 THEN [drv EXCEPT !.pc = "drop", !.status = "OUT_OF_RESOURCES"]
                 ELSE [drv EXCEPT !.pc = "end"]
       /\ dev' = IF k = 1 THEN dev ELSE [dev EXCEPT !.installed = "copy"]
       /\ Note(k)
Drop ==
  /\ At("drop")
  /\ Goto("end")
  /\ dev' = [dev EXCEPT !.mem.copy = Freed(@)]
  /\ UNCHANGED hist

Hisilicon ==
  \/ UpdateFdt \/ Open \/ DelPhyhandleUpdateMacAddress \/ UpdateRefClk \/ GetMemoryNode
  \/ UpdateMemoryNode \/ CopyBack \/ Exit \/ InstallTable \/ Drop

(* ------------------------ the addresses in the DSDT --------------------- *)

EthIds == {"HISI00C1", "HISI00C2"}
Device(n) == Plan.devices[n]
\* The devices at the root or right below a scope of it.
Reached(n) == Device(n).depth <= IF Device(n).scoped THEN 2 ELSE 1
GetEthID(n) == Device(n).name \in 0 .. 9
Before(n, a, b) ==
  \E i \in DOMAIN Device(n).objects, j \in DOMAIN Device(n).objects :
    i < j /\ Device(n).objects[i] = a /\ Device(n).objects[j] = b
\* ProcessDSDTDevice: _DSD is looked at when _HID was found before it.
ProcessDSDTDevice(n) ==
  /\ Reached(n) /\ Device(n).hid \in EthIds /\ GetEthID(n) /\ Before(n, "_HID", "_DSD")
\* The search ends with the first of the properties, whatever it is.
SearchReplacePackageMACAddress(n) ==
  ProcessDSDTDevice(n) /\ Head(Device(n).properties) = LocalMac /\ Plan.macs[Device(n).name + 1] # 0

\* 1 ..: the byte that cannot be set; those before it are.
EthMacInit ==
  /\ At("dsdt")
  /\ LET n == Len(dev.dsdt) + 1
         mac == Plan.macs[Device(n).name + 1]
         sets == SearchReplacePackageMACAddress(n)
     IN \E k \in IF sets THEN Failing(MacLen) ELSE {0} :
          /\ dev' = [dev EXCEPT !.dsdt =
                       Append(@, [b \in 1 .. MacLen |-> IF sets /\ (k = 0 \/ b < k) THEN mac ELSE 0])]
          /\ Goto(IF n = Len(Plan.devices) THEN "end" ELSE "dsdt")
          /\ Note(k)

(* ------------------------------ specification --------------------------- *)

Work == Styx \/ Hisilicon \/ EthMacInit
Next == Work

Spec == Init /\ [][Next]_vars /\ WF_vars(Work)

(* ------------------------------- properties ----------------------------- *)

TypeOK ==
  /\ dev.installed \in {"none", "orig", "new", "copy"}
  /\ drv.status \in {"SUCCESS", "INVALID_PARAMETER", "OUT_OF_RESOURCES", "NOT_FOUND", "ABORTED"}
  /\ hist.faults \in Nat /\ hist.lost \in BOOLEAN

Installed == dev.tree[dev.installed]

\* A tree that is installed stays allocated, and of the others none of
\* what was taken for them is kept, whatever failed and where
\* (BdsLinuxFdt.c:742-758, UpdateFdtDxe.c:123-156).
InstalledIsAlive ==
  At("end") =>
    /\ dev.installed # "none" => dev.mem[dev.installed] # "none"
    /\ dev.installed # "new" => dev.mem.new = "none"
    /\ dev.installed # "copy" => dev.mem.copy = "none"
    /\ dev.installed = "new" => dev.mem.orig # "pages"

\* When no write was lost the cores of a tree for Styx are those of the
\* machine: each has a node, a handle that no other node has, its
\* interrupt, and a place in the map, among all of its cluster in order
\* and none of another; only the others than the one that runs are
\* disabled (BdsLinuxFdt.c:637-727).
MapOf(t, l) == {x[3] : x \in {y \in t.props : y[1][1] = "core" /\ y[1][2] = l /\ y[2] = "cpu"}}
HandleOf(t, i) == Value(t, Sub("CPU", i - 1), "phandle")
CoresDescribed ==
  dev.installed = "new" /\ ~hist.lost =>
    /\ \A i \in Cores :
         /\ Value(Installed, Sub("CPU", i - 1), "reg") = <<Cluster(i), Plan.cores[i].core>>
         /\ Has(Installed, Sub("CPU", i - 1), "status") <=> i # Plan.primary
         /\ Value(Installed, Top("pmu"), "interrupts")[i] = Plan.cores[i].spi
         /\ \A x \in Installed.props :
              x[2] = "phandle" /\ x[3] = HandleOf(Installed, i) => x[1] = Sub("CPU", i - 1)
    /\ {MapOf(Installed, n[2]) : n \in {m \in Installed.nodes : m[1] = "cluster"}}
         = {{HandleOf(Installed, i) : i \in InCluster(Cluster(j))} : j \in Cores}
    /\ \A x, y \in {z \in Installed.props : z[2] = "cpu"}, i, j \in Cores :
         x[1][2] = y[1][2] /\ x[1][3] < y[1][3] /\ x[3] = HandleOf(Installed, i)
           /\ y[3] = HandleOf(Installed, j) => i < j

\* Memory that the firmware keeps is reserved in a tree for Styx, as the
\* system would use it otherwise, and the memory told on D02 and D03 is
\* what is mapped, each part once (BdsLinuxFdt.c:525-540, D03's
\* FdtUpdateLib.c:359-391).
PagesOf(S) == UNION {r[1] .. r[2] - 1 : r \in S}
MemoryTold ==
  /\ dev.installed = "new" /\ ~hist.lost =>
       PagesOf(Installed.rsv) = PagesOf({<<d.from, d.to>> : d \in ToSet(Reserved)})
  /\ dev.installed = "copy" =>
       LET told == Value(Installed, Top("memory"), "reg")
       IN /\ PagesOf(ToSet(told))
               = PagesOf({<<d.from, d.to>> : d \in {e \in ToSet(Plan.map) : IsMemMapRegion(e.type)}})
          /\ \A i, j \in DOMAIN told : i < j => told[i][2] <= told[j][1]

\* A port's address is its own: on D03 that or what the tree had, on D02
\* that of the last port before it that has one, in the DSDT its own where
\* the table names one; and ports that can have theirs do, when no write
\* was lost (D03's FdtUpdateLib.c:152-182, D02's :122-146,
\* EthMac.c:166-195).
LastMac(port) ==
  LET had == {p \in 0 .. port : Plan.macs[p + 1] # 0}
  IN IF had = {} THEN 0 ELSE Plan.macs[LastOf(had) + 1]
MacsAreOwn ==
  /\ dev.installed = "copy" =>
       \A port \in Ports :
         LET n == Ethernet(port) IN
         /\ Has(Installed, n, LocalMac) =>
              Value(Installed, n, LocalMac)
                = IF ~D03 THEN LastMac(port)
                  ELSE IF Plan.macs[port + 1] = 0 THEN Value(dev.tree.orig, n, LocalMac)
                  ELSE Plan.macs[port + 1]
         /\ ~hist.lost => (Has(Installed, n, LocalMac) <=> Has(dev.tree.orig, n, LocalMac))
  /\ \A n \in DOMAIN dev.dsdt : \A b \in 1 .. MacLen :
       /\ dev.dsdt[n][b] \in {0, Plan.macs[Device(n).name + 1]}
       /\ ~hist.lost => dev.dsdt[n][b] = dev.dsdt[n][1]

\* What cannot be brought up to date is not installed on D02 and D03.
UpdatedOrNone ==
  At("end") /\ Plan.system \in {"D02", "D03"} =>
    (dev.installed = "copy" <=> drv.status = "SUCCESS")

\* The tree is handed over, or given up (FdtDxe.c:168-182).
Ends == Busy ~> ~Busy

=============================================================================
