------------------------------- MODULE MCBoot --------------------------------
(* The firmware's start and its way to the disk, in one run, each part by  *)
(* itself: `level` says which one moves.  The device tree, the C heap, the *)
(* boot manager and the memory of the board; of the newer eMMC controller  *)
(* one command, poll by poll, and the calls of its block device, whose     *)
(* commands have the outcomes that part was checked to have; the calls of  *)
(* the older one.                                                          *)
EXTENDS FdtClient, Heap, BootManager, BootMemory, SdhciCommand, MmcBlockIo, MmcLegacy

VARIABLE level
startVars == <<level, fdtVars, heapVars, bmVars, bootVars,
               sdhciCmdVars, mmcVars, legacyVars>>

-----------------------------------------------------------------------------
(* Machines: one range or two, in both orders, one to the end of the         *)
(* addresses and beyond; what must not be mapped, and what is removed, in  *)
(* the highest one; the firmware itself near the end of it.                *)
R(base, size) == [base |-> base, size |-> size]
Board(tags, cells, ranges, nomap, removed, fd) ==
  [tags |-> tags, cells |-> cells, ranges |-> ranges, nomap |-> nomap,
   removed |-> removed, fd |-> fd]
Layouts == {<<R(8, 16)>>, <<R(0, 24)>>, <<R(2, 4), R(8, 16)>>, <<R(8, 16), R(2, 4)>>,
            <<R(2, 4), R(8, 24)>>, <<R(0, 4), R(8, 28)>>}
MCMachines ==
  {Board(tags, cells, l, nomap, removed, 10) :
     tags \in BOOLEAN, cells \in {1, 2}, l \in Layouts,
     nomap \in {{}, {R(8, 2)}, {R(8, 2), R(12, 1)}},
     removed \in {<<>>, <<R(14, 2), R(18, 1)>>}}
  \cup {Board(tags, 2, <<R(2, 12)>>, {}, <<>>, fd) : tags \in BOOLEAN, fd \in {9, 10, 11, 13}}

-----------------------------------------------------------------------------
(* Trees.  P is a property, N a node.                                      *)
P(name, cells) == <<name, cells>>
N(depth, compatible, ok, props) ==
  [depth |-> depth, compatible |-> compatible, ok |-> ok, props |-> props]
Code(k) == P("linux,code", <<k>>)
Gpios(handle, g, flags) == P("gpios", <<handle, g, flags>>)
GpioKeys(ok, keys) == <<N(1, <<"gpio-keys">>, ok, {})>> \o keys
KeyNode(props) == N(2, <<>>, TRUE, props)
Disabled(node) == [node EXCEPT !.ok = FALSE]
Pon(keys) == <<N(1, <<"vendor,pon", "qcom,qpnp-power-on">>, TRUE, {})>> \o keys
Controllers ==
  <<N(1, <<"qcom,msm-gpio">>, TRUE, {P("phandle", <<1>>)}),
    N(1, <<"qcom,qpnp-pin">>, TRUE, {P("linux,phandle", <<2>>), P("phandle", <<9>>)})>>
Bus(ok, alias, base, handles) ==
  N(1, <<"qcom,i2c-msm-v2">>, ok,
    {P("alias", <<alias>>), P("reg", <<base, 1>>), P("interrupts", <<0, 95, 0>>),
     P("qcom,clk-freq-out", <<4>>), P("qcom,clk-freq-in", <<19>>),
     P("pinctrl-0", handles)})
PinGroup(handle, bias) ==
  <<N(1, <<>>, TRUE, {P("qcom,pin-func", <<3>>), P("qcom,num-grp-pins", <<2>>),
                      P("qcom,pins", <<0, 6, 0, 7>>)}),
    N(2, <<>>, TRUE, {P("phandle", <<handle>>), P("drive-strength", <<2>>)} \cup bias)>>
Root == <<N(0, <<"qcom,msm">>, TRUE, {})>>

I2cBusses == <<Bus(FALSE, 1, 11, <<5>>), Bus(TRUE, 2, 12, <<5, 8>>),
               N(1, <<"qcom,i2c-msm-v2">>, TRUE, {}), Bus(TRUE, 3, 13, <<8>>)>>
MCTrees ==
  {Root \o GpioKeys(ok, keys) \o Controllers \o Pon(pon) \o busses :
     ok \in BOOLEAN,
     keys \in {<<>>,
               <<KeyNode({Code(115), Gpios(1, 4, 0)}), KeyNode({Code(114), Gpios(2, 5, 1)})>>,
               <<KeyNode({Code(115), Gpios(9, 4, 1)}), KeyNode({Code(99), Gpios(1, 4, 1)}),
                 KeyNode({Code(115), Gpios(3, 4, 1)})>>,
               <<KeyNode({Code(115), Gpios(1, 4, 1)}), KeyNode({Code(115), Gpios(9, 262, 0)})>>,
               <<KeyNode({Code(115), Gpios(1, 4, 1)}),
                 Disabled(KeyNode({Code(114), Gpios(2, 5, 1)}))>>},
     pon \in {<<>>, <<KeyNode({Code(116), P("qcom,pon-type", <<0>>)}), KeyNode({Code(115)}),
                      KeyNode({Code(114), P("qcom,pon-type", <<1>>)})>>},
     busses \in {PinGroup(5, {}), I2cBusses \o PinGroup(5, {}),
                 I2cBusses \o PinGroup(5, {P("bias-pull-up", <<>>)})}}

MCTextModes == {<<1000>>, <<1000, 0, 3000, 2000>>, <<>>}

-----------------------------------------------------------------------------
(* Cards, and the boards and slots they are in.                            *)
Node(slot, props, pins) == [slot |-> slot, properties |-> props, pins |-> pins]
Good(slot) == Node(slot, Properties, PinGroups)

Plain ==
  [kind |-> "MMCHC", hs400_support |-> FALSE, sdr104_support |-> FALSE,
   ddr_support |-> FALSE, device_type |-> {}, drv_types |-> {0, 1},
   bus_width |-> 8, bus_width_8bit |-> TRUE, rst_n |-> FALSE,
   bus_widths |-> {1}, csd |-> [c_size |-> 4095, sec_count |-> 6],
   nodes |-> <<Good(1)>>]

MCWorlds ==
  {Plain,
   [Plain EXCEPT !.hs400_support = TRUE, !.sdr104_support = TRUE,
                 !.device_type = {"HS400", "HS200", "DDR"}, !.rst_n = TRUE],
   [Plain EXCEPT !.sdr104_support = TRUE, !.device_type = {"HS200"},
                 !.bus_width = 4],
   [Plain EXCEPT !.ddr_support = TRUE, !.device_type = {"DDR"}],
   [Plain EXCEPT !.ddr_support = TRUE, !.device_type = {"DDR"},
                 !.bus_width = 4],
   [Plain EXCEPT !.kind = "STD_MMC", !.bus_width = 1,
                 !.csd = [c_size |-> 0, c_size_mult |-> 0, read_blk_len |-> 2]],
   [Plain EXCEPT !.kind = "SDHC", !.bus_widths = {1, 4}, !.csd = [c_size |-> 0],
                 !.nodes = <<Node(3, {}, {}), Good(2)>>],
   [Plain EXCEPT !.nodes = <<Good(3), Good(1)>>],
   [Plain EXCEPT !.nodes = <<Node(2, Properties, {})>>]}

Emmc == [kind |-> "MMCHC", dm |-> "fifo", device_type |-> {}, bus_width |-> 8,
         csd |-> [c_size |-> 4095, sec_count |-> 6], erase_grp |-> 2]

MCBoards ==
  {Emmc, [Emmc EXCEPT !.dm = "adm"],
   [Emmc EXCEPT !.dm = "bam", !.device_type = {"HS200", "DDR"}],
   [Emmc EXCEPT !.device_type = {"DDR"}],
   [Emmc EXCEPT !.bus_width = 1, !.device_type = {"DDR"}],
   [Emmc EXCEPT !.bus_width = 4, !.dm = "bam"],
   [Emmc EXCEPT !.kind = "STD_MMC", !.csd = [c_size |-> 0, bytes |-> 12]],
   [Emmc EXCEPT !.kind = "SDHC", !.csd = [c_size |-> 0, bytes |-> 12]],
   [Emmc EXCEPT !.kind = "STD_SD", !.dm = "bam",
                !.csd = [c_size |-> 0, bytes |-> 12]]}

-----------------------------------------------------------------------------
(* The other levels stay where one of their initial states is.             *)
MCBootInit ==
  /\ level \in {"tree", "heap", "bds", "memory", "command", "card", "legacy"}
  /\ FdtInit /\ (level # "tree" => fdt.tree = CHOOSE t \in Trees : TRUE)
  /\ HeapInit /\ BootManagerInit
  /\ BootInit /\ (level # "memory" => board = CHOOSE b \in Machines : TRUE)
  /\ SdhciCommandInit
  /\ MmcBlockIoInit /\ (level # "card" => s.hw = Plain)
  /\ LegacyInit /\ (level # "legacy" => legacy.hw = Emmc)

start   == <<fdtVars, heapVars, bmVars, bootVars>>
storage == <<sdhciCmdVars, mmcVars, legacyVars>>
MCBootNext ==
  /\ UNCHANGED level
  /\ \/ /\ UNCHANGED storage
        /\ \/ level = "tree" /\ FdtNext /\ UNCHANGED <<heapVars, bmVars, bootVars>>
           \/ level = "heap" /\ HeapNext /\ UNCHANGED <<fdtVars, bmVars, bootVars>>
           \/ level = "bds" /\ BootManagerNext /\ UNCHANGED <<fdtVars, heapVars, bootVars>>
           \/ level = "memory" /\ BootNext /\ UNCHANGED <<fdtVars, heapVars, bmVars>>
     \/ /\ UNCHANGED start
        /\ \/ level = "command" /\ SdhciCommandNext /\ UNCHANGED <<mmcVars, legacyVars>>
           \/ level = "card" /\ MmcBlockIoNext /\ UNCHANGED <<sdhciCmdVars, legacyVars>>
           \/ level = "legacy" /\ LegacyNext /\ UNCHANGED <<sdhciCmdVars, mmcVars>>

(* Walks go on, and the driver polls; the card's controller may hang.      *)
MCBootSpec ==
  /\ MCBootInit /\ [][MCBootNext]_startVars
  /\ WF_startVars(/\ level = "tree" /\ FdtNext
                  /\ UNCHANGED <<level, heapVars, bmVars, bootVars, storage>>)
  /\ WF_startVars(/\ level = "command" /\ SdhciCommandDriver
                  /\ UNCHANGED <<level, mmcVars, legacyVars, start>>)

-----------------------------------------------------------------------------
(* Every enabled key and bus is come to: the walks of the tree end, unless *)
(* they come to a subnode that is disabled, where FindSubNode and          *)
(* FindNextSubNode turn for ever.                                          *)
TreeWalkEnds == level = "tree" ~> (fdt.string = "done" \/ AtDisabledSubnode)

(* What both stacks promise.  Data is on the bus only while the controller *)
(* and the card are set alike, with the phase that tuning should choose.   *)
DataFindsBusesAgreed == BusesAgree /\ LegacyBusesAgree /\ PhaseFromLongestRun

(* A transfer that reports success moved the blocks it was given.          *)
SuccessMeansMoved == SuccessMovesTheRange /\ LegacySuccessMovesTheRange

(* A call leaves the card and the controller as the next one expects them. *)
CardsAreLeftReady == SuccessLeavesCardReady /\ PartitionIsUser
=============================================================================
