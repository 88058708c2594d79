----------------------------- MODULE BootMemory ------------------------------
(***************************************************************************)
(* How the firmware finds and describes memory before the DXE core runs,   *)
(* and adds to it after: ModuleEntryPoint.S, FdtParser.c, PrePi.c,         *)
(* EFIDroidMemoryInitPeiLib.c, EFIDroidMemInfoLib.c, PlatformPeiLib.c,     *)
(* HobLib.c, HighMemDxe.c.  A region is [base, size].                      *)
(***************************************************************************)
EXTENDS Integers, Sequences, FiniteSets

CONSTANTS
  Machines,       \* [tags, cells, ranges, nomap, removed, fd]
  FdSize, UefiRegionSize, StackSize, PageSize,
  TopOfMemory,  \* the end of the addresses the processor has
  MaxAddress,   \* MAX_ADDRESS
  CellShift     \* 2^32: what a cell is worth above another one

VARIABLES phase, board,
  sys,          \* PcdSystemMemoryBase, PcdSystemMemorySize
  uefi,         \* the region for PEI's allocations, which ends in the stack
  hobs,         \* the list of hand-off blocks: [type, ...]
  mmu,          \* the table of regions, the last one that covers counting
  gcd           \* system memory the DXE core knows of
bootVars == <<phase, board, sys, uefi, hobs, mmu, gcd>>

Region(base, size) == [base |-> base, size |-> size]
End(r)        == r.base + r.size
Overlap(r, q) == r.base < End(q) /\ q.base < End(r)
Within(r, q)  == q.base <= r.base /\ End(r) <= End(q)
Nothing       == Region(0, 0)

BootInit ==
  /\ phase = "entry" /\ board \in Machines
  /\ sys = Nothing /\ uefi = Nothing /\ hobs = <<>> /\ mmu = <<>> /\ gcd = {}

-----------------------------------------------------------------------------
(* FindMemnodeFdt, FindMemnodeAtags: the highest range, from the end of    *)
(* the last region that must not be mapped.                                *)
Ranges(m) == {m.ranges[i] : i \in DOMAIN m.ranges}
HighestRange(m) == CHOOSE r \in Ranges(m) : \A q \in Ranges(m) : q.base <= r.base
HighestNoMap(m) == LET ends == {End(r) : r \in m.nomap} \cup {0}
                   IN  CHOOSE e \in ends : \A f \in ends : f <= e
FromBug(r, noMap) == r

From(r, noMap) ==
  IF r.base < noMap THEN Region(noMap, r.size - (noMap - r.base)) ELSE r

FindMemnode(m) ==
  IF m.tags THEN HighestRange(m) ELSE From(HighestRange(m), HighestNoMap(m))

ArmPlatformPeiBootAction ==
  /\ phase = "entry" /\ phase' = "stack"
  /\ sys' = FindMemnode(board)
  /\ UNCHANGED <<board, uefi, hobs, mmu, gcd>>

(* The region for UEFI and the stack ends where system memory does, unless *)
(* the firmware device is in its way: then it ends at the device's first   *)
(* byte.  Memory to the very end of the addresses loses its last page.     *)
StackTop ==
  LET last == IF End(sys) - 1 > MaxAddress THEN MaxAddress ELSE End(sys) - 1
      room == last - (board.fd + FdSize - 1)
  IN  IF room < 0 \/ room >= UefiRegionSize
      THEN IF last = MaxAddress THEN last + 1 - PageSize ELSE last + 1
      ELSE board.fd + 1

SetupStack ==
  /\ phase = "stack" /\ phase' = "memory"
  /\ uefi' = Region(StackTop - UefiRegionSize, UefiRegionSize)
  /\ UNCHANGED <<board, sys, hobs, mmu, gcd>>
Stack == Region(End(uefi) - StackSize, StackSize)
Fd    == Region(board.fd, FdSize)

(* EFIDroidGetMemoryMap.                                                   *)
Entry(r, cached) == [region |-> r, cached |-> cached]
Below == IF sys.base = 0 THEN <<>> ELSE <<Entry(Region(0, sys.base), FALSE)>>
RemovedEntries ==
  [i \in DOMAIN board.removed |-> Entry(board.removed[i], FALSE)]
MemoryMap ==
  <<Entry(sys, TRUE)>> \o Below
    \o <<Entry(Region(End(sys), TopOfMemory - End(sys)), FALSE), Entry(Fd, TRUE)>>
    \o IF board.tags THEN <<>> ELSE RemovedEntries

(* MemoryPeim: memory above MAX_ADDRESS is a resource of its own.          *)
Resource(r) == [type |-> "resource", region |-> r]
MemoryPeim ==
  /\ phase = "memory" /\ sys.size # 0
  /\ phase' = "platform"
  /\ hobs' = <<[type |-> "handoff"]>> \o
       IF End(sys) - 1 > MaxAddress
       THEN <<Resource(Region(sys.base, MaxAddress - sys.base + 1)),
              Resource(Region(MaxAddress + 1, End(sys) - MaxAddress - 1))>>
       ELSE <<Resource(sys)>>
  /\ mmu' = MemoryMap
  /\ UNCHANGED <<board, sys, uefi, gcd>>

(* PrePiMain: the stack, then PlatformPeim with the tree or, from the      *)
(* tags, a tree of its own with all ranges in two cells each.              *)
Regs == IF board.tags \/ board.cells = 2 THEN board.ranges
        ELSE LET r == board.ranges
             IN  IF Len(r) % 2 = 1 THEN <<>>   \* not a multiple of 16 bytes
                 ELSE [i \in 1..(Len(r) \div 2) |->
                         Region(r[2 * i - 1].base * CellShift + r[2 * i - 1].size,
                                r[2 * i].base * CellShift + r[2 * i].size)]
PlatformPeim ==
  /\ phase = "platform" /\ phase' = "core"
  /\ hobs' = hobs \o <<[type |-> "stack", region |-> Stack], [type |-> "cpu"]>>
               \o (IF board.tags THEN <<[type |-> "guid", name |-> "atags"]>> ELSE <<>>)
               \o <<[type |-> "guid", name |-> "fdt", reg |-> Regs], [type |-> "fv"]>>
  /\ UNCHANGED <<board, sys, uefi, mmu, gcd>>

(* The DXE core takes the resources for its memory.                        *)
DxeCore ==
  /\ phase = "core" /\ phase' = "highmem"
  /\ gcd' = {hobs[i].region : i \in {i \in DOMAIN hobs : hobs[i].type = "resource"}}
  /\ UNCHANGED <<board, sys, uefi, hobs, mmu>>

(* GetNextHob, GetNextGuidHob.                                             *)
GetNextHob(type, start) ==
  LET found == {i \in start..Len(hobs) : hobs[i].type = type}
  IN  IF found = {} THEN 0 ELSE CHOOSE i \in found : \A j \in found : i <= j
GetFirstGuidHob(name) ==
  LET next[i \in 1..(Len(hobs) + 1)] ==
        LET h == GetNextHob("guid", i)
        IN  IF h = 0 \/ hobs[h].name = name THEN h ELSE next[h + 1]
  IN  next[1]

(* InitializeHighMemDxe: every range of the tree that begins where the     *)
(* core knows of nothing; a range it has part of is refused.               *)
Refused(known, r) ==
  \/ \E q \in known : r.base \in q.base..(End(q) - 1) \/ Overlap(r, q)
  \/ End(r) > TopOfMemory
AddMemorySpace(k, r) ==
  IF Refused(k.gcd, r) THEN k
  ELSE [gcd |-> k.gcd \cup {r}, mmu |-> Append(k.mmu, Entry(r, TRUE))]
HighMem ==
  /\ phase = "highmem" /\ phase' = "up"
  /\ LET reg == hobs[GetFirstGuidHob("fdt")].reg
         known[i \in 0..Len(reg)] ==
           IF i = 0 THEN [gcd |-> gcd, mmu |-> mmu] ELSE AddMemorySpace(known[i - 1], reg[i])
     IN  gcd' = known[Len(reg)].gcd /\ mmu' = known[Len(reg)].mmu
  /\ UNCHANGED <<board, sys, uefi, hobs>>

BootNext == ArmPlatformPeiBootAction \/ SetupStack \/ MemoryPeim \/ PlatformPeim
            \/ DxeCore \/ HighMem
BootSpec == BootInit /\ [][BootNext]_bootVars

(* The boards: ranges of memory of whole pages, apart from each other; the *)
(* firmware device in one of them; the highest one, as far as the          *)
(* processor reaches it, has room beside the firmware; a tree keeps from   *)
(* being mapped, and removes, parts of that one only, and keeps nothing of *)
(* the firmware.  A second cell alone is past all addresses there are.     *)
Removed(m) == {m.removed[i] : i \in DOMAIN m.removed}
Regions == [base : Nat, size : Nat \ {0}]
LeastOf(a, b) == IF a < b THEN a ELSE b
RoomIn(r) == LeastOf(End(r), MaxAddress + 1) - r.base
ASSUME BootMemoryAssumption ==
  /\ {FdSize, UefiRegionSize, PageSize} \subseteq Nat \ {0}
  /\ {StackSize, MaxAddress, CellShift, TopOfMemory} \subseteq Nat
  /\ TopOfMemory <= PageSize * CellShift
  /\ \A m \in Machines :
       /\ m.tags \in BOOLEAN /\ m.cells \in {1, 2} /\ m.fd \in Nat
       /\ m.ranges \in Seq(Regions) \ {<<>>} /\ m.removed \in Seq(Regions)
       /\ m.nomap \subseteq Regions
       /\ \A r \in Ranges(m) : End(r) <= TopOfMemory /\ r.base % PageSize = 0
       /\ \A i, j \in DOMAIN m.ranges : i # j => ~Overlap(m.ranges[i], m.ranges[j])
       /\ \E r \in Ranges(m) : Within(Region(m.fd, FdSize), r)
       /\ RoomIn(FindMemnode(m)) >= 2 * UefiRegionSize + FdSize + PageSize
       /\ ~m.tags =>
            /\ \A r \in m.nomap \cup Removed(m) : Within(r, HighestRange(m))
            /\ \A r \in m.nomap : ~Overlap(r, Region(m.fd, FdSize))

-----------------------------------------------------------------------------
(* How an address is mapped.                                               *)
Covers(i, a) == mmu[i].region.base <= a /\ a < End(mmu[i].region)
Cached(a) ==
  LET over == {i \in DOMAIN mmu : Covers(i, a)}
  IN  over # {} /\ mmu[CHOOSE i \in over : \A j \in over : j <= i].cached

(* Where the firmware runs before there is an allocator is real memory of  *)
(* its own: nothing that must not be mapped, and of the firmware device no *)
(* more than its first byte, unless memory goes to the last address.       *)
UefiMemoryIsFree ==
  phase \notin {"entry", "stack"} =>
    /\ \E r \in Ranges(board) : Within(uefi, r)
    /\ Within(uefi, sys)
    /\ Overlap(uefi, Fd) => End(uefi) = Fd.base + 1 \/ End(sys) > MaxAddress
    /\ ~board.tags => \A n \in board.nomap : ~Overlap(uefi, n)

(* Once up, what the core may allocate is memory, each piece once, and as  *)
(* far as it is mapped it is cached unless the tree asks for it to be      *)
(* removed; what must not be mapped is not cached.                         *)
MappedForItsUse ==
  phase = "up" =>
    /\ \A r, q \in gcd : r # q => ~Overlap(r, q)
    /\ \A r \in gcd : \A a \in r.base..(End(r) - 1) :
         /\ \E q \in Ranges(board) : q.base <= a /\ a < End(q)
         /\ a <= MaxAddress =>
              (Cached(a) <=> board.tags \/ \A x \in Removed(board) : a < x.base \/ a >= End(x))
    /\ ~board.tags =>
         \A n \in board.nomap : \A a \in n.base..(End(n) - 1) : ~Cached(a)

(* From its first stack to the end the firmware uses memory as the tree    *)
(* describes it.                                                           *)
MemoryAsDescribed == UefiMemoryIsFree /\ MappedForItsUse
=============================================================================
