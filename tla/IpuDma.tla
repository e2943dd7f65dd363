-------------------------------- MODULE IpuDma --------------------------------
(***************************************************************************)
(* Device addresses of a subsystem: the DMA operations of ipu6/ipu-dma.c   *)
(* on the two-level page tables and the TLB of ipu6/ipu-mmu.c.             *)
(*                                                                         *)
(* A client is a thread with one buffer: it allocates and frees it         *)
(* (ipu_dma_alloc, ipu_dma_free) or maps and unmaps pages it has           *)
(* (ipu_dma_map_sg, ipu_dma_unmap_sg).  Only l2_map, l2_unmap and          *)
(* tlb_invalidate hold a lock, so clients, the device and its power        *)
(* transitions interleave between any two steps.  The device uses the      *)
(* addresses of complete buffers only, but remembers translations until it *)
(* is told to forget them.                                                 *)
(***************************************************************************)
EXTENDS Integers, Sequences, FiniteSets, Functions

CONSTANTS
  Client,          \* threads that have a buffer each
  Page, NoPage,    \* pages of memory; the dummy page behind unused entries
  TrashPage,       \* the page behind the trash range
  NumIova,         \* addresses of the aperture, in pages
  PerTable,        \* entries of an L2 table (ISP_L2PT_PTES)
  TrashSize,       \* pages of the trash range (IPU_MMUV2_TRASH_RANGE)
  BufPages         \* bound: the most pages of a buffer

Absent == "absent"     \* no TLB entry

ASSUME DmaAssumption ==
  /\ NoPage \notin Page /\ TrashPage \notin Page /\ NoPage # TrashPage
  /\ Absent \notin Page \cup {NoPage, TrashPage}
  /\ NumIova \in Nat \ {0} /\ PerTable \in Nat \ {0}
  /\ TrashSize \in Nat \ {0} /\ BufPages \in Nat \ {0}
  /\ Page \cap (0 .. NumIova - 1) = {}   \* "lost" has both

VARIABLES
  pc,       \* [Client -> control state]
  mem,      \* [Client -> Seq(Page)]: the pages of the buffer
  lo,       \* [Client -> Iova]: iova->pfn_lo
  at,       \* [Client -> Nat]: pages of the buffer mapped so far
  todo,     \* [Client -> Seq(Nat)]: sizes of the entries still to be mapped
  iovad,    \* addresses the iova allocator has handed out
  unused,   \* pages that belong to the system
  pci,      \* pages mapped for the PCI device
  l1,       \* [Table -> BOOLEAN]: has the L1 entry an L2 table of its own?
  pt,       \* [Iova -> page]: the L2 entries
  tlb,      \* [Iova -> page or Absent]: translations the device remembers
  ready,    \* mmu->ready
  on,       \* does the subsystem have power?
  trash,    \* addresses of the trash range, {} until the first hw_init
  lost      \* pages and addresses left behind by failed ipu_dma_map_sg calls

client == << pc, mem, lo, at, todo >>
tables == << l1, pt >>
power == << ready, on, trash >>
vars == << client, iovad, unused, pci, tables, tlb, power, lost >>

Iova == 0 .. NumIova - 1
Table(i) == i \div PerTable
TablesOf(is) == {Table(i) : i \in is}

Alloc == {"allocating", "unwinding", "allocated", "freeing", "unmapped", "returned", "flushed"}
Sg == {"mapped pci", "mapping", "failed", "mapped", "sg unmapped", "sg flushed"}
Live == {"allocated", "mapped"}

TypeOK ==
  /\ pc \in [Client -> {"idle"} \cup Alloc \cup Sg]
  /\ \A c \in Client : /\ mem[c] \in Seq(Page) /\ Len(mem[c]) <= BufPages
                       /\ at[c] \in 0 .. Len(mem[c])
                       /\ todo[c] \in Seq(1 .. BufPages)
  /\ lo \in [Client -> Iova]
  /\ iovad \subseteq Iova /\ unused \subseteq Page /\ pci \subseteq Page
  /\ l1 \in [TablesOf(Iova) -> BOOLEAN]
  /\ pt \in [Iova -> Page \cup {NoPage, TrashPage}]
  /\ tlb \in [Iova -> Page \cup {NoPage, TrashPage, Absent}]
  /\ ready \in BOOLEAN /\ on \in BOOLEAN
  /\ trash \subseteq iovad
  /\ lost \subseteq Iova \cup Page

Init ==
  /\ pc = [c \in Client |-> "idle"]
  /\ mem = [c \in Client |-> << >>] /\ todo = [c \in Client |-> << >>]
  /\ lo = [c \in Client |-> 0] /\ at = [c \in Client |-> 0]
  /\ iovad = {} /\ unused = Page /\ pci = {}
  /\ l1 = [t \in TablesOf(Iova) |-> FALSE]
  /\ pt = [i \in Iova |-> NoPage]
  /\ tlb = [i \in Iova |-> Absent]
  /\ ready = FALSE /\ on = FALSE /\ trash = {}
  /\ lost = {}

-----------------------------------------------------------------------------
(* Page tables and TLB *)

Translate(i) == IF l1[Table(i)] THEN pt[i] ELSE NoPage

\* The addresses a client has, their pages, and the pages of the first n.
IovasOf(c) == IF pc[c] \in {"idle", "mapped pci"} THEN {}
              ELSE lo[c] .. lo[c] + Len(mem[c]) - 1
PageAt(c, i) == mem[c][i - lo[c] + 1]
FirstPages(c, n) == {mem[c][k] : k \in 1 .. n}

\* Free addresses for n pages; alloc_iova() may pick any.
FreeRanges(n) == {first \in Iova : /\ first + n <= NumIova
                                   /\ first .. first + n - 1 \cap iovad = {}}

\* Pages of the system for a buffer of n.
PagesFor(n) == {s \in [1 .. n -> unused] : IsInjective(s)}

\* l2_map(): missing tables are allocated on the way.
MapRange(is, pages) ==
  /\ l1' = [t \in DOMAIN l1 |-> l1[t] \/ t \in TablesOf(is)]
  /\ pt' = [i \in Iova |-> IF i \in is THEN pages[i] ELSE pt[i]]
MapPages(c, is) == MapRange(is, [i \in is |-> PageAt(c, i)])

\* A table cannot be allocated: what was mapped before it is unmapped again.
MapRangeFails(is) ==
  \E missing \in {t \in TablesOf(is) : ~ l1[t]} :
    /\ l1' = [t \in DOMAIN l1 |-> l1[t] \/ (t \in TablesOf(is) /\ t < missing)]
    /\ pt' = [i \in Iova |-> IF i \in is /\ Table(i) < missing THEN NoPage ELSE pt[i]]

\* Mutant: the last page is forgotten.
UnmapRangeAllButLast(is) ==
  /\ pt' = [i \in Iova |-> IF i \in is /\ i + 1 \in is THEN NoPage ELSE pt[i]]
  /\ UNCHANGED l1

\* l2_unmap(): it stops at the first table that does not exist.
UnmapRange(is) ==
  /\ pt' = [i \in Iova |->
              IF i \in is /\ \A t \in TablesOf(is) : t <= Table(i) => l1[t]
              THEN NoPage ELSE pt[i]]
  /\ UNCHANGED l1

Forget == tlb' = [i \in Iova |-> Absent]

\* Mutant: the device is told only when it does not run.
InvalidateIdle == IF ready THEN UNCHANGED tlb ELSE Forget

\* tlb_invalidate(): nothing is written to a device that has no power.
Invalidate == IF ready THEN Forget ELSE UNCHANGED tlb

Goto(c, s) == pc' = [pc EXCEPT ![c] = s]

\* The client has no buffer any more.
GiveBack(c) == /\ mem' = [mem EXCEPT ![c] = << >>]
               /\ at' = [at EXCEPT ![c] = 0]
               /\ todo' = [todo EXCEPT ![c] = << >>]
               /\ lo' = [lo EXCEPT ![c] = 0]

-----------------------------------------------------------------------------
(* ipu_dma_alloc() *)

\* Addresses and pages are there; if either is not, the call leaves no trace.
AllocBegins(c) ==
  /\ pc[c] = "idle"
  /\ \E n \in 1 .. BufPages : \E first \in FreeRanges(n), s \in PagesFor(n) :
       /\ mem' = [mem EXCEPT ![c] = s]
       /\ unused' = unused \ Range(s)
       /\ lo' = [lo EXCEPT ![c] = first]
       /\ iovad' = iovad \cup (first .. first + n - 1)
  /\ Goto(c, "allocating")
  /\ UNCHANGED << at, todo, pci, tables, tlb, power, lost >>

\* One page is mapped for the PCI device and in the page tables.
AllocMaps(c) ==
  /\ pc[c] = "allocating" /\ at[c] < Len(mem[c])
  /\ MapPages(c, {lo[c] + at[c]})
  /\ pci' = pci \cup {mem[c][at[c] + 1]}
  /\ at' = [at EXCEPT ![c] = @ + 1]
  /\ UNCHANGED << pc, mem, lo, todo, iovad, unused, tlb, power, lost >>

\* The page cannot be mapped: for the PCI device, or in the page tables.
AllocMapFails(c) ==
  /\ pc[c] = "allocating" /\ at[c] < Len(mem[c])
  /\ UNCHANGED tables \/ MapRangeFails({lo[c] + at[c]})
  /\ Goto(c, "unwinding")
  /\ UNCHANGED << mem, lo, at, todo, iovad, unused, pci, tlb, power, lost >>

\* vmap() gives the buffer to the caller, or fails.
AllocEnds(c) ==
  /\ pc[c] = "allocating" /\ at[c] = Len(mem[c])
  /\ Goto(c, "allocated") \/ Goto(c, "unwinding")
  /\ UNCHANGED << mem, lo, at, todo, iovad, unused, pci, tables, tlb, power, lost >>

\* Mutant: the loop index is not decremented before the first turn.
AllocUnwindsFromLast(c) ==
  /\ pc[c] = "unwinding" /\ at[c] > 0
  /\ LET i == lo[c] + at[c] IN
       /\ pci' = IF i \in Iova THEN pci \ {Translate(i)} ELSE pci
       /\ UnmapRange({i} \cap Iova)
  /\ at' = [at EXCEPT ![c] = @ - 1]
  /\ UNCHANGED << pc, mem, lo, todo, iovad, unused, tlb, power, lost >>

\* out_unmap: page after page, the address of which the page tables tell.
AllocUnwinds(c) ==
  /\ pc[c] = "unwinding" /\ at[c] > 0
  /\ LET i == lo[c] + at[c] - 1 IN
       /\ pci' = pci \ {Translate(i)}
       /\ UnmapRange({i})
  /\ at' = [at EXCEPT ![c] = @ - 1]
  /\ UNCHANGED << pc, mem, lo, todo, iovad, unused, tlb, power, lost >>

AllocUnwound(c) ==
  /\ pc[c] = "unwinding" /\ at[c] = 0
  /\ unused' = unused \cup Range(mem[c])
  /\ iovad' = iovad \ IovasOf(c)
  /\ GiveBack(c)
  /\ Goto(c, "idle")
  /\ UNCHANGED << pci, tables, tlb, power, lost >>

-----------------------------------------------------------------------------
(* ipu_dma_free() *)

\* Every page is unmapped for the PCI device, at the address the page tables
\* have for it.
FreeBegins(c) ==
  /\ pc[c] = "allocated"
  /\ pci' = pci \ {Translate(i) : i \in IovasOf(c)}
  /\ Goto(c, "freeing")
  /\ UNCHANGED << mem, lo, at, todo, iovad, unused, tables, tlb, power, lost >>

FreeUnmaps(c) ==
  /\ pc[c] = "freeing"
  /\ UnmapRange(IovasOf(c))
  /\ Goto(c, "unmapped")
  /\ UNCHANGED << mem, lo, at, todo, iovad, unused, pci, tlb, power, lost >>

\* The pages go back to the system before the device forgets them.
FreeReturns(c) ==
  /\ pc[c] = "unmapped"
  /\ unused' = unused \cup Range(mem[c])
  /\ Goto(c, "returned")
  /\ UNCHANGED << mem, lo, at, todo, iovad, pci, tables, tlb, power, lost >>

FreeFlushes(c) ==
  /\ pc[c] = "returned"
  /\ Invalidate
  /\ Goto(c, "flushed")
  /\ UNCHANGED << mem, lo, at, todo, iovad, unused, pci, tables, power, lost >>

FreeEnds(c) ==
  /\ pc[c] = "flushed"
  /\ iovad' = iovad \ IovasOf(c)
  /\ GiveBack(c)
  /\ Goto(c, "idle")
  /\ UNCHANGED << unused, pci, tables, tlb, power, lost >>

-----------------------------------------------------------------------------
(* ipu_dma_map_sg() *)

\* Bound: one failed call leaves something behind.
MayLose == lost = {}

\* How a scatter list can split n pages into entries.
Splits(n) == {<< n >>, [k \in 1 .. n |-> 1]}

\* A client with pages of its own maps them for the PCI device.
MapSg(c) ==
  /\ pc[c] = "idle"
  /\ \E n \in 1 .. BufPages : \E s \in PagesFor(n), split \in Splits(n) :
       /\ mem' = [mem EXCEPT ![c] = s]
       /\ unused' = unused \ Range(s)
       /\ pci' = pci \cup Range(s)
       /\ todo' = [todo EXCEPT ![c] = split]
  /\ Goto(c, "mapped pci")
  /\ UNCHANGED << lo, at, iovad, tables, tlb, power, lost >>

MapSgGetsIova(c) ==
  /\ pc[c] = "mapped pci"
  /\ \E first \in FreeRanges(Len(mem[c])) :
       /\ lo' = [lo EXCEPT ![c] = first]
       /\ iovad' = iovad \cup (first .. first + Len(mem[c]) - 1)
  /\ Goto(c, "mapping")
  /\ UNCHANGED << mem, at, todo, unused, pci, tables, tlb, power, lost >>

\* No addresses: the call fails and the pages stay mapped for the PCI device.
MapSgGetsNone(c) ==
  /\ MayLose
  /\ pc[c] = "mapped pci"
  /\ unused' = unused \cup Range(mem[c])
  /\ lost' = lost \cup Range(mem[c])
  /\ GiveBack(c)
  /\ Goto(c, "idle")
  /\ UNCHANGED << iovad, pci, tables, tlb, power >>

EntryIovas(c) == lo[c] + at[c] .. lo[c] + at[c] + Head(todo[c]) - 1

MapSgMaps(c) ==
  /\ pc[c] = "mapping" /\ todo[c] # << >>
  /\ MapPages(c, EntryIovas(c))
  /\ at' = [at EXCEPT ![c] = @ + Head(todo[c])]
  /\ todo' = [todo EXCEPT ![c] = Tail(@)]
  /\ UNCHANGED << pc, mem, lo, iovad, unused, pci, tlb, power, lost >>

\* An entry cannot be mapped: it is not aligned, or there is no memory for a
\* table.  ipu_dma_unmap_sg() is called for the entries
\* before it; without any it returns at once and leaves everything behind.
MapSgFails(c) ==
  /\ MayLose
  /\ pc[c] = "mapping" /\ todo[c] # << >>
  /\ UNCHANGED tables \/ MapRangeFails(EntryIovas(c))
  /\ \/ /\ at[c] > 0
        /\ Goto(c, "failed")
        /\ UNCHANGED << mem, lo, at, unused, todo, lost >>
     \/ /\ at[c] = 0
        /\ unused' = unused \cup Range(mem[c])
        /\ lost' = lost \cup Range(mem[c]) \cup IovasOf(c)
        /\ GiveBack(c)
        /\ Goto(c, "idle")
  /\ UNCHANGED << iovad, pci, tlb, power >>

MapSgEnds(c) ==
  /\ pc[c] = "mapping" /\ todo[c] = << >>
  /\ Invalidate
  /\ Goto(c, "mapped")
  /\ UNCHANGED << mem, lo, at, todo, iovad, unused, pci, tables, power, lost >>

-----------------------------------------------------------------------------
(* ipu_dma_unmap_sg() *)

UnmapSg(c) ==
  /\ pc[c] \in {"mapped", "failed"}
  /\ UnmapRange(IovasOf(c))
  /\ Goto(c, "sg unmapped")
  /\ UNCHANGED << mem, lo, at, todo, iovad, unused, pci, tlb, power, lost >>

\* Mutant: the device is not told.
UnmapSgFlushesNothing(c) ==
  /\ pc[c] = "sg unmapped"
  /\ Goto(c, "sg flushed")
  /\ UNCHANGED << mem, lo, at, todo, iovad, unused, pci, tables, tlb, power, lost >>

UnmapSgFlushes(c) ==
  /\ pc[c] = "sg unmapped"
  /\ Invalidate
  /\ Goto(c, "sg flushed")
  /\ UNCHANGED << mem, lo, at, todo, iovad, unused, pci, tables, power, lost >>

\* dma_unmap_sg() of the entries the call was made for, the addresses are free,
\* and the caller returns the pages.
UnmapSgEnds(c) ==
  /\ pc[c] = "sg flushed"
  /\ pci' = pci \ FirstPages(c, at[c])
  /\ lost' = lost \cup (Range(mem[c]) \ FirstPages(c, at[c]))
  /\ iovad' = iovad \ IovasOf(c)
  /\ unused' = unused \cup Range(mem[c])
  /\ GiveBack(c)
  /\ Goto(c, "idle")
  /\ UNCHANGED << tables, tlb, power >>

-----------------------------------------------------------------------------
(* Power: bus_pm_runtime_resume() and bus_pm_runtime_suspend(), as far as the *)
(* MMU is concerned                                                           *)

\* ipu_mmu_hw_init() runs once there is power and maps the trash range the first
\* time.  When the time stamp counter does not start, power goes again but
\* "ready" stays.
Resume ==
  /\ ~ on
  /\ \/ /\ trash # {}
        /\ UNCHANGED << tables, iovad, trash >>
     \/ /\ trash = {}
        /\ \E first \in FreeRanges(TrashSize) :
             LET is == first .. first + TrashSize - 1 IN
               /\ MapRange(is, [i \in is |-> TrashPage])
               /\ iovad' = iovad \cup is
               /\ trash' = is
  /\ ready' = TRUE
  /\ on' \in BOOLEAN
  /\ UNCHANGED << client, unused, pci, tlb, lost >>

\* The trash range cannot be mapped.
ResumeFails ==
  /\ ~ on /\ trash = {}
  /\ \E first \in FreeRanges(TrashSize) :
       MapRangeFails(first .. first + TrashSize - 1)
  /\ UNCHANGED << client, iovad, unused, pci, tlb, power, lost >>

\* ipu_mmu_hw_cleanup()
Suspend ==
  /\ on /\ ready
  /\ ready' = FALSE
  /\ UNCHANGED << client, iovad, unused, pci, tables, tlb, on, trash, lost >>

\* Translations are lost with the power.
PowerOff ==
  /\ on /\ ~ ready
  /\ on' = FALSE
  /\ Forget
  /\ UNCHANGED << client, iovad, unused, pci, tables, ready, trash, lost >>

\* Power does not go: ipu_mmu_hw_init() runs again.  That the device forgets its
\* translations when the base of the tables is written is an assumption.
PowerOffFails ==
  /\ on /\ ~ ready
  /\ ready' = TRUE
  /\ Forget
  /\ UNCHANGED << client, iovad, unused, pci, tables, on, trash, lost >>

\* The device uses an address of a complete buffer, or of the trash range.
DeviceLooksUp(i) ==
  /\ on /\ ready
  /\ i \in trash \/ \E c \in Client : pc[c] \in Live /\ i \in IovasOf(c)
  /\ tlb[i] = Absent
  /\ tlb' = [tlb EXCEPT ![i] = Translate(i)]
  /\ UNCHANGED << client, iovad, unused, pci, tables, power, lost >>

-----------------------------------------------------------------------------
AllocStep(c) ==
  \/ AllocBegins(c) \/ AllocMaps(c) \/ AllocMapFails(c) \/ AllocEnds(c)
  \/ AllocUnwinds(c) \/ AllocUnwound(c)
  \/ FreeBegins(c) \/ FreeUnmaps(c) \/ FreeReturns(c) \/ FreeFlushes(c) \/ FreeEnds(c)

SgStep(c) ==
  \/ MapSg(c) \/ MapSgGetsIova(c) \/ MapSgGetsNone(c) \/ MapSgMaps(c) \/ MapSgFails(c)
  \/ MapSgEnds(c) \/ UnmapSg(c) \/ UnmapSgFlushes(c) \/ UnmapSgEnds(c)

Next ==
  \/ \E c \in Client : AllocStep(c) \/ SgStep(c)
  \/ Resume \/ ResumeFails \/ Suspend \/ PowerOff \/ PowerOffFails
  \/ \E i \in Iova : DeviceLooksUp(i)

Spec == Init /\ [][Next]_vars

-----------------------------------------------------------------------------
(* Properties *)

\* What the device finds at an address: what it remembers, or the page tables.
DeviceSees(i) == IF ready /\ tlb[i] # Absent THEN tlb[i] ELSE Translate(i)

\* At the addresses of a complete buffer the device reaches the pages of that
\* buffer, mapped for the PCI device, in their order: no translation of an
\* earlier buffer survives until its addresses are used again.
DeviceReachesBuffers ==
  \A c \in Client : pc[c] \in Live =>
    \A i \in IovasOf(c) : DeviceSees(i) = PageAt(c, i) /\ PageAt(c, i) \in pci

\* The page tables map an address to the page of the buffer that has it, or to
\* the trash page, and never to a page that was returned to the system, whatever
\* failed in between.
PageTablesMatchBuffers ==
  \A i \in Iova :
    \/ Translate(i) = NoPage
    \/ Translate(i) = TrashPage /\ i \in trash
    \/ /\ Translate(i) \notin unused
       /\ \E c \in Client : i \in IovasOf(c) /\ Translate(i) = PageAt(c, i)

\* The device remembers no address that the allocator may hand out again.
NoStaleTranslation == on /\ ready => \A i \in Iova \ iovad : tlb[i] = Absent

\* Addresses are taken, and unused pages mapped for the PCI device, by nobody
\* but failed calls of ipu_dma_map_sg(): every other call, ended or unwound from
\* any step, leaves nothing behind.
NothingElseLeaks ==
  /\ iovad = trash \cup (UNION {IovasOf(c) : c \in Client}) \cup (lost \cap Iova)
  /\ unused \cap pci \subseteq lost
=============================================================================
