---------------------------- MODULE IpuDmaProofs ----------------------------
(***************************************************************************)
(* For every number of clients, addresses and pages: the page tables map an*)
(* address only to the page of the buffer that has it, the device reaches  *)
(* the pages of complete buffers and remembers no other translation once   *)
(* the address is free, and nothing leaks but what a failed                *)
(* ipu_dma_map_sg() leaves behind.                                         *)
(***************************************************************************)
EXTENDS IpuDma, TLAPS

(* What each client knows of its buffer *)

\* Control states in which the first at[c] pages are in the page tables,
Maps == {"allocating", "unwinding", "allocated", "freeing", "mapping", "failed", "mapped"}
\* and in which the pages have been returned already.
Returned == {"returned", "flushed"}
\* The pages are mapped for the PCI device, all at once.
InSg == {"mapped pci", "mapping", "failed", "mapped", "sg unmapped", "sg flushed"}

Mapped(c) == IF pc[c] \in Maps THEN at[c] ELSE 0
Held(c) == IF pc[c] \in Returned THEN {} ELSE Range(mem[c])

ClientTypes ==
  /\ pc \in [Client -> {"idle"} \cup Alloc \cup Sg]
  /\ mem \in [Client -> Seq(Page)] /\ lo \in [Client -> Iova] /\ at \in [Client -> Nat]
  /\ todo \in [Client -> Seq(1 .. BufPages)]

RestTypes ==
  /\ unused \subseteq Page /\ pci \subseteq Page
  /\ l1 \in [TablesOf(Iova) -> BOOLEAN]
  /\ pt \in [Iova -> Page \cup {NoPage, TrashPage}]
  /\ tlb \in [Iova -> Page \cup {NoPage, TrashPage, Absent}]
  /\ ready \in BOOLEAN /\ on \in BOOLEAN
  /\ trash \subseteq Iova /\ iovad \subseteq Iova /\ lost \subseteq Iova \cup Page

\* How far a scatter list is mapped: its entries are as long as what is left.
Ones(q) == \A k \in DOMAIN q : q[k] = 1
Splitting(c) ==
  \/ at[c] = 0 /\ todo[c] = << Len(mem[c]) >>
  \/ at[c] + Len(todo[c]) = Len(mem[c]) /\ Ones(todo[c])

ShapeOf(c) ==
  /\ IsInjective(mem[c]) /\ Len(mem[c]) <= BufPages /\ at[c] <= Len(mem[c])
  /\ pc[c] = "idle" => mem[c] = << >> /\ at[c] = 0
  /\ pc[c] \in Live \cup {"freeing"} => at[c] = Len(mem[c])
  /\ pc[c] \notin {"idle", "mapped pci"} => lo[c] + Len(mem[c]) <= NumIova
  /\ pc[c] = "mapped pci" => at[c] = 0
  /\ pc[c] \in {"mapped pci", "mapping"} => Splitting(c)

Shape == ClientTypes /\ RestTypes /\ \A c \in Client : ShapeOf(c)

-----------------------------------------------------------------------------
(* Facts about the operators *)

LEMMA TableOrder ==
  ASSUME NEW i \in Iova, NEW j \in Iova, i <= j
  PROVE  Table(i) \in Nat /\ Table(j) \in Nat /\ Table(i) <= Table(j)
<1>1. i \in Nat /\ j \in Nat /\ PerTable \in Nat \ {0}
  BY DmaAssumption DEF Iova
<1> QED
  BY <1>1 DEF Table

LEMMA PagesForFacts ==
  ASSUME unused \subseteq Page, NEW n \in Nat, NEW s \in PagesFor(n)
  PROVE  /\ s \in Seq(Page) /\ Len(s) = n /\ IsInjective(s)
         /\ Range(s) \subseteq unused
  BY DEF PagesFor, Range

LEMMA SplitFacts ==
  ASSUME NEW n \in 1 .. BufPages, NEW split \in Splits(n)
  PROVE  /\ split \in Seq(1 .. BufPages)
         /\ split = << n >> \/ (Len(split) = n /\ Ones(split))
<1>1. BufPages \in Nat /\ 1 \in 1 .. BufPages
  BY DmaAssumption
<1>2. CASE split = << n >>
  BY <1>2
<1>3. CASE split = [k \in 1 .. n |-> 1]
  <2>1. split \in Seq(1 .. BufPages)
    BY <1>1, <1>3
  <2>2. Len(split) = n /\ Ones(split)
    BY <1>1, <1>3 DEF Ones
  <2> QED
    BY <2>1, <2>2
<1> QED
  BY <1>2, <1>3 DEF Splits

LEMMA Interval ==
  ASSUME NEW a \in Nat, NEW n \in Nat
  PROVE  /\ \A i \in a .. a + n - 1 : i - a \in 0 .. n - 1 /\ i - a + 1 \in 1 .. n
         /\ \A m \in Nat : a + n <= m => a .. a + n - 1 \subseteq 0 .. m - 1
  OBVIOUS

LEMMA SeqFacts ==
  ASSUME NEW S, NEW q \in Seq(S)
  PROVE  Len(q) \in Nat /\ DOMAIN q = 1 .. Len(q) /\ \A k \in DOMAIN q : q[k] \in S
  OBVIOUS

LEMMA SeqParts ==
  ASSUME NEW S, NEW q \in Seq(S), q # << >>
  PROVE  /\ Len(q) \in Nat \ {0} /\ DOMAIN q = 1 .. Len(q) /\ 1 \in DOMAIN q
         /\ Head(q) = q[1] /\ Head(q) \in S
         /\ Tail(q) \in Seq(S) /\ Len(Tail(q)) = Len(q) - 1
  OBVIOUS

LEMMA FreeRangeFacts ==
  ASSUME NEW n \in Nat, NEW first \in FreeRanges(n)
  PROVE  /\ first \in Iova /\ first + n <= NumIova
         /\ first .. first + n - 1 \subseteq Iova \ iovad
<1>1. NumIova \in Nat \ {0}
  BY DmaAssumption
<1>2. /\ first \in Iova /\ first + n <= NumIova
      /\ (first .. first + n - 1) \cap iovad = {}
  BY DEF FreeRanges
<1>3. first .. first + n - 1 \subseteq Iova
  BY <1>1, <1>2, Interval DEF Iova
<1> QED
  BY <1>2, <1>3

LEMMA GivenBack ==
  ASSUME ClientTypes, NEW c \in Client, GiveBack(c), Goto(c, "idle")
  PROVE  ClientTypes' /\ ShapeOf(c)'
<1>1. 0 \in Iova /\ BufPages \in Nat
  BY DmaAssumption DEF Iova
<1>2. ClientTypes'
  BY <1>1 DEF ClientTypes, GiveBack, Goto
<1>3. mem'[c] = << >> /\ at'[c] = 0 /\ pc'[c] = "idle"
  BY DEF ClientTypes, GiveBack, Goto
<1>4. IsInjective(mem'[c]) /\ Len(mem'[c]) = 0
  BY <1>3 DEF IsInjective
<1> QED
  BY <1>1, <1>2, <1>3, <1>4 DEF ShapeOf, Live

\* A client works on its own buffer.
Same(d) == /\ pc'[d] = pc[d] /\ mem'[d] = mem[d] /\ lo'[d] = lo[d]
           /\ at'[d] = at[d] /\ todo'[d] = todo[d]

LEMMA OthersAreSame ==
  ASSUME ClientTypes, NEW c \in Client, AllocStep(c) \/ SgStep(c), NEW d \in Client \ {c}
  PROVE  Same(d)
<1> USE DEF ClientTypes, Same, Goto, GiveBack
<1>1. CASE AllocBegins(c) \/ AllocMaps(c) \/ AllocMapFails(c) \/ AllocEnds(c)
  BY <1>1 DEF AllocBegins, AllocMaps, AllocMapFails, AllocEnds
<1>2. CASE AllocUnwinds(c) \/ AllocUnwound(c) \/ FreeBegins(c) \/ FreeUnmaps(c)
  BY <1>2 DEF AllocUnwinds, AllocUnwound, FreeBegins, FreeUnmaps
<1>3. CASE FreeReturns(c) \/ FreeFlushes(c) \/ FreeEnds(c)
  BY <1>3 DEF FreeReturns, FreeFlushes, FreeEnds
<1>4. CASE MapSg(c) \/ MapSgGetsIova(c) \/ MapSgGetsNone(c) \/ MapSgMaps(c)
  BY <1>4 DEF MapSg, MapSgGetsIova, MapSgGetsNone, MapSgMaps
<1>5. CASE MapSgFails(c) \/ MapSgEnds(c)
  BY <1>5 DEF MapSgFails, MapSgEnds
<1>6. CASE UnmapSg(c) \/ UnmapSgFlushes(c) \/ UnmapSgEnds(c)
  BY <1>6 DEF UnmapSg, UnmapSgFlushes, UnmapSgEnds
<1> QED
  BY <1>1, <1>2, <1>3, <1>4, <1>5, <1>6 DEF AllocStep, SgStep

-----------------------------------------------------------------------------
(* Types, and how the fields of a buffer fit together *)

LEMMA StepShape ==
  ASSUME Shape, NEW c \in Client, AllocStep(c) \/ SgStep(c)
  PROVE  ClientTypes' /\ ShapeOf(c)'
<1>0. BufPages \in Nat \ {0} /\ NumIova \in Nat \ {0} /\ unused \subseteq Page
  BY DmaAssumption DEF Shape, RestTypes
<1>1. ClientTypes /\ ShapeOf(c)
  BY DEF Shape
<1>2. /\ mem[c] \in Seq(Page) /\ lo[c] \in Int /\ at[c] \in Nat
      /\ todo[c] \in Seq(1 .. BufPages) /\ Len(mem[c]) \in Nat
  BY <1>1 DEF ClientTypes, Iova
\* Only the control state changes.
<1>a. ASSUME NEW s \in {"idle"} \cup Alloc \cup Sg, Goto(c, s), UNCHANGED << mem, lo, at, todo >>,
             s \notin {"idle", "mapped pci", "mapping"}, pc[c] \notin {"idle", "mapped pci"},
             s \in Live \cup {"freeing"} => at[c] = Len(mem[c])
      PROVE  ClientTypes' /\ ShapeOf(c)'
  <2>1. ClientTypes' /\ pc'[c] = s
    BY <1>1, <1>a DEF ClientTypes, Goto
  <2> QED
    BY <1>1, <1>a, <2>1 DEF ShapeOf
<1>3. CASE AllocBegins(c)
  <2>0. PICK n \in 1 .. BufPages : \E first \in FreeRanges(n), s \in PagesFor(n) :
             mem' = [mem EXCEPT ![c] = s] /\ lo' = [lo EXCEPT ![c] = first]
    BY <1>3 DEF AllocBegins
  <2>1. PICK first \in FreeRanges(n), s \in PagesFor(n) :
             mem' = [mem EXCEPT ![c] = s] /\ lo' = [lo EXCEPT ![c] = first]
    BY <2>0
  <2>2. /\ s \in Seq(Page) /\ Len(s) = n /\ IsInjective(s)
        /\ first \in Iova /\ first + n <= NumIova
    BY <1>0, PagesForFacts, FreeRangeFacts
  <2>3. ClientTypes'
    BY <1>1, <1>3, <2>1, <2>2 DEF AllocBegins, ClientTypes, Goto, Alloc
  <2>4. /\ pc'[c] = "allocating" /\ mem'[c] = s /\ lo'[c] = first /\ at'[c] = 0
    BY <1>1, <1>3, <2>1 DEF AllocBegins, ClientTypes, Goto, ShapeOf
  <2> QED
    BY <1>0, <2>2, <2>3, <2>4 DEF ShapeOf, Live
<1>4. CASE AllocMaps(c) \/ AllocUnwinds(c)
  <2>1. PICK n \in Nat : at' = [at EXCEPT ![c] = n] /\ n <= Len(mem[c])
    <3>1. CASE AllocMaps(c)
      <4>1. at' = [at EXCEPT ![c] = at[c] + 1] /\ at[c] + 1 \in Nat /\ at[c] + 1 <= Len(mem[c])
        BY <1>2, <3>1 DEF AllocMaps
      <4> QED
        BY <4>1
    <3>2. CASE AllocUnwinds(c)
      <4>1. at' = [at EXCEPT ![c] = at[c] - 1] /\ at[c] - 1 \in Nat /\ at[c] - 1 <= Len(mem[c])
        BY <1>1, <1>2, <3>2 DEF AllocUnwinds, ShapeOf
      <4> QED
        BY <4>1
    <3> QED
      BY <1>4, <3>1, <3>2
  <2>2. UNCHANGED << pc, mem, lo, todo >> /\ pc[c] \in {"allocating", "unwinding"}
    BY <1>4 DEF AllocMaps, AllocUnwinds
  <2> QED
    BY <1>1, <2>1, <2>2 DEF ClientTypes, ShapeOf, Live
<1>5. CASE AllocMapFails(c) \/ AllocEnds(c)
  BY <1>a, <1>5 DEF AllocMapFails, AllocEnds, Alloc, Live
<1>6. CASE AllocUnwound(c) \/ FreeEnds(c)
  BY <1>1, <1>6, GivenBack DEF AllocUnwound, FreeEnds
<1>7. CASE FreeBegins(c) \/ FreeUnmaps(c) \/ FreeReturns(c) \/ FreeFlushes(c)
  BY <1>1, <1>a, <1>7 DEF FreeBegins, FreeUnmaps, FreeReturns, FreeFlushes, Alloc, Live, ShapeOf
<1>8. CASE MapSg(c)
  <2>0. PICK n \in 1 .. BufPages : \E s \in PagesFor(n), split \in Splits(n) :
             mem' = [mem EXCEPT ![c] = s] /\ todo' = [todo EXCEPT ![c] = split]
    BY <1>8 DEF MapSg
  <2>1. PICK s \in PagesFor(n), split \in Splits(n) :
             mem' = [mem EXCEPT ![c] = s] /\ todo' = [todo EXCEPT ![c] = split]
    BY <2>0
  <2>2. /\ s \in Seq(Page) /\ Len(s) = n /\ IsInjective(s)
        /\ split \in Seq(1 .. BufPages)
        /\ split = << n >> \/ (Len(split) = n /\ Ones(split))
    BY <1>0, PagesForFacts, SplitFacts
  <2>3. ClientTypes'
    BY <1>1, <1>8, <2>1, <2>2 DEF MapSg, ClientTypes, Goto, Sg
  <2>4. /\ pc'[c] = "mapped pci" /\ mem'[c] = s /\ todo'[c] = split /\ at'[c] = 0
    BY <1>1, <1>8, <2>1 DEF MapSg, ClientTypes, Goto, ShapeOf
  <2>5. Splitting(c)'
    <3>1. CASE split = << n >>
      BY <2>2, <2>4, <3>1 DEF Splitting
    <3>2. CASE Len(split) = n /\ Ones(split)
      <4>1. n \in Nat /\ Len(mem'[c]) = n /\ Len(todo'[c]) = n /\ at'[c] = 0
        <5>1. n \in Nat
          BY <1>0
        <5>2. Len(mem'[c]) = n
          BY <2>2, <2>4
        <5>3. Len(todo'[c]) = n
          BY <2>4, <3>2
        <5> QED
          BY <2>4, <5>1, <5>2, <5>3
      <4>2. at'[c] + Len(todo'[c]) = Len(mem'[c])
        BY <4>1
      <4>3. \A k \in DOMAIN todo'[c] : todo'[c][k] = 1
        BY <2>4, <3>2 DEF Ones
      <4> QED
        BY <4>2, <4>3 DEF Splitting, Ones
    <3> QED
      BY <2>2, <3>1, <3>2
  <2>6. n <= BufPages /\ 0 <= n
    BY <1>0
  <2> QED
    BY <2>2, <2>3, <2>4, <2>5, <2>6 DEF ShapeOf, Live
<1>9. CASE MapSgGetsIova(c)
  <2>1. PICK first \in FreeRanges(Len(mem[c])) : lo' = [lo EXCEPT ![c] = first]
    BY <1>9 DEF MapSgGetsIova
  <2>2. first \in Iova /\ first + Len(mem[c]) <= NumIova
    BY <2>1 DEF FreeRanges
  <2>3. ClientTypes' /\ pc'[c] = "mapping" /\ lo'[c] = first /\ UNCHANGED << mem, at, todo >>
    BY <1>1, <1>9, <2>1, <2>2 DEF MapSgGetsIova, ClientTypes, Goto, Sg
  <2> QED
    BY <1>1, <1>9, <2>2, <2>3 DEF MapSgGetsIova, ShapeOf, Splitting, Live
<1>10. CASE MapSgGetsNone(c)
  BY <1>1, <1>10, GivenBack DEF MapSgGetsNone
<1>11. CASE MapSgMaps(c)
  <2> DEFINE q == todo[c]
  <2>1. /\ q \in Seq(1 .. BufPages) /\ q # << >> /\ pc[c] = "mapping"
        /\ at' = [at EXCEPT ![c] = @ + Head(q)] /\ todo' = [todo EXCEPT ![c] = Tail(q)]
        /\ UNCHANGED << pc, mem, lo >>
    BY <1>1, <1>2, <1>11 DEF MapSgMaps, ClientTypes
  <2>2. /\ Len(q) \in Nat \ {0} /\ DOMAIN q = 1 .. Len(q) /\ Head(q) = q[1] /\ 1 \in DOMAIN q
        /\ Head(q) \in 1 .. BufPages
    BY <2>1, SeqParts
  <2>3. Tail(q) \in Seq(1 .. BufPages) /\ Len(Tail(q)) = Len(q) - 1
    BY <2>1, SeqParts
  <2>4. at'[c] = at[c] + Head(q) /\ todo'[c] = Tail(q)
    BY <1>1, <2>1 DEF ClientTypes
  <2>5. ClientTypes'
    BY <1>0, <1>1, <2>1, <2>3 DEF ClientTypes
  <2>6. Splitting(c)
    BY <1>1, <2>1 DEF ShapeOf
  <2>7. at'[c] + Len(Tail(q)) = Len(mem[c]) /\ Ones(Tail(q))
    <3>1. CASE at[c] = 0 /\ q = << Len(mem[c]) >>
      <4>1. Head(q) = Len(mem[c]) /\ Len(q) = 1 /\ Tail(q) = << >>
        BY <1>2, <3>1
      <4> QED
        BY <1>2, <2>4, <3>1, <4>1 DEF Ones
    <3>2. CASE at[c] + Len(q) = Len(mem[c]) /\ Ones(q)
      <4>1. Head(q) = 1
        BY <2>2, <3>2 DEF Ones
      <4>2. Ones(Tail(q))
        BY <2>1, <3>2 DEF Ones
      <4>3. at'[c] = at[c] + 1 /\ Len(Tail(q)) = Len(q) - 1
        BY <2>3, <2>4, <4>1
      <4> HIDE DEF q
      <4> QED
        BY <1>2, <2>2, <3>2, <4>2, <4>3
    <3> QED
      BY <2>6, <3>1, <3>2 DEF Splitting
  <2>8. at'[c] <= Len(mem[c])
    BY <1>2, <2>2, <2>3, <2>4, <2>7
  <2> HIDE DEF q
  <2> QED
    BY <1>1, <2>1, <2>4, <2>5, <2>7, <2>8 DEF ShapeOf, Splitting, Live
<1>12. CASE MapSgFails(c)
  <2>1. CASE Goto(c, "failed") /\ UNCHANGED << mem, lo, at, todo >>
    BY <1>a, <1>12, <2>1 DEF MapSgFails, Sg, Live
  <2>2. CASE GiveBack(c) /\ Goto(c, "idle")
    BY <1>1, <2>2, GivenBack
  <2> QED
    BY <1>12, <2>1, <2>2 DEF MapSgFails
<1>13. CASE MapSgEnds(c)
  <2>1. at[c] = Len(mem[c])
    BY <1>1, <1>2, <1>13 DEF MapSgEnds, ShapeOf, Splitting
  <2> QED
    BY <1>a, <1>13, <2>1 DEF MapSgEnds, Sg, Live
<1>14. CASE UnmapSg(c) \/ UnmapSgFlushes(c)
  BY <1>a, <1>14 DEF UnmapSg, UnmapSgFlushes, Sg, Live
<1>15. CASE UnmapSgEnds(c)
  BY <1>1, <1>15, GivenBack DEF UnmapSgEnds
<1> QED
  BY <1>3, <1>4, <1>5, <1>6, <1>7, <1>8, <1>9, <1>10, <1>11, <1>12, <1>13, <1>14, <1>15
     DEF AllocStep, SgStep

-----------------------------------------------------------------------------
(* The addresses of a buffer, and what is done to the page tables *)

LEMMA IovaFacts ==
  ASSUME Shape, NEW c \in Client
  PROVE  /\ IovasOf(c) \subseteq Iova
         /\ \A i \in IovasOf(c) :
              /\ pc[c] \notin {"idle", "mapped pci"}
              /\ i - lo[c] \in 0 .. Len(mem[c]) - 1
              /\ PageAt(c, i) \in Range(mem[c]) /\ PageAt(c, i) \in Page
         /\ at[c] \in Nat /\ lo[c] \in Nat /\ Len(mem[c]) \in Nat
<1> DEFINE n == Len(mem[c])  a == lo[c]
<1>1. /\ NumIova \in Nat \ {0} /\ mem[c] \in Seq(Page) /\ a \in Nat /\ at[c] \in Nat
      /\ pc[c] \notin {"idle", "mapped pci"} => a + n <= NumIova
  <2>1. NumIova \in Nat \ {0} /\ ClientTypes /\ ShapeOf(c)
    BY DmaAssumption DEF Shape
  <2>2. mem[c] \in Seq(Page) /\ a \in Iova /\ at[c] \in Nat
    BY <2>1 DEF ClientTypes
  <2>3. a \in Nat
    BY <2>1, <2>2 DEF Iova
  <2>4. pc[c] \notin {"idle", "mapped pci"} => a + n <= NumIova
    BY <2>1 DEF ShapeOf
  <2> QED
    BY <2>1, <2>2, <2>3, <2>4
<1>2. n \in Nat /\ DOMAIN mem[c] = 1 .. n /\ \A k \in DOMAIN mem[c] : mem[c][k] \in Page
  BY <1>1, SeqFacts
<1>3. IovasOf(c) = IF pc[c] \in {"idle", "mapped pci"} THEN {} ELSE a .. a + n - 1
  BY DEF IovasOf
<1>4. \A i : PageAt(c, i) = mem[c][i - a + 1]
  BY DEF PageAt
<1> HIDE DEF n, a
<1>5. IovasOf(c) \subseteq Iova
  BY <1>1, <1>2, <1>3, Interval DEF Iova
<1>6. ASSUME NEW i \in IovasOf(c)
      PROVE  /\ pc[c] \notin {"idle", "mapped pci"}
             /\ i - a \in 0 .. n - 1
             /\ PageAt(c, i) \in Range(mem[c]) /\ PageAt(c, i) \in Page
  <2>1. pc[c] \notin {"idle", "mapped pci"} /\ i \in a .. a + n - 1
    BY <1>3
  <2>2. i - a \in 0 .. n - 1 /\ i - a + 1 \in 1 .. n
    BY <1>1, <1>2, <2>1, Interval
  <2>3. PageAt(c, i) \in Range(mem[c]) /\ PageAt(c, i) \in Page
    BY <1>2, <1>4, <2>2 DEF Range
  <2> QED
    BY <2>1, <2>2, <2>3
<1> QED
  BY <1>1, <1>2, <1>5, <1>6 DEF n, a

LEMMA Offsets ==
  ASSUME Shape, NEW c \in Client, NEW i \in IovasOf(c)
  PROVE  i \in Nat /\ lo[c] \in Nat /\ i - lo[c] \in Nat /\ Mapped(c) \in Nat
<1> DEFINE n == Len(mem[c])  a == lo[c]
<1>1. n \in Nat /\ a \in Nat /\ i \in Iova /\ i - a \in 0 .. n - 1 /\ at[c] \in Nat
  BY IovaFacts
<1>2. Mapped(c) \in Nat
  BY <1>1 DEF Mapped
<1>3. NumIova \in Nat
  BY DmaAssumption
<1> HIDE DEF n, a
<1>4. i \in Nat /\ i - a \in Nat
  BY <1>1, <1>3 DEF Iova
<1> QED
  BY <1>1, <1>2, <1>4 DEF a

LEMMA MapPagesEffect ==
  ASSUME Shape, NEW c \in Client, NEW is, is \subseteq IovasOf(c), MapPages(c, is)
  PROVE  /\ l1' \in [TablesOf(Iova) -> BOOLEAN] /\ \A t \in TablesOf(Iova) : l1[t] => l1'[t]
         /\ pt' \in [Iova -> Page \cup {NoPage, TrashPage}]
         /\ \A i \in Iova : pt'[i] = IF i \in is THEN PageAt(c, i) ELSE pt[i]
         /\ \A i \in is : l1'[Table(i)]
<1> DEFINE pages == [i \in is |-> PageAt(c, i)]
<1>1. is \subseteq Iova /\ \A i \in is : pages[i] = PageAt(c, i) /\ pages[i] \in Page
  BY IovaFacts
<1>2. l1 \in [TablesOf(Iova) -> BOOLEAN] /\ pt \in [Iova -> Page \cup {NoPage, TrashPage}]
  BY DEF Shape, RestTypes
<1>3. /\ l1' = [t \in DOMAIN l1 |-> l1[t] \/ t \in TablesOf(is)]
      /\ pt' = [i \in Iova |-> IF i \in is THEN pages[i] ELSE pt[i]]
  BY DEF MapPages, MapRange
<1> HIDE DEF pages
<1>4. \A i \in is : Table(i) \in TablesOf(is) /\ Table(i) \in TablesOf(Iova)
  BY <1>1 DEF TablesOf
<1> QED
  BY <1>1, <1>2, <1>3, <1>4

LEMMA MapTypes ==
  ASSUME RestTypes, NEW is
  PROVE  /\ MapRangeFails(is) =>
              /\ l1' \in [TablesOf(Iova) -> BOOLEAN]
              /\ pt' \in [Iova -> Page \cup {NoPage, TrashPage}]
         /\ MapRange(is, [i \in is |-> TrashPage]) =>
              /\ l1' \in [TablesOf(Iova) -> BOOLEAN]
              /\ pt' \in [Iova -> Page \cup {NoPage, TrashPage}]
         /\ UnmapRange(is) =>
              /\ l1' \in [TablesOf(Iova) -> BOOLEAN]
              /\ pt' \in [Iova -> Page \cup {NoPage, TrashPage}]
<1> USE DEF RestTypes
<1>1. MapRangeFails(is) => /\ l1' \in [TablesOf(Iova) -> BOOLEAN]
                           /\ pt' \in [Iova -> Page \cup {NoPage, TrashPage}]
  BY DEF MapRangeFails
<1>2. MapRange(is, [i \in is |-> TrashPage]) =>
                           /\ l1' \in [TablesOf(Iova) -> BOOLEAN]
                           /\ pt' \in [Iova -> Page \cup {NoPage, TrashPage}]
  BY DEF MapRange
<1>3. UnmapRange(is) => /\ l1' \in [TablesOf(Iova) -> BOOLEAN]
                        /\ pt' \in [Iova -> Page \cup {NoPage, TrashPage}]
  BY DEF UnmapRange
<1> QED
  BY <1>1, <1>2, <1>3

\* One page of an allocation, and one entry of a scatter list, are in the buffer.
LEMMA NextPages ==
  ASSUME Shape, NEW c \in Client
  PROVE  /\ pc[c] = "allocating" /\ at[c] < Len(mem[c]) =>
              {lo[c] + at[c]} \subseteq IovasOf(c)
         /\ pc[c] = "mapping" /\ todo[c] # << >> =>
              /\ EntryIovas(c) \subseteq IovasOf(c)
              /\ Head(todo[c]) \in Nat \ {0} /\ at[c] + Head(todo[c]) <= Len(mem[c])
<1>1. at[c] \in Nat /\ lo[c] \in Nat /\ Len(mem[c]) \in Nat /\ todo[c] \in Seq(1 .. BufPages)
  BY IovaFacts DEF Shape, ClientTypes
<1>2. ASSUME pc[c] = "allocating", at[c] < Len(mem[c])
      PROVE  {lo[c] + at[c]} \subseteq IovasOf(c)
  BY <1>1, <1>2 DEF IovasOf
<1>3. ASSUME pc[c] = "mapping", todo[c] # << >>
      PROVE  /\ EntryIovas(c) \subseteq IovasOf(c)
             /\ Head(todo[c]) \in Nat \ {0} /\ at[c] + Head(todo[c]) <= Len(mem[c])
  <2>1. /\ Head(todo[c]) = todo[c][1] /\ 1 \in DOMAIN todo[c] /\ Len(todo[c]) \in Nat \ {0}
        /\ Head(todo[c]) \in 1 .. BufPages
    BY <1>1, <1>3, SeqParts
  <2>2. BufPages \in Nat
    BY DmaAssumption
  <2>3. Head(todo[c]) \in Nat \ {0}
    BY <2>1, <2>2
  <2>4. at[c] + Head(todo[c]) <= Len(mem[c])
    <3>1. CASE at[c] = 0 /\ todo[c] = << Len(mem[c]) >>
      <4>1. Head(todo[c]) = Len(mem[c])
        BY <2>1, <3>1
      <4> QED
        BY <1>1, <3>1, <4>1
    <3>2. CASE at[c] + Len(todo[c]) = Len(mem[c]) /\ Ones(todo[c])
      <4>1. Head(todo[c]) = 1
        BY <2>1, <3>2 DEF Ones
      <4> QED
        BY <1>1, <2>1, <3>2, <4>1
    <3> QED
      BY <1>3, <3>1, <3>2 DEF Shape, ShapeOf, Splitting
  <2>5. EntryIovas(c) \subseteq IovasOf(c)
    <3>1. EntryIovas(c) = lo[c] + at[c] .. lo[c] + at[c] + Head(todo[c]) - 1
      BY DEF EntryIovas
    <3>2. IovasOf(c) = lo[c] .. lo[c] + Len(mem[c]) - 1
      BY <1>3 DEF IovasOf
    <3> DEFINE l == lo[c]  a == at[c]  k == Head(todo[c])  n == Len(mem[c])
    <3>3. /\ EntryIovas(c) = l + a .. l + a + k - 1 /\ IovasOf(c) = l .. l + n - 1
          /\ l \in Nat /\ a \in Nat /\ n \in Nat /\ k \in Nat /\ a + k <= n
      BY <1>1, <2>3, <2>4, <3>1, <3>2
    <3> HIDE DEF l, a, k, n
    <3>4. l + a .. l + a + k - 1 \subseteq l .. l + n - 1
      BY <3>3
    <3> QED
      BY <3>3, <3>4
  <2> QED
    BY <2>3, <2>4, <2>5
<1> QED
  BY <1>2, <1>3

LEMMA MemFacts ==
  ASSUME Shape, NEW c \in Client
  PROVE  /\ Range(mem[c]) \subseteq Page
         /\ \A k \in 1 .. Len(mem[c]) : mem[c][k] \in Range(mem[c])
<1>1. mem[c] \in Seq(Page)
  BY DEF Shape, ClientTypes
<1>2. DOMAIN mem[c] = 1 .. Len(mem[c]) /\ \A k \in DOMAIN mem[c] : mem[c][k] \in Page
  BY <1>1, SeqFacts
<1> QED
  BY <1>2 DEF Range

LEMMA StepRest ==
  ASSUME Shape, NEW c \in Client, AllocStep(c) \/ SgStep(c) PROVE RestTypes'
<1> USE DEF tables, power
<1>1. RestTypes /\ Range(mem[c]) \subseteq Page /\ IovasOf(c) \subseteq Iova
  BY MemFacts, IovaFacts DEF Shape
<1>2. Absent \in Page \cup {NoPage, TrashPage, Absent}
  OBVIOUS
<1>3. BufPages \in Nat \ {0}
  BY DmaAssumption
<1>4. CASE AllocBegins(c)
  <2>1. PICK n \in 1 .. BufPages : \E first \in FreeRanges(n), s \in PagesFor(n) :
             unused' = unused \ Range(s) /\ iovad' = iovad \cup (first .. first + n - 1)
    BY <1>4 DEF AllocBegins
  <2>2. n \in Nat \ {0}
    BY <1>3
  <2>3. unused' \subseteq Page /\ iovad' \subseteq Iova
    BY <1>1, <2>1, <2>2, FreeRangeFacts DEF RestTypes
  <2> QED
    BY <1>1, <1>4, <2>3 DEF AllocBegins, RestTypes
<1>5. CASE AllocMaps(c)
  <2>1. /\ l1' \in [TablesOf(Iova) -> BOOLEAN]
        /\ pt' \in [Iova -> Page \cup {NoPage, TrashPage}]
    BY <1>5, NextPages, MapPagesEffect DEF AllocMaps
  <2>2. at[c] + 1 \in 1 .. Len(mem[c])
    <3>1. at[c] \in Nat /\ Len(mem[c]) \in Nat /\ at[c] < Len(mem[c])
      BY <1>5, IovaFacts DEF AllocMaps
    <3> QED
      BY <3>1
  <2>3. pci' \subseteq Page
    BY <1>1, <1>5, <2>2, MemFacts DEF AllocMaps, RestTypes
  <2> QED
    BY <1>1, <1>5, <2>1, <2>3 DEF AllocMaps, RestTypes
<1>6. CASE AllocMapFails(c) \/ MapSgFails(c)
  <2>1. /\ l1' \in [TablesOf(Iova) -> BOOLEAN]
        /\ pt' \in [Iova -> Page \cup {NoPage, TrashPage}]
    BY <1>1, <1>6, MapTypes DEF AllocMapFails, MapSgFails, RestTypes
  <2> QED
    BY <1>1, <1>6, <2>1 DEF AllocMapFails, MapSgFails, RestTypes
<1>7. CASE AllocUnwinds(c) \/ FreeUnmaps(c) \/ UnmapSg(c)
  <2>1. /\ l1' \in [TablesOf(Iova) -> BOOLEAN]
        /\ pt' \in [Iova -> Page \cup {NoPage, TrashPage}]
    BY <1>1, <1>7, MapTypes DEF AllocUnwinds, FreeUnmaps, UnmapSg
  <2> QED
    BY <1>1, <1>7, <2>1 DEF AllocUnwinds, FreeUnmaps, UnmapSg, RestTypes
<1>8. CASE AllocEnds(c) \/ AllocUnwound(c) \/ FreeBegins(c) \/ FreeReturns(c) \/ FreeEnds(c)
  BY <1>1, <1>8 DEF AllocEnds, AllocUnwound, FreeBegins, FreeReturns, FreeEnds, RestTypes
<1>9. CASE FreeFlushes(c) \/ MapSgEnds(c) \/ UnmapSgFlushes(c)
  BY <1>1, <1>9 DEF FreeFlushes, MapSgEnds, UnmapSgFlushes, Invalidate, Forget, RestTypes
<1>10. CASE MapSg(c)
  <2>1. PICK n \in 1 .. BufPages : \E s \in PagesFor(n) :
             unused' = unused \ Range(s) /\ pci' = pci \cup Range(s)
    BY <1>10 DEF MapSg
  <2>2. n \in Nat /\ unused \subseteq Page
    BY <1>1, <1>3 DEF RestTypes
  <2>3. unused' \subseteq Page /\ pci' \subseteq Page
    BY <1>1, <2>1, <2>2, PagesForFacts DEF RestTypes
  <2> QED
    BY <1>1, <1>10, <2>3 DEF MapSg, RestTypes
<1>11. CASE MapSgGetsIova(c)
  <2>1. PICK first \in FreeRanges(Len(mem[c])) :
             iovad' = iovad \cup (first .. first + Len(mem[c]) - 1)
    BY <1>11 DEF MapSgGetsIova
  <2>2. Len(mem[c]) \in Nat
    BY IovaFacts
  <2>3. iovad' \subseteq Iova
    BY <1>1, <2>1, <2>2, FreeRangeFacts DEF RestTypes
  <2> QED
    BY <1>1, <1>11, <2>3 DEF MapSgGetsIova, RestTypes
<1>12. CASE MapSgGetsNone(c) \/ UnmapSgEnds(c)
  BY <1>1, <1>12 DEF MapSgGetsNone, UnmapSgEnds, RestTypes
<1>13. CASE MapSgMaps(c)
  <2>1. /\ l1' \in [TablesOf(Iova) -> BOOLEAN]
        /\ pt' \in [Iova -> Page \cup {NoPage, TrashPage}]
    BY <1>13, NextPages, MapPagesEffect DEF MapSgMaps
  <2> QED
    BY <1>1, <1>13, <2>1 DEF MapSgMaps, RestTypes
<1> QED
  BY <1>4, <1>5, <1>6, <1>7, <1>8, <1>9, <1>10, <1>11, <1>12, <1>13 DEF AllocStep, SgStep

LEMMA NextShape == Shape /\ [Next]_vars => Shape'
<1> SUFFICES ASSUME Shape, [Next]_vars PROVE Shape'
  OBVIOUS
<1> USE DEF client, tables, power
<1>1. ASSUME NEW c \in Client, AllocStep(c) \/ SgStep(c) PROVE Shape'
  <2>1. ClientTypes' /\ ShapeOf(c)' /\ RestTypes'
    BY <1>1, StepShape, StepRest
  <2>2. \A d \in Client \ {c} : ShapeOf(d)'
    BY <1>1, OthersAreSame DEF Shape, ShapeOf, Splitting, Same
  <2> QED
    BY <2>1, <2>2 DEF Shape
<1>a. ASSUME UNCHANGED client, RestTypes' PROVE Shape'
  BY <1>a DEF Shape, ClientTypes, ShapeOf, Splitting
<1>2. RestTypes
  BY DEF Shape
<1>3. CASE Resume
  <2>1. CASE UNCHANGED << l1, pt, iovad, trash >>
    BY <1>a, <1>2, <1>3, <2>1 DEF Resume, RestTypes
  <2>2. ASSUME NEW first \in FreeRanges(TrashSize), NEW is, is = first .. first + TrashSize - 1,
               MapRange(is, [i \in is |-> TrashPage]), iovad' = iovad \cup is, trash' = is
        PROVE  Shape'
    <3>1. is \subseteq Iova
      BY <2>2, DmaAssumption, FreeRangeFacts
    <3>2. RestTypes'
      BY <1>2, <1>3, <2>2, <3>1, MapTypes DEF Resume, RestTypes
    <3> QED
      BY <1>a, <1>3, <3>2 DEF Resume
  <2> QED
    BY <1>3, <2>1, <2>2 DEF Resume
<1>4. CASE ResumeFails
  <2>1. RestTypes'
    BY <1>2, <1>4, MapTypes DEF ResumeFails, RestTypes
  <2> QED
    BY <1>a, <1>4, <2>1 DEF ResumeFails
<1>5. CASE Suspend \/ PowerOff \/ PowerOffFails
  <2>1. RestTypes'
    BY <1>2, <1>5 DEF Suspend, PowerOff, PowerOffFails, Forget, RestTypes
  <2> QED
    BY <1>a, <1>5, <2>1 DEF Suspend, PowerOff, PowerOffFails
<1>6. ASSUME NEW i \in Iova, DeviceLooksUp(i) PROVE Shape'
  <2>1. Translate(i) \in Page \cup {NoPage, TrashPage}
    BY <1>2 DEF Translate, RestTypes
  <2>2. RestTypes'
    BY <1>2, <1>6, <2>1 DEF DeviceLooksUp, RestTypes
  <2> QED
    BY <1>a, <1>6, <2>2 DEF DeviceLooksUp
<1>7. CASE UNCHANGED vars
  BY <1>7 DEF vars, Shape, ClientTypes, RestTypes, ShapeOf, Splitting
<1> QED
  BY <1>1, <1>3, <1>4, <1>5, <1>6, <1>7 DEF Next

-----------------------------------------------------------------------------
(* Who has which addresses *)

Addresses ==
  /\ \A c, d \in Client : c # d => IovasOf(c) \cap IovasOf(d) = {}
  /\ \A c \in Client : IovasOf(c) \cap trash = {} /\ IovasOf(c) \cap lost = {}
  /\ trash \cap lost = {}
  /\ iovad = trash \cup (UNION {IovasOf(c) : c \in Client}) \cup (lost \cap Iova)

KeepsIovas(c) == IovasOf(c)' = IovasOf(c) /\ iovad' = iovad /\ lost' \cap Iova = lost \cap Iova
TakesIovas(c) ==
  /\ IovasOf(c) = {} /\ IovasOf(c)' \cap iovad = {} /\ IovasOf(c)' \subseteq Iova
  /\ iovad' = iovad \cup IovasOf(c)' /\ lost' = lost
GivesIovas(c) ==
  /\ IovasOf(c)' = {} /\ iovad' = iovad \ IovasOf(c) /\ lost' \cap Iova = lost \cap Iova
LosesIovas(c) ==
  /\ IovasOf(c)' = {} /\ iovad' = iovad
  /\ lost' \cap Iova = (lost \cap Iova) \cup IovasOf(c)

LEMMA SameIovas ==
  ASSUME NEW d \in Client, Same(d)
  PROVE  /\ IovasOf(d)' = IovasOf(d) /\ Held(d)' = Held(d) /\ Mapped(d)' = Mapped(d)
         /\ \A i : PageAt(d, i)' = PageAt(d, i)
  BY DEF Same, IovasOf, Held, Mapped, PageAt

LEMMA StepIovas ==
  ASSUME Shape, NEW c \in Client, AllocStep(c) \/ SgStep(c)
  PROVE  /\ trash' = trash
         /\ KeepsIovas(c) \/ TakesIovas(c) \/ GivesIovas(c) \/ LosesIovas(c)
<1> USE DEF power
<1>0. ClientTypes /\ Iova \cap Page = {} /\ BufPages \in Nat \ {0}
  BY DmaAssumption DEF Shape, Iova
<1>a. ASSUME UNCHANGED << mem, lo, iovad, lost >>, pc[c] \notin {"idle", "mapped pci"},
             NEW s, Goto(c, s), s \notin {"idle", "mapped pci"}
      PROVE  KeepsIovas(c)
  BY <1>0, <1>a DEF KeepsIovas, IovasOf, Goto, ClientTypes
<1>b. ASSUME Goto(c, "idle") PROVE IovasOf(c)' = {}
  BY <1>0, <1>b DEF IovasOf, Goto, ClientTypes
<1>c. ASSUME UNCHANGED << pc, mem, lo, iovad, lost >> PROVE KeepsIovas(c)
  BY <1>c DEF KeepsIovas, IovasOf
<1>1. CASE AllocBegins(c)
  <2>1. PICK n \in 1 .. BufPages : \E first \in FreeRanges(n), s \in PagesFor(n) :
             /\ mem' = [mem EXCEPT ![c] = s] /\ lo' = [lo EXCEPT ![c] = first]
             /\ iovad' = iovad \cup (first .. first + n - 1)
    BY <1>1 DEF AllocBegins
  <2>2. PICK first \in FreeRanges(n), s \in PagesFor(n) :
             /\ mem' = [mem EXCEPT ![c] = s] /\ lo' = [lo EXCEPT ![c] = first]
             /\ iovad' = iovad \cup (first .. first + n - 1)
    BY <2>1
  <2>3. n \in Nat /\ unused \subseteq Page
    BY <1>0 DEF Shape, RestTypes
  <2>4. Len(s) = n /\ first .. first + n - 1 \subseteq Iova \ iovad
    BY <2>3, PagesForFacts, FreeRangeFacts
  <2>5. pc'[c] = "allocating" /\ mem'[c] = s /\ lo'[c] = first
    BY <1>0, <1>1, <2>2 DEF AllocBegins, Goto, ClientTypes
  <2>6. IovasOf(c)' = first .. first + n - 1
    BY <2>4, <2>5 DEF IovasOf
  <2>7. IovasOf(c) = {}
    BY <1>1 DEF AllocBegins, IovasOf
  <2>8. TakesIovas(c)
    BY <1>1, <2>2, <2>4, <2>6, <2>7 DEF AllocBegins, TakesIovas
  <2> QED
    BY <1>1, <2>8 DEF AllocBegins
<1>2. CASE AllocMaps(c) \/ AllocUnwinds(c)
  BY <1>2, <1>c DEF AllocMaps, AllocUnwinds
<1>3. CASE AllocMapFails(c) \/ AllocEnds(c)
  BY <1>3, <1>a DEF AllocMapFails, AllocEnds
<1>4. CASE AllocUnwound(c) \/ FreeEnds(c)
  BY <1>4, <1>b DEF AllocUnwound, FreeEnds, GivesIovas
<1>5. CASE FreeBegins(c) \/ FreeUnmaps(c) \/ FreeReturns(c) \/ FreeFlushes(c)
  BY <1>5, <1>a DEF FreeBegins, FreeUnmaps, FreeReturns, FreeFlushes
<1>6. CASE MapSg(c)
  <2>1. pc[c] = "idle" /\ pc'[c] = "mapped pci" /\ UNCHANGED << iovad, lost, trash >>
    BY <1>0, <1>6 DEF MapSg, Goto, ClientTypes
  <2> QED
    BY <2>1 DEF KeepsIovas, IovasOf
<1>7. CASE MapSgGetsIova(c)
  <2>1. PICK first \in FreeRanges(Len(mem[c])) :
             /\ lo' = [lo EXCEPT ![c] = first]
             /\ iovad' = iovad \cup (first .. first + Len(mem[c]) - 1)
    BY <1>7 DEF MapSgGetsIova
  <2>2. first .. first + Len(mem[c]) - 1 \subseteq Iova \ iovad
    BY IovaFacts, FreeRangeFacts
  <2>3. pc'[c] = "mapping" /\ mem'[c] = mem[c] /\ lo'[c] = first
    BY <1>0, <1>7, <2>1 DEF MapSgGetsIova, Goto, ClientTypes
  <2>4. IovasOf(c)' = first .. first + Len(mem[c]) - 1
    BY <2>3 DEF IovasOf
  <2>5. IovasOf(c) = {}
    BY <1>7 DEF MapSgGetsIova, IovasOf
  <2>6. TakesIovas(c)
    BY <1>7, <2>1, <2>2, <2>4, <2>5 DEF MapSgGetsIova, TakesIovas
  <2> QED
    BY <1>7, <2>6 DEF MapSgGetsIova
<1>8. CASE MapSgGetsNone(c)
  <2>1. IovasOf(c) = {} /\ IovasOf(c)' = {} /\ UNCHANGED << iovad, trash >>
    BY <1>8, <1>b DEF MapSgGetsNone, IovasOf
  <2>2. lost' \cap Iova = lost \cap Iova
    BY <1>0, <1>8, MemFacts DEF MapSgGetsNone
  <2> QED
    BY <2>1, <2>2 DEF KeepsIovas
<1>9. CASE MapSgMaps(c)
  BY <1>9, <1>c DEF MapSgMaps
<1>10. CASE MapSgFails(c)
  <2>1. CASE Goto(c, "failed") /\ UNCHANGED << mem, lo, lost >>
    BY <1>10, <1>a, <2>1 DEF MapSgFails
  <2>2. CASE Goto(c, "idle") /\ lost' = lost \cup Range(mem[c]) \cup IovasOf(c)
    <3>1. lost' \cap Iova = (lost \cap Iova) \cup IovasOf(c)
      BY <1>0, <2>2, MemFacts, IovaFacts
    <3> QED
      BY <1>10, <1>b, <2>2, <3>1 DEF MapSgFails, LosesIovas
  <2> QED
    BY <1>10, <2>1, <2>2 DEF MapSgFails
<1>11. CASE MapSgEnds(c) \/ UnmapSg(c) \/ UnmapSgFlushes(c)
  BY <1>11, <1>a DEF MapSgEnds, UnmapSg, UnmapSgFlushes
<1>12. CASE UnmapSgEnds(c)
  <2>1. lost' \cap Iova = lost \cap Iova
    BY <1>0, <1>12, MemFacts DEF UnmapSgEnds
  <2> QED
    BY <1>12, <1>b, <2>1 DEF UnmapSgEnds, GivesIovas
<1> QED
  BY <1>1, <1>2, <1>3, <1>4, <1>5, <1>6, <1>7, <1>8, <1>9, <1>10, <1>11, <1>12
     DEF AllocStep, SgStep

\* Resume is the only step that changes the trash range.
LEMMA RestKeepsClients ==
  ASSUME Resume \/ ResumeFails \/ Suspend \/ PowerOff \/ PowerOffFails
         \/ (\E i \in Iova : DeviceLooksUp(i)) \/ UNCHANGED vars
  PROVE  /\ UNCHANGED << pc, mem, lo, at, todo, unused, pci, lost >>
         /\ \A d \in Client : Same(d)
<1>1. UNCHANGED << pc, mem, lo, at, todo, unused, pci, lost >>
  BY DEF Resume, ResumeFails, Suspend, PowerOff, PowerOffFails, DeviceLooksUp, vars, client
<1> QED
  BY <1>1 DEF Same

LEMMA RestTakesTrash ==
  ASSUME Resume \/ ResumeFails \/ Suspend \/ PowerOff \/ PowerOffFails
         \/ (\E i \in Iova : DeviceLooksUp(i)) \/ UNCHANGED vars
  PROVE  \/ UNCHANGED << iovad, trash >>
         \/ /\ Resume /\ trash = {} /\ trash' \subseteq Iova \ iovad /\ iovad' = iovad \cup trash'
            /\ MapRange(trash', [i \in trash' |-> TrashPage])
<1>1. CASE Resume
  <2>1. ASSUME NEW first \in FreeRanges(TrashSize), NEW is, is = first .. first + TrashSize - 1,
               iovad' = iovad \cup is, trash' = is
        PROVE  trash' \subseteq Iova \ iovad /\ iovad' = iovad \cup trash'
    BY <2>1, DmaAssumption, FreeRangeFacts
  <2> QED
    BY <1>1, <2>1 DEF Resume
<1>2. CASE ResumeFails \/ Suspend \/ PowerOff \/ PowerOffFails
           \/ (\E i \in Iova : DeviceLooksUp(i)) \/ UNCHANGED vars
  BY <1>2 DEF ResumeFails, Suspend, PowerOff, PowerOffFails, DeviceLooksUp, vars, power
<1> QED
  BY <1>1, <1>2

LEMMA NextAddresses == Shape /\ Addresses /\ [Next]_vars => Addresses'
<1> SUFFICES ASSUME Shape, Addresses, [Next]_vars PROVE Addresses'
  OBVIOUS
<1>0. \A c \in Client : IovasOf(c) \subseteq Iova
  BY IovaFacts
<1>1. ASSUME NEW c \in Client, AllocStep(c) \/ SgStep(c) PROVE Addresses'
  <2> DEFINE I == [d \in Client |-> IovasOf(d)]  J == IovasOf(c)'
  <2>0. \A d \in Client : I[d] = IovasOf(d) /\ I[d] \subseteq Iova
    BY <1>0
  <2>1. \A d \in Client \ {c} : IovasOf(d)' = I[d]
    BY <1>1, OthersAreSame, SameIovas DEF Shape
  <2>2. IovasOf(c)' = J
    OBVIOUS
  <2>3. /\ \A d, e \in Client : d # e => I[d] \cap I[e] = {}
        /\ \A d \in Client : I[d] \cap trash = {} /\ I[d] \cap lost = {}
        /\ trash \cap lost = {}
        /\ iovad = trash \cup (UNION {I[d] : d \in Client}) \cup (lost \cap Iova)
    BY DEF Addresses
  <2>4. trash' = trash /\ trash \subseteq Iova
    BY <1>1, StepIovas DEF Shape, RestTypes
  <2>5. \/ J = I[c] /\ iovad' = iovad /\ lost' \cap Iova = lost \cap Iova
        \/ /\ I[c] = {} /\ J \cap iovad = {} /\ J \subseteq Iova
           /\ iovad' = iovad \cup J /\ lost' = lost
        \/ J = {} /\ iovad' = iovad \ I[c] /\ lost' \cap Iova = lost \cap Iova
        \/ J = {} /\ iovad' = iovad /\ lost' \cap Iova = (lost \cap Iova) \cup I[c]
    BY <1>1, <2>0, StepIovas DEF KeepsIovas, TakesIovas, GivesIovas, LosesIovas
  <2>6. \A d \in Client : IovasOf(d)' = IF d = c THEN J ELSE I[d]
    BY <2>1, <2>2
  <2> HIDE DEF I, J
  <2>7. \A d, e \in Client : d # e => IovasOf(d)' \cap IovasOf(e)' = {}
    BY <2>3, <2>5, <2>6
  <2>8. \A d \in Client : IovasOf(d)' \cap trash' = {} /\ IovasOf(d)' \cap lost' = {}
    BY <2>0, <2>3, <2>4, <2>5, <2>6
  <2>9. trash' \cap lost' = {}
    BY <2>0, <2>3, <2>4, <2>5
  <2>10. iovad' = trash' \cup (UNION {IovasOf(d)' : d \in Client}) \cup (lost' \cap Iova)
    BY <2>0, <2>3, <2>4, <2>5, <2>6
  <2> QED
    BY <2>7, <2>8, <2>9, <2>10 DEF Addresses
<1>2. CASE Resume \/ ResumeFails \/ Suspend \/ PowerOff \/ PowerOffFails
           \/ (\E i \in Iova : DeviceLooksUp(i)) \/ UNCHANGED vars
  <2>1. \A d \in Client : IovasOf(d)' = IovasOf(d)
    BY <1>2, RestKeepsClients, SameIovas
  <2>2. lost' = lost
    BY <1>2, RestKeepsClients
  <2>3. \/ UNCHANGED << iovad, trash >>
        \/ trash = {} /\ trash' \subseteq Iova \ iovad /\ iovad' = iovad \cup trash'
    BY <1>2, RestTakesTrash
  <2> QED
    BY <2>1, <2>2, <2>3 DEF Addresses
<1> QED
  BY <1>1, <1>2 DEF Next

-----------------------------------------------------------------------------
(* Who has which pages *)

Pages ==
  /\ \A c, d \in Client : c # d => Held(c) \cap Held(d) = {}
  /\ \A c \in Client : Held(c) \cap unused = {}

KeepsPages(c) == Held(c)' = Held(c) /\ unused' = unused
TakesPages(c) == Held(c)' \subseteq unused /\ unused' = unused \ Held(c)'
ReturnsPages(c) == Held(c)' = {} /\ unused' = unused \cup Held(c)

LEMMA StepPages ==
  ASSUME Shape, NEW c \in Client, AllocStep(c) \/ SgStep(c)
  PROVE  KeepsPages(c) \/ TakesPages(c) \/ ReturnsPages(c)
<1>0. ClientTypes /\ BufPages \in Nat \ {0} /\ unused \subseteq Page
  BY DmaAssumption DEF Shape, RestTypes
<1>a. ASSUME UNCHANGED << mem, unused >>, pc[c] \notin Returned, NEW s, Goto(c, s), s \notin Returned
      PROVE  KeepsPages(c)
  BY <1>0, <1>a DEF KeepsPages, Held, Goto, ClientTypes
<1>b. ASSUME GiveBack(c), Goto(c, "idle") PROVE Held(c)' = {}
  <2>1. mem'[c] = << >>
    BY <1>0, <1>b DEF GiveBack, ClientTypes
  <2> QED
    BY <2>1 DEF Held, Range
<1>c. ASSUME UNCHANGED << pc, mem, unused >> PROVE KeepsPages(c)
  BY <1>c DEF KeepsPages, Held
<1>d. ASSUME NEW n \in 1 .. BufPages, NEW s \in PagesFor(n), NEW u, u \notin Returned, Goto(c, u),
             mem' = [mem EXCEPT ![c] = s], unused' = unused \ Range(s)
      PROVE  TakesPages(c)
  <2>1. n \in Nat
    BY <1>0
  <2>2. Range(s) \subseteq unused
    BY <1>0, <2>1, PagesForFacts
  <2>3. mem'[c] = s /\ pc'[c] = u
    BY <1>0, <1>d DEF ClientTypes, Goto
  <2>4. Held(c)' = Range(s)
    BY <1>d, <2>3 DEF Held
  <2> QED
    BY <1>d, <2>2, <2>4 DEF TakesPages
<1>1. CASE AllocBegins(c)
  <2>1. PICK n \in 1 .. BufPages : \E s \in PagesFor(n) :
             mem' = [mem EXCEPT ![c] = s] /\ unused' = unused \ Range(s)
    BY <1>1 DEF AllocBegins
  <2> QED
    BY <1>1, <1>d, <2>1 DEF AllocBegins, Returned
<1>2. CASE AllocMaps(c) \/ AllocUnwinds(c)
  BY <1>2, <1>c DEF AllocMaps, AllocUnwinds
<1>3. CASE AllocMapFails(c) \/ AllocEnds(c) \/ FreeBegins(c) \/ FreeUnmaps(c)
  BY <1>3, <1>a DEF AllocMapFails, AllocEnds, FreeBegins, FreeUnmaps, Returned
<1>4. CASE AllocUnwound(c)
  <2>1. Held(c) = Range(mem[c])
    BY <1>4 DEF AllocUnwound, Held, Returned
  <2> QED
    BY <1>4, <1>b, <2>1 DEF AllocUnwound, ReturnsPages
<1>5. CASE FreeReturns(c)
  <2>1. Held(c) = Range(mem[c])
    BY <1>5 DEF FreeReturns, Held, Returned
  <2>2. Held(c)' = {}
    BY <1>0, <1>5 DEF FreeReturns, Held, Returned, Goto, ClientTypes
  <2> QED
    BY <1>5, <2>1, <2>2 DEF FreeReturns, ReturnsPages
<1>6. CASE FreeFlushes(c)
  BY <1>0, <1>6 DEF FreeFlushes, KeepsPages, Held, Returned, Goto, ClientTypes
<1>7. CASE FreeEnds(c)
  <2>1. Held(c) = {}
    BY <1>7 DEF FreeEnds, Held, Returned
  <2> QED
    BY <1>7, <1>b, <2>1 DEF FreeEnds, KeepsPages
<1>8. CASE MapSg(c)
  <2>1. PICK n \in 1 .. BufPages : \E s \in PagesFor(n) :
             mem' = [mem EXCEPT ![c] = s] /\ unused' = unused \ Range(s)
    BY <1>8 DEF MapSg
  <2> QED
    BY <1>8, <1>d, <2>1 DEF MapSg, Returned
<1>9. CASE MapSgMaps(c)
  BY <1>9, <1>c DEF MapSgMaps
<1>10. CASE MapSgGetsNone(c) \/ UnmapSgEnds(c)
  <2>1. Held(c) = Range(mem[c])
    BY <1>10 DEF MapSgGetsNone, UnmapSgEnds, Held, Returned
  <2> QED
    BY <1>10, <1>b, <2>1 DEF MapSgGetsNone, UnmapSgEnds, ReturnsPages
<1>11. CASE MapSgFails(c)
  <2>1. CASE Goto(c, "failed") /\ UNCHANGED << mem, unused >>
    BY <1>11, <1>a, <2>1 DEF MapSgFails, Returned
  <2>2. CASE Goto(c, "idle") /\ GiveBack(c) /\ unused' = unused \cup Range(mem[c])
    <3>1. Held(c) = Range(mem[c])
      BY <1>11 DEF MapSgFails, Held, Returned
    <3> QED
      BY <1>b, <2>2, <3>1 DEF ReturnsPages
  <2> QED
    BY <1>11, <2>1, <2>2 DEF MapSgFails
<1>12. CASE MapSgGetsIova(c) \/ MapSgEnds(c) \/ UnmapSg(c) \/ UnmapSgFlushes(c)
  BY <1>12, <1>a DEF MapSgGetsIova, MapSgEnds, UnmapSg, UnmapSgFlushes, Returned
<1> QED
  BY <1>1, <1>2, <1>3, <1>4, <1>5, <1>6, <1>7, <1>8, <1>9, <1>10, <1>11, <1>12
     DEF AllocStep, SgStep

LEMMA NextPagesHeld == Shape /\ Pages /\ [Next]_vars => Pages'
<1> SUFFICES ASSUME Shape, Pages, [Next]_vars PROVE Pages'
  OBVIOUS
<1>1. ASSUME NEW c \in Client, AllocStep(c) \/ SgStep(c) PROVE Pages'
  <2>1. \A d \in Client \ {c} : Held(d)' = Held(d)
    BY <1>1, OthersAreSame, SameIovas DEF Shape
  <2>2. \/ Held(c)' = Held(c) /\ unused' = unused
        \/ Held(c)' \subseteq unused /\ unused' = unused \ Held(c)'
        \/ Held(c)' = {} /\ unused' = unused \cup Held(c)
    BY <1>1, StepPages DEF KeepsPages, TakesPages, ReturnsPages
  <2>3. /\ \A d, e \in Client : d # e => Held(d) \cap Held(e) = {}
        /\ \A d \in Client : Held(d) \cap unused = {}
    BY DEF Pages
  <2>4. \A d \in Client : Held(d)' \cap unused' = {}
    <3> TAKE d \in Client
    <3>1. CASE d = c
      BY <2>2, <2>3, <3>1
    <3>2. CASE d # c
      <4>1. Held(d)' = Held(d) /\ Held(d) \cap unused = {} /\ Held(d) \cap Held(c) = {}
        BY <2>1, <2>3, <3>2
      <4> QED
        BY <2>2, <4>1
    <3> QED
      BY <3>1, <3>2
  <2>5. \A d \in Client \ {c} : Held(d)' \cap Held(c)' = {}
    <3> TAKE d \in Client \ {c}
    <3>1. Held(d)' = Held(d) /\ Held(d) \cap unused = {} /\ Held(d) \cap Held(c) = {}
      BY <2>1, <2>3
    <3> QED
      BY <2>2, <3>1
  <2>6. \A d, e \in Client : d # e => Held(d)' \cap Held(e)' = {}
    BY <2>1, <2>3, <2>5
  <2> QED
    BY <2>4, <2>6 DEF Pages
<1>2. CASE Resume \/ ResumeFails \/ Suspend \/ PowerOff \/ PowerOffFails
           \/ (\E i \in Iova : DeviceLooksUp(i)) \/ UNCHANGED vars
  <2>1. \A d \in Client : Held(d)' = Held(d)
    BY <1>2, RestKeepsClients, SameIovas
  <2>2. unused' = unused
    BY <1>2, RestKeepsClients
  <2> QED
    BY <2>1, <2>2 DEF Pages
<1> QED
  BY <1>1, <1>2 DEF Next

-----------------------------------------------------------------------------
(* What the page tables hold *)

\* An entry without a table is unused, so that Translate(i) = pt[i].
Backed == \A i \in Iova : ~ l1[Table(i)] => pt[i] = NoPage

\* The first pages of a buffer are mapped at its addresses.
MapsFirst(c) == \A i \in IovasOf(c) :
  pt[i] = IF i - lo[c] < Mapped(c) THEN PageAt(c, i) ELSE NoPage

Tables ==
  /\ Backed
  /\ \A i \in trash : pt[i] = TrashPage
  /\ \A c \in Client : MapsFirst(c)
  /\ \A i \in Iova \ trash : (\A c \in Client : i \notin IovasOf(c)) => pt[i] = NoPage

LEMMA TranslateIsEntry ==
  ASSUME Backed, NEW i \in Iova PROVE Translate(i) = pt[i]
  BY DEF Backed, Translate

\* Nothing is mapped, so nothing is to be unmapped.
LEMMA MapFailsEffect ==
  ASSUME RestTypes, NEW is, is \subseteq Iova, \A i \in is : pt[i] = NoPage, MapRangeFails(is)
  PROVE  pt' = pt /\ \A i \in Iova : l1[Table(i)] => l1'[Table(i)]
<1>1. PICK missing \in {t \in TablesOf(is) : ~ l1[t]} :
        /\ l1' = [t \in DOMAIN l1 |-> l1[t] \/ (t \in TablesOf(is) /\ t < missing)]
        /\ pt' = [i \in Iova |-> IF i \in is /\ Table(i) < missing THEN NoPage ELSE pt[i]]
  BY DEF MapRangeFails
<1>2. pt \in [Iova -> Page \cup {NoPage, TrashPage}] /\ DOMAIN l1 = TablesOf(Iova)
  BY DEF RestTypes
<1>3. pt' = pt
  BY <1>1, <1>2
<1>4. \A i \in Iova : Table(i) \in DOMAIN l1
  BY <1>2 DEF TablesOf
<1> QED
  BY <1>1, <1>3, <1>4

LEMMA UnmapEffect ==
  ASSUME Shape, Tables, NEW c \in Client, pc[c] \in Maps, UnmapRange(IovasOf(c))
  PROVE  /\ l1' = l1 /\ \A i \in IovasOf(c) : pt'[i] = NoPage
         /\ \A i \in Iova \ IovasOf(c) : pt'[i] = pt[i]
<1>1. /\ l1' = l1
      /\ pt' = [i \in Iova |->
                  IF i \in IovasOf(c) /\ \A t \in TablesOf(IovasOf(c)) : t <= Table(i) => l1[t]
                  THEN NoPage ELSE pt[i]]
  BY DEF UnmapRange
<1>2. IovasOf(c) \subseteq Iova
  BY IovaFacts
<1>3. ASSUME NEW i \in IovasOf(c), pt[i] # NoPage, NEW t \in TablesOf(IovasOf(c)), t <= Table(i)
      PROVE  l1[t]
  <2>1. PICK j \in IovasOf(c) : t = Table(j)
    BY DEF TablesOf
  <2>2. i - lo[c] < Mapped(c) /\ l1[Table(i)]
    BY <1>2, <1>3 DEF Tables, Backed, MapsFirst
  <2>3. i \in Int /\ j \in Int /\ lo[c] \in Int /\ Mapped(c) \in Int
    BY Offsets
  <2>4. CASE j <= i
    <3>1. j - lo[c] < Mapped(c)
      BY <2>2, <2>3, <2>4
    <3>2. pt[j] \in Page
      BY <3>1, IovaFacts DEF Tables, MapsFirst
    <3> QED
      BY <1>2, <2>1, <3>2, DmaAssumption DEF Tables, Backed
  <2>5. CASE i <= j
    <3>1. Table(i) <= Table(j) /\ Table(i) \in Nat /\ Table(j) \in Nat
      BY <1>2, <2>5, TableOrder
    <3>2. Table(i) = t
      BY <1>3, <2>1, <3>1
    <3> QED
      BY <2>2, <3>2
  <2> QED
    BY <2>3, <2>4, <2>5
<1> QED
  BY <1>1, <1>2, <1>3

LEMMA UnmapOneEffect ==
  ASSUME Backed, NEW i \in Iova, UnmapRange({i})
  PROVE  /\ l1' = l1 /\ pt'[i] = NoPage
         /\ \A j \in Iova \ {i} : pt'[j] = pt[j]
<1>1. /\ l1' = l1
      /\ pt' = [j \in Iova |-> IF j \in {i} /\ \A t \in TablesOf({i}) : t <= Table(j) => l1[t]
                               THEN NoPage ELSE pt[j]]
  BY DEF UnmapRange
<1>2. TablesOf({i}) = {Table(i)}
  BY DEF TablesOf
<1> QED
  BY <1>1, <1>2 DEF Backed

\* What a step of c does to the page tables, and to its part of them.
TablesKept(c) ==
  /\ \A i \in Iova : l1[Table(i)] => l1'[Table(i)]
  /\ \A i \in Iova \ IovasOf(c) : pt'[i] = pt[i]
  /\ \A i \in IovasOf(c) : ~ l1'[Table(i)] => pt'[i] = NoPage
OwnTables(c) ==
  /\ \A i \in IovasOf(c)' : pt'[i] = IF i - lo'[c] < Mapped(c)' THEN PageAt(c, i)' ELSE NoPage
  /\ \A i \in IovasOf(c) : i \notin IovasOf(c)' => pt'[i] = NoPage

\* Addresses that are not handed out have no entry.
LEMMA FreshIsUnmapped ==
  ASSUME Shape, Addresses, Tables, NEW i \in Iova, i \notin iovad PROVE pt[i] = NoPage
  BY DEF Addresses, Tables

LEMMA StepTables ==
  ASSUME Shape, Addresses, Tables, NEW c \in Client, AllocStep(c) \/ SgStep(c)
  PROVE  TablesKept(c) /\ OwnTables(c)
<1> USE DEF tables
<1>0. /\ ClientTypes /\ Backed /\ MapsFirst(c) /\ RestTypes /\ IovasOf(c) \subseteq Iova
      /\ BufPages \in Nat \ {0} /\ NoPage \notin Page
  BY DmaAssumption, IovaFacts DEF Shape, Tables
<1>1. at[c] \in Nat /\ lo[c] \in Nat /\ Len(mem[c]) \in Nat /\ Mapped(c) \in Nat
  BY IovaFacts DEF Mapped
<1>2. \A i \in IovasOf(c) : i \in Nat
  BY <1>0 DEF Iova
\* The tables stay as they are, and so does what the control state says of them.
<1>a. ASSUME pt' = pt, \A i \in Iova : l1[Table(i)] => l1'[Table(i)],
             UNCHANGED << mem, lo >>, NEW s, Goto(c, s), Mapped(c)' = Mapped(c),
             pc[c] \notin {"idle", "mapped pci"}, s \notin {"idle", "mapped pci"}
      PROVE  TablesKept(c) /\ OwnTables(c)
  <2>1. IovasOf(c)' = IovasOf(c) /\ \A i : PageAt(c, i)' = PageAt(c, i)
    BY <1>0, <1>a DEF IovasOf, PageAt, Goto, ClientTypes
  <2> QED
    BY <1>0, <1>a, <2>1 DEF TablesKept, OwnTables, MapsFirst, Backed
<1>b. ASSUME UNCHANGED tables, IovasOf(c)' = {}, Mapped(c) = 0
      PROVE  TablesKept(c) /\ OwnTables(c)
  <2>1. \A i \in IovasOf(c) : ~ (i - lo[c] < 0)
    BY Offsets
  <2>2. \A i \in IovasOf(c) : pt[i] = NoPage
    BY <1>0, <1>b, <2>1 DEF MapsFirst
  <2> QED
    BY <1>0, <1>b, <2>2 DEF TablesKept, OwnTables, Backed
<1>c. ASSUME UNCHANGED tables, IovasOf(c) = {}, IovasOf(c)' \cap iovad = {},
             IovasOf(c)' \subseteq Iova, Mapped(c)' = 0, lo'[c] \in Nat
      PROVE  TablesKept(c) /\ OwnTables(c)
  <2>1. \A i \in IovasOf(c)' : pt[i] = NoPage
    BY <1>c, FreshIsUnmapped
  <2>2. \A i \in IovasOf(c)' : ~ (i - lo'[c] < Mapped(c)')
    <3>1. \A i \in IovasOf(c)' : i \in Nat /\ i >= lo'[c]
      <4>1. \A i \in IovasOf(c)' : i \in lo'[c] .. lo'[c] + Len(mem'[c]) - 1
        BY DEF IovasOf
      <4>2. mem'[c] \in Seq(Page)
        BY StepShape DEF ClientTypes
      <4>3. Len(mem'[c]) \in Nat
        BY <4>2, SeqFacts
      <4> QED
        BY <1>c, <4>1, <4>3
    <3> QED
      BY <1>c, <3>1
  <2> QED
    BY <1>c, <2>1, <2>2 DEF TablesKept, OwnTables
<1>d. ASSUME Goto(c, "idle") PROVE IovasOf(c)' = {}
  BY <1>0, <1>d DEF IovasOf, Goto, ClientTypes
<1>3. CASE AllocBegins(c) \/ MapSgGetsIova(c)
  <2>1. UNCHANGED tables /\ pc[c] \in {"idle", "mapped pci"} /\ UNCHANGED at
    BY <1>3 DEF AllocBegins, MapSgGetsIova
  <2>2. IovasOf(c) = {} /\ at'[c] = 0
    BY <2>1 DEF IovasOf, Shape, ShapeOf
  <2>3. IovasOf(c)' \cap iovad = {} /\ IovasOf(c)' \subseteq Iova
    <3>1. KeepsIovas(c) \/ TakesIovas(c) \/ GivesIovas(c) \/ LosesIovas(c)
      BY StepIovas
    <3> QED
      BY <2>2, <3>1 DEF KeepsIovas, TakesIovas, GivesIovas, LosesIovas
  <2>4. Mapped(c)' = 0 /\ lo'[c] \in Nat
    BY <2>2, StepShape DEF Mapped, ClientTypes, Iova
  <2> QED
    BY <1>c, <2>1, <2>2, <2>3, <2>4
<1>4. CASE AllocMaps(c)
  <2>1. /\ pc[c] = "allocating" /\ at[c] < Len(mem[c])
        /\ MapPages(c, {lo[c] + at[c]}) /\ UNCHANGED << pc, mem, lo >>
        /\ at'[c] = at[c] + 1
    BY <1>0, <1>4 DEF AllocMaps, ClientTypes
  <2>2. /\ {lo[c] + at[c]} \subseteq IovasOf(c)
        /\ \A i \in Iova : pt'[i] = IF i \in {lo[c] + at[c]} THEN PageAt(c, i) ELSE pt[i]
        /\ \A t \in TablesOf(Iova) : l1[t] => l1'[t]
        /\ \A i \in {lo[c] + at[c]} : l1'[Table(i)]
    BY <2>1, NextPages, MapPagesEffect
  <2>3. \A i \in Iova : l1[Table(i)] => l1'[Table(i)]
    BY <2>2 DEF TablesOf
  <2>4. TablesKept(c)
    BY <1>0, <2>2, <2>3 DEF TablesKept, Backed
  <2>5. /\ IovasOf(c)' = IovasOf(c) /\ \A i : PageAt(c, i)' = PageAt(c, i)
        /\ Mapped(c)' = at[c] + 1 /\ Mapped(c) = at[c] /\ lo'[c] = lo[c]
    BY <2>1 DEF IovasOf, PageAt, Mapped, Maps
  <2>6. ASSUME NEW i \in IovasOf(c)
        PROVE  pt'[i] = IF i - lo[c] < at[c] + 1 THEN PageAt(c, i) ELSE NoPage
    <3>1. /\ pt[i] = IF i - lo[c] < at[c] THEN PageAt(c, i) ELSE NoPage
          /\ pt'[i] = IF i = lo[c] + at[c] THEN PageAt(c, i) ELSE pt[i]
      BY <1>0, <2>2, <2>5 DEF MapsFirst
    <3> QED
      BY <1>1, <1>2, <3>1
  <2> QED
    BY <2>4, <2>5, <2>6 DEF OwnTables
<1>5. CASE AllocMapFails(c)
  <2>1. /\ pc[c] = "allocating" /\ at[c] < Len(mem[c]) /\ UNCHANGED << mem, lo, at >>
        /\ Goto(c, "unwinding") /\ (UNCHANGED tables \/ MapRangeFails({lo[c] + at[c]}))
    BY <1>5 DEF AllocMapFails
  <2>2. {lo[c] + at[c]} \subseteq IovasOf(c) /\ Mapped(c) = at[c]
    BY <2>1, NextPages DEF Mapped, Maps
  <2>3. ASSUME NEW i \in {lo[c] + at[c]} PROVE pt[i] = NoPage
    <3>1. i \in IovasOf(c) /\ i = lo[c] + at[c]
      BY <2>2
    <3>2. ~ (i - lo[c] < at[c])
      BY <1>1, <3>1
    <3>3. pt[i] = IF i - lo[c] < Mapped(c) THEN PageAt(c, i) ELSE NoPage
      BY <1>0, <3>1 DEF MapsFirst
    <3> QED
      BY <2>2, <3>2, <3>3
  <2>4. pt' = pt /\ \A i \in Iova : l1[Table(i)] => l1'[Table(i)]
    BY <1>0, <2>1, <2>2, <2>3, MapFailsEffect
  <2>5. Mapped(c)' = Mapped(c)
    BY <1>0, <2>1 DEF Mapped, Maps, Goto, ClientTypes
  <2> QED
    BY <1>a, <2>1, <2>4, <2>5
<1>6. CASE AllocUnwinds(c)
  <2> DEFINE i == lo[c] + at[c] - 1
  <2>1. /\ pc[c] = "unwinding" /\ at[c] > 0 /\ UNCHANGED << pc, mem, lo >>
        /\ UnmapRange({i}) /\ at'[c] = at[c] - 1
    BY <1>0, <1>6 DEF AllocUnwinds, ClientTypes
  <2>2. i \in IovasOf(c)
    <3>1. at[c] <= Len(mem[c])
      BY DEF Shape, ShapeOf
    <3>2. IovasOf(c) = lo[c] .. lo[c] + Len(mem[c]) - 1
      BY <2>1 DEF IovasOf
    <3> QED
      BY <1>1, <2>1, <3>1, <3>2
  <2>3. l1' = l1 /\ pt'[i] = NoPage /\ \A j \in Iova \ {i} : pt'[j] = pt[j]
    BY <1>0, <2>1, <2>2, UnmapOneEffect
  <2>4. TablesKept(c)
    BY <1>0, <2>2, <2>3 DEF TablesKept, Backed
  <2>5. /\ IovasOf(c)' = IovasOf(c) /\ \A j : PageAt(c, j)' = PageAt(c, j)
        /\ Mapped(c)' = at[c] - 1 /\ Mapped(c) = at[c] /\ lo'[c] = lo[c]
    BY <2>1 DEF IovasOf, PageAt, Mapped, Maps
  <2>6. ASSUME NEW j \in IovasOf(c)
        PROVE  pt'[j] = IF j - lo[c] < at[c] - 1 THEN PageAt(c, j) ELSE NoPage
    <3>1. /\ pt[j] = IF j - lo[c] < at[c] THEN PageAt(c, j) ELSE NoPage
          /\ pt'[j] = IF j = lo[c] + at[c] - 1 THEN NoPage ELSE pt[j]
      BY <1>0, <2>3, <2>5 DEF MapsFirst
    <3> QED
      BY <1>1, <1>2, <3>1
  <2> QED
    BY <2>4, <2>5, <2>6 DEF OwnTables
<1>7. CASE AllocEnds(c) \/ FreeBegins(c)
  <2>1. /\ UNCHANGED << l1, pt, mem, lo, at >> /\ pc[c] \in {"allocating", "allocated"}
        /\ \E s \in {"allocated", "unwinding", "freeing"} : Goto(c, s)
    BY <1>7 DEF AllocEnds, FreeBegins
  <2>2. Mapped(c)' = Mapped(c)
    BY <1>0, <2>1 DEF Mapped, Maps, Goto, ClientTypes
  <2> QED
    BY <1>a, <2>1, <2>2
<1>8. CASE AllocUnwound(c) \/ FreeEnds(c) \/ MapSgGetsNone(c) \/ UnmapSgEnds(c)
  <2>1. UNCHANGED tables /\ Goto(c, "idle")
    BY <1>8 DEF AllocUnwound, FreeEnds, MapSgGetsNone, UnmapSgEnds
  <2>2. Mapped(c) = 0
    BY <1>8 DEF AllocUnwound, FreeEnds, MapSgGetsNone, UnmapSgEnds, Mapped, Maps
  <2> QED
    BY <1>b, <1>d, <2>1, <2>2
<1>9. CASE FreeUnmaps(c) \/ UnmapSg(c)
  <2>1. /\ pc[c] \in Maps /\ UnmapRange(IovasOf(c)) /\ UNCHANGED << mem, lo >>
        /\ \E s \in {"unmapped", "sg unmapped"} : Goto(c, s)
    BY <1>9 DEF FreeUnmaps, UnmapSg, Maps
  <2>2. /\ l1' = l1 /\ \A i \in IovasOf(c) : pt'[i] = NoPage
        /\ \A i \in Iova \ IovasOf(c) : pt'[i] = pt[i]
    BY <2>1, UnmapEffect
  <2>3. IovasOf(c)' = IovasOf(c) /\ Mapped(c)' = 0 /\ lo'[c] = lo[c]
    BY <1>0, <2>1 DEF IovasOf, Mapped, Maps, Goto, ClientTypes
  <2>4. \A i \in IovasOf(c) : ~ (i - lo[c] < 0)
    BY Offsets
  <2> QED
    BY <1>0, <2>2, <2>3, <2>4 DEF TablesKept, OwnTables, Backed
<1>10. CASE FreeReturns(c) \/ FreeFlushes(c) \/ UnmapSgFlushes(c)
  <2>1. /\ UNCHANGED << l1, pt, mem, lo, at >> /\ pc[c] \in {"unmapped", "returned", "sg unmapped"}
        /\ \E s \in {"returned", "flushed", "sg flushed"} : Goto(c, s)
    BY <1>10 DEF FreeReturns, FreeFlushes, UnmapSgFlushes
  <2>2. Mapped(c)' = Mapped(c)
    BY <1>0, <2>1 DEF Mapped, Maps, Goto, ClientTypes
  <2> QED
    BY <1>a, <2>1, <2>2
<1>11. CASE MapSg(c)
  <2>1. UNCHANGED tables /\ IovasOf(c) = {} /\ IovasOf(c)' = {}
    BY <1>0, <1>11 DEF MapSg, IovasOf, Goto, ClientTypes
  <2> QED
    BY <2>1 DEF TablesKept, OwnTables
<1>12. CASE MapSgMaps(c)
  <2> DEFINE n == Head(todo[c])  a == lo[c]  k == at[c]
  <2>1. /\ pc[c] = "mapping" /\ todo[c] # << >>
        /\ MapPages(c, EntryIovas(c)) /\ UNCHANGED << pc, mem, lo >>
        /\ at'[c] = k + n
    BY <1>0, <1>12 DEF MapSgMaps, ClientTypes
  <2>2. /\ EntryIovas(c) \subseteq IovasOf(c) /\ n \in Nat
        /\ \A i \in Iova : pt'[i] = IF i \in EntryIovas(c) THEN PageAt(c, i) ELSE pt[i]
        /\ \A t \in TablesOf(Iova) : l1[t] => l1'[t]
        /\ \A i \in EntryIovas(c) : l1'[Table(i)]
    BY <2>1, NextPages, MapPagesEffect
  <2>3. \A i \in Iova : l1[Table(i)] => l1'[Table(i)]
    BY <2>2 DEF TablesOf
  <2>4. TablesKept(c)
    BY <1>0, <2>2, <2>3 DEF TablesKept, Backed
  <2>5. /\ IovasOf(c)' = IovasOf(c) /\ \A i : PageAt(c, i)' = PageAt(c, i)
        /\ Mapped(c)' = k + n /\ Mapped(c) = k /\ lo'[c] = a
        /\ EntryIovas(c) = a + k .. a + k + n - 1
    BY <2>1 DEF IovasOf, PageAt, Mapped, Maps, EntryIovas
  <2>6. a \in Nat /\ k \in Nat
    BY <1>1
  <2>7. ASSUME NEW i \in IovasOf(c)
        PROVE  pt'[i] = IF i - a < k + n THEN PageAt(c, i) ELSE NoPage
    <3>1. /\ pt[i] = IF i - a < k THEN PageAt(c, i) ELSE NoPage
          /\ pt'[i] = IF i \in a + k .. a + k + n - 1 THEN PageAt(c, i) ELSE pt[i]
      BY <1>0, <2>2, <2>5 DEF MapsFirst
    <3> HIDE DEF n, a, k
    <3> QED
      BY <1>2, <2>2, <2>6, <3>1
  <2> HIDE DEF n, a, k
  <2> QED
    BY <2>4, <2>5, <2>7 DEF OwnTables
<1>13. CASE MapSgFails(c)
  <2>1. /\ pc[c] = "mapping" /\ todo[c] # << >>
        /\ UNCHANGED tables \/ MapRangeFails(EntryIovas(c))
    BY <1>13 DEF MapSgFails
  <2>2. EntryIovas(c) \subseteq IovasOf(c) /\ Mapped(c) = at[c] /\ Head(todo[c]) \in Nat
    BY <2>1, NextPages DEF Mapped, Maps
  <2>3. \A i \in EntryIovas(c) : pt[i] = NoPage
    <3> DEFINE n == Head(todo[c])  a == lo[c]  k == at[c]
    <3>1. /\ EntryIovas(c) = a + k .. a + k + n - 1 /\ n \in Nat /\ a \in Nat /\ k \in Nat
          /\ \A i \in EntryIovas(c) : pt[i] = IF i - a < k THEN PageAt(c, i) ELSE NoPage
      BY <1>0, <1>1, <2>2 DEF EntryIovas, MapsFirst
    <3> HIDE DEF n, a, k
    <3>2. \A i \in EntryIovas(c) : ~ (i - a < k)
      BY <3>1
    <3> QED
      BY <3>1, <3>2
  <2>4. pt' = pt /\ \A i \in Iova : l1[Table(i)] => l1'[Table(i)]
    BY <1>0, <2>1, <2>2, <2>3, MapFailsEffect
  <2>5. CASE Goto(c, "failed") /\ UNCHANGED << mem, lo, at >>
    <3>1. Mapped(c)' = Mapped(c)
      BY <1>0, <2>1, <2>5 DEF Mapped, Maps, Goto, ClientTypes
    <3> QED
      BY <1>a, <2>1, <2>4, <2>5, <3>1
  <2>6. CASE Goto(c, "idle") /\ at[c] = 0
    <3>1. \A i \in IovasOf(c) : pt[i] = NoPage
      <4>1. \A i \in IovasOf(c) : ~ (i - lo[c] < Mapped(c))
        BY <2>2, <2>6, Offsets
      <4> QED
        BY <1>0, <4>1 DEF MapsFirst
    <3> QED
      BY <1>0, <1>d, <2>4, <2>6, <3>1 DEF TablesKept, OwnTables
  <2> QED
    BY <1>13, <2>5, <2>6 DEF MapSgFails
<1>14. CASE MapSgEnds(c)
  <2>1. Mapped(c)' = Mapped(c)
    BY <1>0, <1>14 DEF MapSgEnds, Mapped, Maps, Goto, ClientTypes
  <2> QED
    BY <1>a, <1>14, <2>1 DEF MapSgEnds
<1> QED
  BY <1>3, <1>4, <1>5, <1>6, <1>7, <1>8, <1>9, <1>10, <1>11, <1>12, <1>13, <1>14
     DEF AllocStep, SgStep

LEMMA NextTables == Shape /\ Addresses /\ Tables /\ [Next]_vars => Tables'
<1> SUFFICES ASSUME Shape, Addresses, Tables, [Next]_vars PROVE Tables'
  OBVIOUS
<1>0. /\ RestTypes /\ RestTypes' /\ trash \subseteq Iova /\ NoPage # TrashPage
      /\ \A d \in Client : IovasOf(d) \subseteq Iova
  BY NextShape, DmaAssumption, IovaFacts DEF Shape, RestTypes
<1>1. ASSUME NEW c \in Client, AllocStep(c) \/ SgStep(c) PROVE Tables'
  <2>1. TablesKept(c) /\ OwnTables(c) /\ trash' = trash
    BY <1>1, StepTables, StepIovas
  <2>2. \A d \in Client \ {c} : Same(d) /\ IovasOf(d) \cap IovasOf(c) = {}
    BY <1>1, OthersAreSame DEF Shape, Addresses
  <2>3. Backed'
    <3>1. ASSUME NEW i \in Iova, ~ l1'[Table(i)] PROVE pt'[i] = NoPage
      <4>1. ~ l1[Table(i)] /\ pt[i] = NoPage
        BY <2>1, <3>1 DEF TablesKept, Tables, Backed
      <4> QED
        BY <2>1, <3>1, <4>1 DEF TablesKept
    <3> QED
      BY <3>1 DEF Backed
  <2>4. \A i \in trash' : pt'[i] = TrashPage
    <3>1. \A i \in trash : i \in Iova \ IovasOf(c)
      BY <1>0 DEF Addresses
    <3> QED
      BY <2>1, <3>1 DEF TablesKept, Tables
  <2>5. MapsFirst(c)'
    BY <2>1 DEF OwnTables, MapsFirst
  <2>6. ASSUME NEW d \in Client \ {c} PROVE MapsFirst(d)'
    <3>1. /\ IovasOf(d)' = IovasOf(d) /\ Mapped(d)' = Mapped(d) /\ lo'[d] = lo[d]
          /\ \A i : PageAt(d, i)' = PageAt(d, i)
      BY <2>2, SameIovas DEF Same
    <3>2. \A i \in IovasOf(d) : pt'[i] = pt[i]
      BY <1>0, <2>1, <2>2 DEF TablesKept
    <3>3. MapsFirst(d)
      BY DEF Tables
    <3> QED
      BY <3>1, <3>2, <3>3 DEF MapsFirst
  <2>7. ASSUME NEW i \in Iova, i \notin trash, \A d \in Client : i \notin IovasOf(d)'
        PROVE  pt'[i] = NoPage
    <3>1. \A d \in Client \ {c} : i \notin IovasOf(d)
      BY <2>2, <2>7, SameIovas
    <3>2. CASE i \in IovasOf(c)
      BY <2>1, <2>7, <3>2 DEF OwnTables
    <3>3. CASE i \notin IovasOf(c)
      <4>1. pt[i] = NoPage
        BY <2>7, <3>1, <3>3 DEF Tables
      <4> QED
        BY <2>1, <3>3, <4>1 DEF TablesKept
    <3> QED
      BY <3>2, <3>3
  <2>8. \A d \in Client : MapsFirst(d)'
    BY <2>5, <2>6
  <2>9. \A i \in Iova \ trash' : (\A d \in Client : i \notin IovasOf(d)') => pt'[i] = NoPage
    BY <2>1, <2>7
  <2> QED
    BY <2>3, <2>4, <2>8, <2>9 DEF Tables
<1>2. CASE Resume \/ ResumeFails \/ Suspend \/ PowerOff \/ PowerOffFails
           \/ (\E i \in Iova : DeviceLooksUp(i)) \/ UNCHANGED vars
  <2>1. \A d \in Client : /\ IovasOf(d)' = IovasOf(d) /\ Mapped(d)' = Mapped(d)
                          /\ lo'[d] = lo[d] /\ \A i : PageAt(d, i)' = PageAt(d, i)
    BY <1>2, RestKeepsClients, SameIovas DEF Same
\* No entry changes, and tables are only added.
  <2>a. ASSUME pt' = pt, \A i \in Iova : l1[Table(i)] => l1'[Table(i)], trash' = trash
        PROVE  Tables'
    <3>1. Backed'
      BY <2>a DEF Tables, Backed
    <3>2. \A d \in Client : MapsFirst(d)'
      BY <2>1, <2>a DEF Tables, MapsFirst
    <3> QED
      BY <2>1, <2>a, <3>1, <3>2 DEF Tables
  <2>2. CASE Resume /\ trash = {} /\ MapRange(trash', [i \in trash' |-> TrashPage])
             /\ trash' \subseteq Iova \ iovad
    <3>1. /\ l1' = [t \in DOMAIN l1 |-> l1[t] \/ t \in TablesOf(trash')]
          /\ \A i \in Iova : pt'[i] = IF i \in trash' THEN TrashPage ELSE pt[i]
      <4> DEFINE is == trash'  pages == [i \in is |-> TrashPage]
      <4>1. /\ l1' = [t \in DOMAIN l1 |-> l1[t] \/ t \in TablesOf(is)]
            /\ pt' = [i \in Iova |-> IF i \in is THEN pages[i] ELSE pt[i]]
        BY <2>2 DEF MapRange
      <4>2. \A i \in is : pages[i] = TrashPage
        OBVIOUS
      <4> HIDE DEF is, pages
      <4>3. \A i \in Iova : pt'[i] = IF i \in is THEN TrashPage ELSE pt[i]
        BY <4>1, <4>2
      <4> QED
        BY <4>1, <4>3 DEF is
    <3>2. \A i \in Iova : /\ Table(i) \in DOMAIN l1 /\ (i \in trash' => Table(i) \in TablesOf(trash'))
      BY <1>0 DEF RestTypes, TablesOf
    <3>3. \A d \in Client : IovasOf(d) \cap trash' = {}
      BY <2>2 DEF Addresses
    <3>4. Backed'
      BY <3>1, <3>2 DEF Tables, Backed
    <3>5. \A i \in trash' : pt'[i] = TrashPage
      BY <2>2, <3>1
    <3>6. \A d \in Client : MapsFirst(d)'
      <4> TAKE d \in Client
      <4>1. \A i \in IovasOf(d) : pt'[i] = pt[i]
        BY <1>0, <3>1, <3>3
      <4>2. MapsFirst(d)
        BY DEF Tables
      <4> QED
        BY <2>1, <4>1, <4>2 DEF MapsFirst
    <3>7. \A i \in Iova \ trash' : (\A d \in Client : i \notin IovasOf(d)') => pt'[i] = NoPage
      BY <2>1, <2>2, <3>1 DEF Tables
    <3> QED
      BY <3>4, <3>5, <3>6, <3>7 DEF Tables
  <2>3. CASE Resume /\ UNCHANGED tables /\ UNCHANGED trash
    BY <2>a, <2>3 DEF tables
  <2>4. CASE Resume
    BY <1>2, <2>2, <2>3, <2>4, RestTakesTrash DEF Resume
  <2>5. CASE ResumeFails
    <3>1. PICK first \in FreeRanges(TrashSize) : MapRangeFails(first .. first + TrashSize - 1)
      BY <2>5 DEF ResumeFails
    <3> DEFINE is == first .. first + TrashSize - 1
    <3>2. is \subseteq Iova \ iovad
      BY DmaAssumption, FreeRangeFacts
    <3> HIDE DEF is
    <3>3. is \subseteq Iova /\ \A i \in is : pt[i] = NoPage
      BY <3>2, FreshIsUnmapped
    <3>4. pt' = pt /\ \A i \in Iova : l1[Table(i)] => l1'[Table(i)]
      <4>1. MapRangeFails(is)
        BY <3>1 DEF is
      <4> QED
        BY <1>0, <3>3, <4>1, MapFailsEffect
    <3>5. trash' = trash
      BY <2>5 DEF ResumeFails, power
    <3> QED
      BY <2>a, <3>4, <3>5
  <2>6. CASE Suspend \/ PowerOff \/ PowerOffFails \/ (\E i \in Iova : DeviceLooksUp(i))
             \/ UNCHANGED vars
    <3>1. UNCHANGED << l1, pt, trash >>
      BY <2>6 DEF Suspend, PowerOff, PowerOffFails, DeviceLooksUp, vars, tables, power
    <3> QED
      BY <2>a, <3>1
  <2> QED
    BY <1>2, <2>4, <2>5, <2>6
<1> QED
  BY <1>1, <1>2 DEF Next

-----------------------------------------------------------------------------
(* What the device remembers *)

\* A buffer is being freed and the device has not been told.
Stale == {"freeing", "unmapped", "returned", "sg unmapped"}

Remembers ==
  /\ ~ on => \A i \in Iova : tlb[i] = Absent
  /\ on /\ ready =>
       /\ \A i \in Iova \ iovad : tlb[i] = Absent
       /\ \A c \in Client : \A i \in IovasOf(c) :
            pc[c] \in Stale \/ tlb[i] = Absent \/ (pc[c] \in Live /\ tlb[i] = pt[i])

\* The device is told to forget everything.
Forgets == ready /\ (\A i \in Iova : tlb'[i] = Absent)

LEMMA StepTlb ==
  ASSUME Shape, NEW c \in Client, AllocStep(c) \/ SgStep(c)
  PROVE  /\ UNCHANGED << ready, on >>
         /\ \/ Forgets
            \/ tlb' = tlb /\ ~ ready
            \/ /\ tlb' = tlb /\ pc[c] \in Stale \cup Live
               /\ pc'[c] \in Stale /\ iovad' = iovad
            \/ tlb' = tlb /\ pc[c] \notin Stale \cup Live
<1> USE DEF power, Stale, Live
<1>0. ClientTypes
  BY DEF Shape
<1>1. CASE AllocBegins(c) \/ AllocMapFails(c) \/ AllocEnds(c) \/ AllocUnwound(c)
  BY <1>0, <1>1 DEF AllocBegins, AllocMapFails, AllocEnds, AllocUnwound, ClientTypes, Goto
<1>2. CASE AllocMaps(c) \/ AllocUnwinds(c) \/ MapSgMaps(c)
  BY <1>2 DEF AllocMaps, AllocUnwinds, MapSgMaps
<1>3. CASE FreeBegins(c) \/ FreeUnmaps(c) \/ FreeReturns(c) \/ UnmapSg(c)
  <2>1. CASE FreeBegins(c) \/ FreeUnmaps(c) \/ FreeReturns(c)
    BY <1>0, <2>1 DEF FreeBegins, FreeUnmaps, FreeReturns, ClientTypes, Goto
  <2>2. CASE UnmapSg(c)
    BY <1>0, <2>2 DEF UnmapSg, ClientTypes, Goto
  <2> QED
    BY <1>3, <2>1, <2>2
<1>4. CASE FreeFlushes(c) \/ MapSgEnds(c) \/ UnmapSgFlushes(c)
  <2>1. UNCHANGED << ready, on >> /\ Invalidate
    BY <1>4 DEF FreeFlushes, MapSgEnds, UnmapSgFlushes
  <2> QED
    BY <2>1 DEF Invalidate, Forget, Forgets
<1>5. CASE FreeEnds(c) \/ MapSg(c) \/ MapSgGetsIova(c) \/ MapSgGetsNone(c)
  BY <1>0, <1>5 DEF FreeEnds, MapSg, MapSgGetsIova, MapSgGetsNone, ClientTypes, Goto
<1>6. CASE MapSgFails(c) \/ UnmapSgEnds(c)
  BY <1>0, <1>6 DEF MapSgFails, UnmapSgEnds, ClientTypes, Goto
<1> QED
  BY <1>1, <1>2, <1>3, <1>4, <1>5, <1>6 DEF AllocStep, SgStep

LEMMA NextRemembers ==
  Shape /\ Addresses /\ Tables /\ Remembers /\ [Next]_vars => Remembers'
<1> SUFFICES ASSUME Shape, Addresses, Tables, Remembers, [Next]_vars PROVE Remembers'
  OBVIOUS
<1>0. /\ \A d \in Client : IovasOf(d) \subseteq Iova
      /\ tlb \in [Iova -> Page \cup {NoPage, TrashPage, Absent}]
  BY IovaFacts DEF Shape, RestTypes
<1>a. ASSUME \A i \in Iova : tlb'[i] = Absent PROVE Remembers'
  <2>1. \A d \in Client : IovasOf(d)' \subseteq Iova
    <3>1. Addresses' /\ iovad' \subseteq Iova
      BY NextAddresses, NextShape DEF Shape, RestTypes
    <3> QED
      BY <3>1 DEF Addresses
  <2> QED
    BY <1>a, <2>1 DEF Remembers
<1>1. ASSUME NEW c \in Client, AllocStep(c) \/ SgStep(c) PROVE Remembers'
  <2>1. UNCHANGED << ready, on >>
    BY <1>1, StepTlb
  <2>2. CASE Forgets
    BY <1>a, <2>2 DEF Forgets
  <2>3. CASE tlb' = tlb /\ ~ (on /\ ready)
    BY <2>1, <2>3 DEF Remembers
  <2>4. CASE /\ tlb' = tlb /\ on /\ ready
             /\ \/ pc[c] \in Stale \cup Live /\ pc'[c] \in Stale /\ iovad' = iovad
                \/ pc[c] \notin Stale \cup Live
    <3>1. KeepsIovas(c) \/ TakesIovas(c) \/ GivesIovas(c) \/ LosesIovas(c)
      BY <1>1, StepIovas
    <3>2. /\ \A i \in Iova \ iovad : tlb[i] = Absent
          /\ pc[c] \notin Stale \cup Live => \A i \in IovasOf(c) : tlb[i] = Absent
      BY <2>4 DEF Remembers
    <3>3. \A i \in Iova \ iovad' : tlb[i] = Absent
      BY <2>4, <3>1, <3>2 DEF KeepsIovas, TakesIovas, GivesIovas, LosesIovas
    <3>4. ASSUME NEW i \in IovasOf(c)', pc'[c] \notin Stale PROVE tlb[i] = Absent
      <4>1. pc[c] \notin Stale \cup Live
        BY <2>4, <3>4
      <4> QED
        BY <3>1, <3>2, <3>4, <4>1 DEF KeepsIovas, TakesIovas, GivesIovas, LosesIovas
    <3>5. ASSUME NEW d \in Client \ {c}, NEW i \in IovasOf(d)'
          PROVE  pc'[d] \in Stale \/ tlb[i] = Absent \/ (pc'[d] \in Live /\ tlb[i] = pt'[i])
      <4>1. pc'[d] = pc[d] /\ i \in IovasOf(d)
        BY <1>1, <3>5, OthersAreSame, SameIovas DEF Same, Shape
      <4>2. i \in Iova \ IovasOf(c)
        BY <1>0, <4>1 DEF Addresses
      <4>3. pt'[i] = pt[i]
        BY <1>1, <4>2, StepTables DEF TablesKept
      <4> QED
        BY <2>4, <4>1, <4>3 DEF Remembers
    <3> QED
      BY <2>1, <2>4, <3>3, <3>4, <3>5 DEF Remembers
  <2> QED
    BY <1>1, <2>2, <2>3, <2>4, StepTlb
<1>2. CASE Resume \/ ResumeFails
  BY <1>a, <1>2 DEF Resume, ResumeFails, Remembers
<1>3. CASE PowerOff \/ PowerOffFails
  BY <1>a, <1>3 DEF PowerOff, PowerOffFails, Forget
<1>4. CASE Suspend
  BY <1>4 DEF Suspend, Remembers
<1>5. ASSUME NEW i \in Iova, DeviceLooksUp(i) PROVE Remembers'
  <2>1. /\ on /\ ready /\ UNCHANGED << iovad, pt, ready, on >>
        /\ i \in trash \/ \E c \in Client : pc[c] \in Live /\ i \in IovasOf(c)
        /\ tlb' = [tlb EXCEPT ![i] = pt[i]]
    <3>1. Translate(i) = pt[i]
      BY TranslateIsEntry DEF Tables
    <3> QED
      BY <1>5, <3>1 DEF DeviceLooksUp, tables, power
  <2>2. /\ tlb'[i] = pt[i] /\ \A j \in Iova \ {i} : tlb'[j] = tlb[j]
    BY <1>0, <2>1
  <2>3. \A d \in Client : IovasOf(d)' = IovasOf(d) /\ pc'[d] = pc[d]
    BY <1>5, RestKeepsClients, SameIovas DEF Same
  <2>4. i \in iovad
    BY <2>1 DEF Addresses
  <2>5. \A d \in Client : i \in IovasOf(d) => pc[d] \in Live
    BY <2>1 DEF Addresses
  <2>6. \A j \in Iova \ iovad' : tlb'[j] = Absent
    BY <2>1, <2>2, <2>4 DEF Remembers
  <2>7. ASSUME NEW d \in Client, NEW j \in IovasOf(d)
        PROVE  pc[d] \in Stale \/ tlb'[j] = Absent \/ (pc[d] \in Live /\ tlb'[j] = pt'[j])
    <3>1. CASE j = i
      BY <2>1, <2>2, <2>5, <2>7, <3>1
    <3>2. CASE j # i
      <4>1. tlb'[j] = tlb[j] /\ pt' = pt
        BY <1>0, <2>1, <2>2, <3>2
      <4> QED
        BY <2>1, <4>1 DEF Remembers
    <3> QED
      BY <3>1, <3>2
  <2> QED
    BY <2>1, <2>3, <2>6, <2>7 DEF Remembers
<1>6. CASE UNCHANGED vars
  <2>1. \A d \in Client : IovasOf(d)' = IovasOf(d) /\ pc'[d] = pc[d]
    BY <1>6, RestKeepsClients, SameIovas DEF Same
  <2>2. UNCHANGED << on, ready, tlb, iovad, pt >>
    BY <1>6 DEF vars, tables, power
  <2> QED
    BY <2>1, <2>2 DEF Remembers
<1> QED
  BY <1>1, <1>2, <1>3, <1>4, <1>5, <1>6 DEF Next

-----------------------------------------------------------------------------
(* What is mapped for the PCI device *)

PciOf(c) ==
  /\ pc[c] \in InSg => Range(mem[c]) \subseteq pci
  /\ pc[c] \in {"allocating", "unwinding", "allocated"} =>
       \A k \in 1 .. Len(mem[c]) :
         IF k <= at[c] THEN mem[c][k] \in pci ELSE mem[c][k] \in pci => mem[c][k] \in lost
  /\ pc[c] \in {"freeing", "unmapped"} => Range(mem[c]) \cap pci = {}

Pci == unused \cap pci \subseteq lost /\ \A c \in Client : PciOf(c)

\* A step of c changes what is mapped of its own pages only, and leaves no page
\* mapped that it returns.
PciKept(c) ==
  /\ \A p \in Page : p \notin Held(c) /\ p \notin Held(c)' => (p \in pci' <=> p \in pci)
  /\ lost \subseteq lost'
  /\ Held(c) \cap unused' \cap pci' \subseteq lost'

\* The entries tell the pages of the buffer.
LEMMA EntriesTell ==
  ASSUME Shape, Tables, NEW c \in Client, pc[c] \in Maps,
         NEW k \in 1 .. Len(mem[c]), k <= at[c]
  PROVE  lo[c] + k - 1 \in IovasOf(c) /\ Translate(lo[c] + k - 1) = mem[c][k]
<1> DEFINE n == Len(mem[c])  a == lo[c]  i == a + k - 1
<1>1. n \in Nat /\ a \in Nat /\ at[c] \in Nat /\ IovasOf(c) \subseteq Iova
  BY IovaFacts
<1>2. IovasOf(c) = a .. a + n - 1 /\ Mapped(c) = at[c]
  BY DEF IovasOf, Maps, Mapped
<1>3. PageAt(c, i) = mem[c][i - a + 1]
  BY DEF PageAt
<1>4. k \in 1 .. n
  OBVIOUS
<1>5. i = a + k - 1
  OBVIOUS
<1> HIDE DEF n, a, i
<1>6. i \in a .. a + n - 1 /\ i - a + 1 = k /\ i - a < at[c]
  BY <1>1, <1>4, <1>5
<1>7. i \in IovasOf(c) /\ i \in Iova
  BY <1>1, <1>2, <1>6
<1>8. pt[i] = IF i - a < Mapped(c) THEN PageAt(c, i) ELSE NoPage
  BY <1>7 DEF Tables, MapsFirst, a
<1>9. PageAt(c, i) = mem[c][k]
  BY <1>3, <1>6
<1>10. pt[i] = mem[c][k]
  BY <1>2, <1>6, <1>8, <1>9
<1>11. Translate(i) = pt[i]
  BY <1>7, TranslateIsEntry DEF Tables
<1> QED
  BY <1>7, <1>10, <1>11 DEF i, a

LEMMA StepPci ==
  ASSUME Shape, Tables, Pages, Pci, NEW c \in Client, AllocStep(c) \/ SgStep(c)
  PROVE  PciKept(c) /\ PciOf(c)'
<1>0. ClientTypes /\ BufPages \in Nat \ {0} /\ unused \subseteq Page
  BY DmaAssumption DEF Shape, RestTypes
<1>1. at[c] \in Nat /\ at[c] <= Len(mem[c]) /\ Len(mem[c]) \in Nat
  BY IovaFacts DEF Shape, ShapeOf
<1>2. /\ DOMAIN mem[c] = 1 .. Len(mem[c])
      /\ Range(mem[c]) = {mem[c][k] : k \in 1 .. Len(mem[c])}
  <2>1. mem[c] \in Seq(Page)
    BY <1>0 DEF ClientTypes
  <2>2. DOMAIN mem[c] = 1 .. Len(mem[c])
    BY <2>1, SeqFacts
  <2> QED
    BY <2>2 DEF Range
<1>3. PciOf(c) /\ Held(c) \cap unused = {} /\ (unused \cap pci \subseteq lost)
  BY DEF Pci, Pages
<1>4. \A k, m \in 1 .. Len(mem[c]) : mem[c][k] = mem[c][m] => k = m
  BY <1>2 DEF Shape, ShapeOf, IsInjective
\* No page changes hands.
<1>a. ASSUME UNCHANGED << unused, pci, lost >>, PciOf(c)' PROVE PciKept(c) /\ PciOf(c)'
  BY <1>3, <1>a DEF PciKept
\* The buffer is given back.
<1>b. ASSUME Goto(c, "idle") PROVE PciOf(c)'
  <2>1. pc'[c] = "idle"
    BY <1>0, <1>b DEF Goto, ClientTypes
  <2> QED
    BY <2>1 DEF PciOf, InSg
<1>c. ASSUME UNCHANGED << mem, at, pci, lost >>, NEW s, Goto(c, s),
             \/ pc[c] \in InSg /\ s \in InSg
             \/ pc[c] = "allocating" /\ s \in {"unwinding", "allocated"}
             \/ s \in Returned \cup {"idle"}
             \/ pc[c] = "freeing" /\ s = "unmapped"
      PROVE  PciOf(c)'
  <2>1. pc'[c] = s
    BY <1>0, <1>c DEF Goto, ClientTypes
  <2> QED
    BY <1>3, <1>c, <2>1 DEF PciOf, InSg, Returned
<1>5. CASE AllocBegins(c)
  <2>1. PICK n \in 1 .. BufPages : \E s \in PagesFor(n) :
             mem' = [mem EXCEPT ![c] = s] /\ unused' = unused \ Range(s)
    BY <1>5 DEF AllocBegins
  <2>2. PICK s \in PagesFor(n) : mem' = [mem EXCEPT ![c] = s] /\ unused' = unused \ Range(s)
    BY <2>1
  <2>3. s \in Seq(Page) /\ Range(s) \subseteq unused
    BY <1>0, PagesForFacts
  <2>4. \A k \in 1 .. Len(s) : s[k] \in unused
    BY <2>3, SeqFacts DEF Range
  <2>5. mem'[c] = s /\ pc'[c] = "allocating" /\ at'[c] = 0 /\ pci' = pci /\ lost' = lost
    BY <1>0, <1>5, <2>2 DEF AllocBegins, Goto, ClientTypes, Shape, ShapeOf
  <2>6. PciOf(c)'
    <3>1. \A k \in 1 .. Len(s) : ~ (k <= 0)
      OBVIOUS
    <3> QED
      BY <1>3, <2>4, <2>5, <3>1 DEF PciOf, InSg
  <2> QED
    BY <1>3, <2>2, <2>5, <2>6 DEF PciKept
<1>6. CASE AllocMaps(c)
  <2> DEFINE m == at[c] + 1
  <2>1. /\ pc[c] = "allocating" /\ m \in 1 .. Len(mem[c]) /\ UNCHANGED << pc, mem, unused, lost >>
        /\ pci' = pci \cup {mem[c][m]} /\ at'[c] = m
    <3>1. at[c] < Len(mem[c])
      BY <1>6 DEF AllocMaps
    <3>2. m \in 1 .. Len(mem[c])
      BY <1>1, <3>1
    <3> QED
      BY <1>0, <1>6, <3>2 DEF AllocMaps, ClientTypes
  <2>2. ASSUME NEW k \in 1 .. Len(mem[c])
        PROVE  IF k <= m THEN mem[c][k] \in pci' ELSE mem[c][k] \in pci' => mem[c][k] \in lost
    <3>1. IF k <= at[c] THEN mem[c][k] \in pci ELSE mem[c][k] \in pci => mem[c][k] \in lost
      BY <1>3, <2>1 DEF PciOf
    <3>2. k <= m <=> k <= at[c] \/ k = m
      BY <1>1
    <3> HIDE DEF m
    <3> QED
      BY <1>4, <2>1, <3>1, <3>2
  <2>3. PciOf(c)'
    BY <2>1, <2>2 DEF PciOf, InSg
  <2>4. mem[c][m] \in Held(c)
    BY <1>2, <2>1 DEF Held, Returned
  <2>5. PciKept(c)
    BY <1>3, <2>1, <2>4 DEF PciKept
  <2> QED
    BY <2>3, <2>5
<1>7. CASE AllocMapFails(c) \/ AllocEnds(c)
  BY <1>7, <1>a, <1>c DEF AllocMapFails, AllocEnds
<1>8. CASE AllocUnwinds(c)
  <2> DEFINE m == at[c]
  <2>1. m \in 1 .. Len(mem[c]) /\ pc[c] = "unwinding"
    BY <1>1, <1>8 DEF AllocUnwinds
  <2>2. Translate(lo[c] + m - 1) = mem[c][m]
    BY <2>1, EntriesTell DEF Maps
  <2>3. /\ UNCHANGED << pc, mem, unused, lost >> /\ pci' = pci \ {mem[c][m]}
        /\ at'[c] = m - 1
    BY <1>0, <1>8, <2>2 DEF AllocUnwinds, ClientTypes
  <2>4. ASSUME NEW k \in 1 .. Len(mem[c])
        PROVE  IF k <= m - 1 THEN mem[c][k] \in pci' ELSE mem[c][k] \in pci' => mem[c][k] \in lost
    <3>1. IF k <= m THEN mem[c][k] \in pci ELSE mem[c][k] \in pci => mem[c][k] \in lost
      BY <1>3, <2>1 DEF PciOf
    <3>2. k <= m <=> k <= m - 1 \/ k = m
      BY <1>1
    <3>3. k <= m - 1 => k # m
      BY <1>1
    <3> HIDE DEF m
    <3> QED
      BY <1>4, <2>1, <2>3, <3>1, <3>2, <3>3
  <2>5. PciOf(c)'
    BY <2>1, <2>3, <2>4 DEF PciOf, InSg
  <2>6. mem[c][m] \in Held(c)
    BY <1>2, <2>1 DEF Held, Returned
  <2>7. PciKept(c)
    BY <1>3, <2>3, <2>6 DEF PciKept
  <2> QED
    BY <2>5, <2>7
<1>9. CASE AllocUnwound(c)
  <2>1. /\ pc[c] = "unwinding" /\ at[c] = 0 /\ UNCHANGED << pci, lost >>
        /\ unused' = unused \cup Range(mem[c])
    BY <1>9 DEF AllocUnwound
  <2>2. \A k \in 1 .. Len(mem[c]) : mem[c][k] \in pci => mem[c][k] \in lost
    BY <1>3, <2>1 DEF PciOf
  <2>3. Held(c) = Range(mem[c])
    BY <2>1 DEF Held, Returned
  <2>4. PciKept(c)
    BY <1>2, <2>1, <2>2, <2>3 DEF PciKept
  <2> QED
    BY <1>9, <1>b, <2>4 DEF AllocUnwound
<1>10. CASE FreeBegins(c)
  <2>1. /\ pc[c] = "allocated" /\ UNCHANGED << mem, unused, lost >>
        /\ pci' = pci \ {Translate(i) : i \in IovasOf(c)} /\ pc'[c] = "freeing"
    BY <1>0, <1>10 DEF FreeBegins, Goto, ClientTypes
  <2>2. at[c] = Len(mem[c])
    BY <2>1 DEF Shape, ShapeOf, Live
  <2>3. \A k \in 1 .. Len(mem[c]) : mem[c][k] \in {Translate(i) : i \in IovasOf(c)}
    <3> TAKE k \in 1 .. Len(mem[c])
    <3>1. k <= at[c]
      BY <2>2
    <3>2. lo[c] + k - 1 \in IovasOf(c) /\ Translate(lo[c] + k - 1) = mem[c][k]
      BY <2>1, <3>1, EntriesTell DEF Maps
    <3> QED
      BY <3>2
  <2>4. Range(mem[c]) \cap pci' = {}
    BY <1>2, <2>1, <2>3
  <2>5. PciOf(c)'
    BY <2>1, <2>4 DEF PciOf, InSg
  <2>6. \A i \in IovasOf(c) : Translate(i) \in Held(c)
    <3>1. \A i \in IovasOf(c) : pt[i] = PageAt(c, i)
      <4>1. \A i \in IovasOf(c) : i - lo[c] < Mapped(c)
        <5>1. \A i \in IovasOf(c) : i - lo[c] \in 0 .. Len(mem[c]) - 1
          BY IovaFacts
        <5>2. Mapped(c) = Len(mem[c])
          BY <2>1, <2>2 DEF Mapped, Maps
        <5> QED
          BY <1>1, <5>1, <5>2
      <4> QED
        BY <4>1 DEF Tables, MapsFirst
    <3>2. \A i \in IovasOf(c) : Translate(i) = pt[i] /\ PageAt(c, i) \in Range(mem[c])
      BY IovaFacts, TranslateIsEntry DEF Tables
    <3> QED
      BY <2>1, <3>1, <3>2 DEF Held, Returned
  <2>7. PciKept(c)
    BY <1>3, <2>1, <2>6 DEF PciKept
  <2> QED
    BY <2>5, <2>7
<1>11. CASE FreeUnmaps(c) \/ FreeFlushes(c) \/ MapSgGetsIova(c) \/ MapSgEnds(c)
            \/ UnmapSg(c) \/ UnmapSgFlushes(c)
  BY <1>11, <1>a, <1>c
     DEF FreeUnmaps, FreeFlushes, MapSgGetsIova, MapSgEnds, UnmapSg, UnmapSgFlushes, InSg, Returned
<1>12. CASE FreeReturns(c)
  <2>1. /\ pc[c] = "unmapped" /\ UNCHANGED << mem, at, pci, lost >> /\ Goto(c, "returned")
        /\ unused' = unused \cup Range(mem[c])
    BY <1>12 DEF FreeReturns
  <2>2. Range(mem[c]) \cap pci = {} /\ Held(c) = Range(mem[c])
    BY <1>3, <2>1 DEF PciOf, Held, Returned
  <2>3. PciKept(c)
    BY <2>1, <2>2 DEF PciKept
  <2> QED
    BY <1>c, <2>1, <2>3 DEF Returned
<1>13. CASE FreeEnds(c)
  BY <1>13, <1>a, <1>b DEF FreeEnds
<1>14. CASE MapSg(c)
  <2>1. PICK n \in 1 .. BufPages : \E s \in PagesFor(n) :
             /\ mem' = [mem EXCEPT ![c] = s] /\ unused' = unused \ Range(s)
             /\ pci' = pci \cup Range(s)
    BY <1>14 DEF MapSg
  <2>2. PICK s \in PagesFor(n) : /\ mem' = [mem EXCEPT ![c] = s] /\ unused' = unused \ Range(s)
                                 /\ pci' = pci \cup Range(s)
    BY <2>1
  <2>3. mem'[c] = s /\ pc'[c] = "mapped pci" /\ lost' = lost
    BY <1>0, <1>14, <2>2 DEF MapSg, Goto, ClientTypes
  <2>4. Held(c)' = Range(s) /\ Range(s) \subseteq pci'
    BY <2>2, <2>3 DEF Held, Returned
  <2>5. PciOf(c)'
    BY <2>3, <2>4 DEF PciOf
  <2>6. PciKept(c)
    BY <1>3, <2>2, <2>3, <2>4 DEF PciKept
  <2> QED
    BY <2>5, <2>6
<1>15. CASE MapSgGetsNone(c)
  <2>1. Held(c) = Range(mem[c])
    BY <1>15 DEF MapSgGetsNone, Held, Returned
  <2>2. PciKept(c)
    BY <1>15, <2>1 DEF MapSgGetsNone, PciKept
  <2> QED
    BY <1>15, <1>b, <2>2 DEF MapSgGetsNone
<1>16. CASE MapSgMaps(c)
  <2>1. pc[c] = "mapping" /\ UNCHANGED << pc, mem, unused, pci, lost >>
    BY <1>16 DEF MapSgMaps
  <2> QED
    BY <1>3, <1>a, <2>1 DEF PciOf, InSg
<1>17. CASE MapSgFails(c)
  <2>1. pc[c] = "mapping" /\ pci' = pci
    BY <1>17 DEF MapSgFails
  <2>2. CASE Goto(c, "failed") /\ UNCHANGED << mem, at, unused, lost >>
    BY <1>a, <1>c, <2>1, <2>2 DEF InSg
  <2>3. CASE /\ Goto(c, "idle") /\ unused' = unused \cup Range(mem[c])
             /\ lost' = lost \cup Range(mem[c]) \cup IovasOf(c)
    <3>1. Held(c) = Range(mem[c])
      BY <2>1 DEF Held, Returned
    <3>2. PciKept(c)
      BY <2>1, <2>3, <3>1 DEF PciKept
    <3> QED
      BY <1>b, <2>3, <3>2
  <2> QED
    BY <1>17, <2>2, <2>3 DEF MapSgFails
<1>18. CASE UnmapSgEnds(c)
  <2>1. /\ pc[c] = "sg flushed" /\ Goto(c, "idle") /\ pci' = pci \ FirstPages(c, at[c])
        /\ lost' = lost \cup (Range(mem[c]) \ FirstPages(c, at[c]))
        /\ unused' = unused \cup Range(mem[c])
    BY <1>18 DEF UnmapSgEnds
  <2>2. Held(c) = Range(mem[c])
    BY <2>1 DEF Held, Returned
  <2>3. FirstPages(c, at[c]) \subseteq Range(mem[c])
    <3>1. \A k \in 1 .. at[c] : k \in 1 .. Len(mem[c])
      BY <1>1
    <3> QED
      BY <1>2, <3>1 DEF FirstPages
  <2>4. PciKept(c)
    BY <2>1, <2>2, <2>3 DEF PciKept
  <2> QED
    BY <1>b, <2>1, <2>4
<1> QED
  BY <1>5, <1>6, <1>7, <1>8, <1>9, <1>10, <1>11, <1>12, <1>13, <1>14, <1>15, <1>16, <1>17, <1>18
     DEF AllocStep, SgStep

LEMMA NextPci == Shape /\ Tables /\ Pages /\ Pci /\ [Next]_vars => Pci'
<1> SUFFICES ASSUME Shape, Tables, Pages, Pci, [Next]_vars PROVE Pci'
  OBVIOUS
<1>1. ASSUME NEW c \in Client, AllocStep(c) \/ SgStep(c) PROVE Pci'
  <2>1. PciKept(c) /\ PciOf(c)' /\ Pages' /\ unused \subseteq Page
    BY <1>1, StepPci, NextPagesHeld DEF Shape, RestTypes
  <2>2. KeepsPages(c) \/ TakesPages(c) \/ ReturnsPages(c)
    BY <1>1, StepPages
  <2>3. unused' \cap pci' \subseteq lost'
    <3>1. ASSUME NEW p \in unused', p \in pci' PROVE p \in lost'
      <4>1. CASE p \in Held(c)
        BY <2>1, <3>1, <4>1 DEF PciKept
      <4>2. CASE p \notin Held(c)
        <5>1. p \in unused /\ p \notin Held(c)'
          BY <2>1, <2>2, <3>1, <4>2 DEF KeepsPages, TakesPages, ReturnsPages, Pages
        <5>2. p \in pci
          BY <2>1, <3>1, <4>2, <5>1 DEF PciKept
        <5> QED
          BY <2>1, <5>1, <5>2 DEF Pci, PciKept
      <4> QED
        BY <4>1, <4>2
    <3> QED
      BY <3>1
  <2>4. ASSUME NEW d \in Client \ {c} PROVE PciOf(d)'
    <3>1. Same(d) /\ Held(d)' = Held(d)
      BY <1>1, OthersAreSame, SameIovas DEF Shape
    <3>2. PciOf(d)
      BY DEF Pci
    <3>3. \A p \in Held(d) : p \notin Held(c) /\ p \notin Held(c)'
      BY <2>1, <3>1 DEF Pages
    <3>4. Held(d) \subseteq Page
      BY MemFacts DEF Held
    <3>5. \A p \in Held(d) : p \in pci' <=> p \in pci
      BY <2>1, <3>3, <3>4 DEF PciKept
    <3>6. lost \subseteq lost'
      BY <2>1 DEF PciKept
    <3>7. CASE pc[d] \in Returned \cup {"idle"}
      BY <3>1, <3>7 DEF PciOf, InSg, Returned, Same
    <3>8. CASE pc[d] \notin Returned \cup {"idle"}
      <4>1. \A p \in Range(mem[d]) : p \in pci' <=> p \in pci
        BY <3>5, <3>8 DEF Held
      <4>2. \A k \in 1 .. Len(mem[d]) : mem[d][k] \in Range(mem[d])
        BY MemFacts
      <4> QED
        BY <3>1, <3>2, <3>6, <4>1, <4>2 DEF PciOf, Same
    <3> QED
      BY <3>7, <3>8
  <2> QED
    BY <2>1, <2>3, <2>4 DEF Pci
<1>2. CASE Resume \/ ResumeFails \/ Suspend \/ PowerOff \/ PowerOffFails
           \/ (\E i \in Iova : DeviceLooksUp(i)) \/ UNCHANGED vars
  BY <1>2, RestKeepsClients DEF Pci, PciOf
<1> QED
  BY <1>1, <1>2 DEF Next

-----------------------------------------------------------------------------
(* The theorems *)

DmaInv == Shape /\ Addresses /\ Pages /\ Tables /\ Remembers /\ Pci

LEMMA InitDma == Init => DmaInv
<1> SUFFICES ASSUME Init PROVE DmaInv
  OBVIOUS
<1>1. 0 \in Iova /\ BufPages \in Nat
  BY DmaAssumption DEF Iova
<1>2. ASSUME NEW c \in Client
      PROVE  /\ pc[c] = "idle" /\ mem[c] = << >> /\ at[c] = 0
             /\ IovasOf(c) = {} /\ Held(c) = {}
  BY <1>2 DEF Init, IovasOf, Held, Returned, Range
<1>3. Shape
  <2>1. ClientTypes
    BY <1>1 DEF Init, ClientTypes
  <2>2. RestTypes
    BY DEF Init, RestTypes
  <2>3. ASSUME NEW c \in Client PROVE ShapeOf(c)
    <3>1. IsInjective(mem[c]) /\ Len(mem[c]) = 0
      BY <1>2 DEF IsInjective
    <3>2. Len(mem[c]) <= BufPages /\ at[c] <= Len(mem[c])
      BY <1>1, <1>2, <3>1
    <3>3. pc[c] = "idle" /\ mem[c] = << >> /\ at[c] = 0
      BY <1>2
    <3> QED
      BY <3>1, <3>2, <3>3 DEF ShapeOf, Live
  <2> QED
    BY <2>1, <2>2, <2>3 DEF Shape
<1>4. Addresses
  BY <1>2 DEF Init, Addresses
<1>5. Pages
  BY <1>2 DEF Pages
<1>6. Tables
  BY <1>2 DEF Init, Tables, Backed, MapsFirst
<1>7. Remembers
  BY <1>2 DEF Init, Remembers
<1>8. Pci
  BY <1>2 DEF Init, Pci, PciOf, InSg
<1> QED
  BY <1>3, <1>4, <1>5, <1>6, <1>7, <1>8 DEF DmaInv

LEMMA DmaInvHolds == Spec => []DmaInv
<1>1. DmaInv /\ [Next]_vars => DmaInv'
  BY NextShape, NextAddresses, NextPagesHeld, NextTables, NextRemembers, NextPci DEF DmaInv
<1> QED
  BY <1>1, InitDma, PTL DEF Spec

\* Every variable keeps its type, with the trash range among the addresses that
\* are handed out: ipu_dma_alloc(), ipu_dma_free(), ipu_dma_map_sg() and
\* ipu_dma_unmap_sg() never go past the end of a buffer or of the aperture.
THEOREM TypeCorrect == Spec => []TypeOK
<1>1. DmaInv => TypeOK
  <2> SUFFICES ASSUME DmaInv PROVE TypeOK
    OBVIOUS
  <2>1. ClientTypes /\ RestTypes /\ trash \subseteq iovad
    BY DEF DmaInv, Shape, Addresses
  <2>2. ASSUME NEW c \in Client
        PROVE  /\ mem[c] \in Seq(Page) /\ Len(mem[c]) <= BufPages
               /\ at[c] \in 0 .. Len(mem[c]) /\ todo[c] \in Seq(1 .. BufPages)
    <3>1. at[c] \in Nat /\ at[c] <= Len(mem[c]) /\ Len(mem[c]) \in Nat /\ Len(mem[c]) <= BufPages
      BY IovaFacts DEF DmaInv, Shape, ShapeOf
    <3>2. at[c] \in 0 .. Len(mem[c])
      BY <3>1
    <3> QED
      BY <2>1, <3>1, <3>2 DEF ClientTypes
  <2> QED
    BY <2>1, <2>2 DEF TypeOK, ClientTypes, RestTypes
<1> QED
  BY <1>1, DmaInvHolds, PTL

\* The page tables that l2_map() and l2_unmap() write have, for an address, the
\* page of the buffer that was given the address, or the trash page, or nothing:
\* whichever step of ipu_dma_alloc() or ipu_dma_map_sg() failed, in whatever
\* order the calls of several threads interleave, none is left to a page that
\* was returned.
THEOREM TablesMatch == Spec => []PageTablesMatchBuffers
<1>1. DmaInv => PageTablesMatchBuffers
  <2> SUFFICES ASSUME DmaInv, NEW i \in Iova
      PROVE  \/ Translate(i) = NoPage
             \/ Translate(i) = TrashPage /\ i \in trash
             \/ /\ Translate(i) \notin unused
                /\ \E c \in Client : i \in IovasOf(c) /\ Translate(i) = PageAt(c, i)
    BY DEF PageTablesMatchBuffers
  <2>1. Translate(i) = pt[i]
    BY TranslateIsEntry DEF DmaInv, Tables
  <2>2. CASE i \in trash
    BY <2>1, <2>2 DEF DmaInv, Tables
  <2>3. CASE i \notin trash /\ \A c \in Client : i \notin IovasOf(c)
    BY <2>1, <2>3 DEF DmaInv, Tables
  <2>4. ASSUME NEW c \in Client, i \in IovasOf(c), pt[i] # NoPage
        PROVE  pt[i] = PageAt(c, i) /\ PageAt(c, i) \notin unused
    <3>1. pt[i] = PageAt(c, i) /\ i - lo[c] < Mapped(c)
      BY <2>4 DEF DmaInv, Tables, MapsFirst
    <3>2. PageAt(c, i) \in Range(mem[c])
      BY <2>4, IovaFacts DEF DmaInv
    <3>3. pc[c] \in Maps
      <4>1. i - lo[c] \in Nat /\ Mapped(c) \in Nat
        BY <2>4, Offsets DEF DmaInv
      <4>2. Mapped(c) # 0
        BY <3>1, <4>1
      <4> QED
        BY <4>2 DEF Mapped
    <3>4. Held(c) = Range(mem[c])
      BY <3>3 DEF Held, Maps, Returned
    <3> QED
      BY <3>1, <3>2, <3>4 DEF DmaInv, Pages
  <2> QED
    BY <2>1, <2>2, <2>3, <2>4
<1> QED
  BY <1>1, DmaInvHolds, PTL

\* tlb_invalidate() runs before ipu_dma_free() and ipu_dma_unmap_sg() give the
\* addresses back, or there is nothing to forget: no translation that the device
\* remembers is of an address that alloc_iova() may hand out.
THEOREM NoStale == Spec => []NoStaleTranslation
<1>1. DmaInv => NoStaleTranslation
  BY DEF DmaInv, Remembers, NoStaleTranslation
<1> QED
  BY <1>1, DmaInvHolds, PTL

\* From the end of ipu_dma_alloc() or ipu_dma_map_sg() to the call that takes the
\* buffer back, the device finds at every address of it the page that belongs
\* there, mapped for the PCI device, whether the TLB or the tables answer.
THEOREM DeviceReaches == Spec => []DeviceReachesBuffers
<1>1. DmaInv => DeviceReachesBuffers
  <2> SUFFICES ASSUME DmaInv, NEW c \in Client, pc[c] \in Live, NEW i \in IovasOf(c)
      PROVE  DeviceSees(i) = PageAt(c, i) /\ PageAt(c, i) \in pci
    BY DEF DeviceReachesBuffers
  <2>1. i \in Iova /\ PageAt(c, i) \in Range(mem[c])
    BY IovaFacts DEF DmaInv
  <2>2. at[c] = Len(mem[c]) /\ Mapped(c) = at[c]
    BY DEF DmaInv, Shape, ShapeOf, Live, Mapped, Maps
  <2>3. pt[i] = PageAt(c, i)
    <3>1. i - lo[c] \in 0 .. Len(mem[c]) - 1 /\ Len(mem[c]) \in Nat
      BY IovaFacts DEF DmaInv
    <3>2. i - lo[c] < Mapped(c)
      BY <2>2, <3>1
    <3> QED
      BY <3>2 DEF DmaInv, Tables, MapsFirst
  <2>4. Translate(i) = pt[i]
    BY <2>1, TranslateIsEntry DEF DmaInv, Tables
  <2>5. ready /\ tlb[i] # Absent => tlb[i] = pt[i]
    <3>1. CASE on
      BY <3>1 DEF DmaInv, Remembers, Live, Stale
    <3>2. CASE ~ on
      BY <2>1, <3>2 DEF DmaInv, Remembers
    <3> QED
      BY <3>1, <3>2
  <2>6. Range(mem[c]) \subseteq pci
    <3>1. PciOf(c) /\ mem[c] \in Seq(Page)
      BY DEF DmaInv, Pci, Shape, ClientTypes
    <3>2. CASE pc[c] = "mapped"
      BY <3>1, <3>2 DEF PciOf, InSg
    <3>3. CASE pc[c] = "allocated"
      <4>1. \A k \in 1 .. Len(mem[c]) : k <= at[c]
        BY <2>2
      <4>2. \A k \in 1 .. Len(mem[c]) : mem[c][k] \in pci
        BY <3>1, <3>3, <4>1 DEF PciOf
      <4>3. DOMAIN mem[c] = 1 .. Len(mem[c])
        BY <3>1, SeqFacts
      <4> QED
        BY <4>2, <4>3 DEF Range
    <3> QED
      BY <3>2, <3>3 DEF Live
  <2> QED
    BY <2>1, <2>3, <2>4, <2>5, <2>6 DEF DeviceSees
<1> QED
  BY <1>1, DmaInvHolds, PTL

\* Addresses that are handed out are those of the trash range, of a buffer, or of
\* a failed ipu_dma_map_sg(), and a page that was returned is mapped for the PCI
\* device only if such a call left it so: out_unmap of ipu_dma_alloc() and
\* ipu_dma_free() undo everything from wherever they start.
THEOREM NoLeak == Spec => []NothingElseLeaks
<1>1. DmaInv => NothingElseLeaks
  BY DEF DmaInv, Addresses, Pci, NothingElseLeaks
<1> QED
  BY <1>1, DmaInvHolds, PTL
=============================================================================
