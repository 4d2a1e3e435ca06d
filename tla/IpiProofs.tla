----------------------------- MODULE IpiProofs -----------------------------
(***************************************************************************)
(* Proofs about the symbol table, its search and the tracing of IPIs, for  *)
(* any size of the table, of an int and of the linear part, any file, any  *)
(* number of CPUs and any ring.                                            *)
(*                                                                         *)
(* KInv is the inductive invariant of Kallsyms: the part still searched is *)
(* in the table and never empty, a table that cmp() can put into an order, *)
(* rotated or not, is in it, and where it is not rotated the address lies  *)
(* between the ends of that part.                                          *)
(***************************************************************************)
EXTENDS Ipi, SequenceTheorems, WellFoundedInduction, TLAPS

Line == [addr : Nat, name : Names, ok : BOOLEAN]

\* The part of the table still searched.
SearchOK ==
  /\ phase = "binary" =>
       /\ start < end /\ end < MAX_NUM_SYMBOLS
       /\ end - start >= 2 => start < pivot /\ pivot < end
  /\ phase = "linear" => start <= end /\ 1 <= end /\ end < MAX_NUM_SYMBOLS

\* Parsing is over once the table is ready, and a search needs it.
ReadyOK ==
  /\ ready => phase \notin {"kptr", "open", "read", "sort"}
  /\ phase \in {"binary", "linear", "found"} => ready

InOrder(f, cut) == \A x, y \in Index : x <= y => ~Precedes(f[y].addr, f[x].addr, cut)

\* The sorted table is in every order that cmp() keeps to.
SortedOK == ready => \A cut \in Nat : OrderedFrom(cut) => InOrder(symbols, cut)

\* The address is after the first symbol of the part, or before all, and
\* before its last one.
After(x) == x = 0 \/ symbols[x].addr < address \/ symbols[0].addr > address
Before(x) == x = MAX_NUM_SYMBOLS - 1 \/ address < symbols[x].addr

NearOK ==
  ready /\ Ascending =>
    /\ phase = "binary" => After(start) /\ Before(end)
    /\ phase = "linear" => After(start) /\ Before(end)

KInv ==
  /\ TypeOK /\ lines \in Seq(Line)
  /\ SearchOK /\ ReadyOK /\ SortedOK /\ NearOK /\ NamesNearest

-----------------------------------------------------------------------------
(* Order from neighbour to neighbour is order: by the least counterexample *)
(* among the distances.                                                    *)

\* The naturals are well ordered.
LEMMA Smallest ==
  ASSUME NEW T, T \subseteq Nat, T # {}
  PROVE  \E x \in T : \A y \in T : x <= y
<1> DEFINE R == OpToRel(<, Nat)
<1>1. IsWellFoundedOn(R, Nat)
  BY NatLessThanWellFounded
<1>2. \A x, y \in Nat : y < x => <<y, x>> \in R
  BY DEF OpToRel
<1> HIDE DEF R
<1>3. PICK x \in T : \A y \in T : ~(<<y, x>> \in R)
  BY <1>1, WFMin
<1>4. x \in Nat /\ \A y \in T : y \in Nat /\ ~(y < x)
  BY <1>2, <1>3
<1> QED
  BY <1>4

\* No address precedes an earlier one when none precedes its neighbour.
LEMMA NeighboursSuffice ==
  ASSUME NEW f, \A x \in Index : f[x].addr \in Nat, NEW cut \in Nat,
         \A x \in Index : x + 1 \in Index => ~Precedes(f[x + 1].addr, f[x].addr, cut)
  PROVE  InOrder(f, cut)
<1> DEFINE Bad == {d \in Nat : \E x \in Index : x + d \in Index /\ Precedes(f[x + d].addr, f[x].addr, cut)}
<1>0. \A m, n, o \in Nat : ~Precedes(n, m, cut) /\ ~Precedes(o, n, cut) => ~Precedes(o, m, cut)
  BY DEF Precedes
<1>1. \A m \in Nat : ~Precedes(m, m, cut)
  BY DEF Precedes
<1>2. Bad = {}
  <2> SUFFICES ASSUME Bad # {} PROVE FALSE
    OBVIOUS
  <2>1. PICK d \in Bad : \A e \in Bad : d <= e
    BY Smallest
  <2>2. PICK x \in Index : x + d \in Index /\ Precedes(f[x + d].addr, f[x].addr, cut)
    BY <2>1
  <2>3. d # 0 /\ x \in Nat /\ d \in Nat
    <3>1. x \in Nat /\ d \in Nat
      BY <2>1, <2>2, KallsymsAssumption DEF Index
    <3>2. ASSUME d = 0 PROVE FALSE
      <4>1. x + d = x
        BY <3>1, <3>2
      <4> QED
        BY <1>1, <2>2, <4>1
    <3> QED
      BY <3>1, <3>2
  <2>4. d - 1 \in Nat /\ ~(d - 1 \in Bad)
    BY <2>1, <2>3
  <2>5. x + (d - 1) \in Index
    <3>1. MAX_NUM_SYMBOLS \in Nat
      BY KallsymsAssumption
    <3> QED
      BY <2>2, <2>3, <3>1 DEF Index
  <2>6. ~Precedes(f[x + (d - 1)].addr, f[x].addr, cut)
    BY <2>4, <2>5
  <2>7. ~Precedes(f[x + d].addr, f[x + (d - 1)].addr, cut)
    <3>1. (x + (d - 1)) + 1 = x + d
      BY <2>3
    <3> QED
      BY <3>1, <2>2, <2>5
  <2> QED
    BY <1>0, <2>2, <2>5, <2>6, <2>7
<1> SUFFICES ASSUME NEW x \in Index, NEW y \in Index, x <= y
             PROVE  ~Precedes(f[y].addr, f[x].addr, cut)
  BY DEF InOrder
<1>3. y - x \in Nat /\ x + (y - x) = y
  BY KallsymsAssumption DEF Index
<1> QED
  BY <1>2, <1>3

\* The orders of a table are a matter of its addresses.
LEMMA OrderFrame ==
  ASSUME symbols' = symbols
  PROVE  /\ TableAddrs' = TableAddrs
         /\ \A cut : OrderedFrom(cut)' <=> OrderedFrom(cut)
         /\ Orderly' <=> Orderly
         /\ Ascending' <=> Ascending
<1>1. TableAddrs' = TableAddrs
  BY DEF TableAddrs
<1>2. \A cut : OrderedFrom(cut)' <=> OrderedFrom(cut)
  BY <1>1 DEF OrderedFrom
<1> QED
  BY <1>1, <1>2 DEF Orderly, Ascending

\* An order that is not rotated is one of them.
LEMMA AscendingIsOrderly ==
  /\ Ascending => Orderly
  /\ Ascending /\ SortedOK /\ ready => InOrder(symbols, 0)
  BY DEF Ascending, Orderly, SortedOK

-----------------------------------------------------------------------------
(* KInv is inductive.                                                      *)

\* Nothing is read yet.
LEMMA KInit == Init => KInv
<1> SUFFICES ASSUME Init PROVE KInv
  OBVIOUS
<1>1. TypeOK
  <2>1. symbols \in [Index -> [addr : Nat, name : Names]]
    BY KallsymsAssumption DEF Init
  <2>2. 0 \in Index /\ 0 \in 0..MAX_NUM_SYMBOLS
    BY KallsymsAssumption DEF Index
  <2>3. phase \in Phases
    BY DEF Init, Phases
  <2> QED
    BY <2>1, <2>2, <2>3 DEF Init, TypeOK
<1>2. lines \in Seq(Line)
  BY KallsymsAssumption DEF Init, Line
<1> QED
  BY <1>1, <1>2 DEF Init, KInv, SearchOK, ReadyOK, SortedOK, NearOK, NamesNearest

\* Reading the file: the table is not ready yet.
LEMMA ReadingKeeps ==
  ASSUME KInv, CheckKptr \/ OpenKallsyms \/ ReadLine \/ ReadEnd
  PROVE  KInv'
<1>1. phase \in {"kptr", "open", "read"} /\ ready = FALSE /\ ready' = ready
      /\ UNCHANGED findVars
  BY DEF KInv, ReadyOK, TypeOK, CheckKptr, OpenKallsyms, ReadLine, ReadEnd, tableVars
<1>2. phase' \in {"open", "read", "sort", "idle"}
  BY DEF CheckKptr, OpenKallsyms, ReadLine, ReadEnd
<1>3. i' \in 0..MAX_NUM_SYMBOLS /\ symbols' \in [Index -> [addr : Nat, name : Names]]
      /\ lines' \in Seq(Line)
  <2>1. CASE ReadLine
    <3>1. lines \in Seq(Line) /\ lines # <<>> /\ i \in Nat /\ i < MAX_NUM_SYMBOLS /\ i \in Index
      BY <2>1, KallsymsAssumption DEF KInv, TypeOK, ReadLine, Index
    <3>2. Head(lines) \in Line /\ Tail(lines) \in Seq(Line)
      BY <3>1, HeadTailProperties
    <3>3. Head(lines).addr \in Nat /\ Head(lines).name \in Names
      BY <3>2 DEF Line
    <3>4. symbols \in [Index -> [addr : Nat, name : Names]]
      BY DEF KInv, TypeOK
    <3>5. CASE Head(lines).ok
      <4>1. symbols' = [symbols EXCEPT ![i] = [addr |-> Head(lines).addr, name |-> Head(lines).name]]
            /\ i' = i + 1 /\ lines' = Tail(lines)
        BY <2>1, <3>5 DEF ReadLine
      <4> QED
        BY <3>1, <3>2, <3>3, <3>4, <4>1, KallsymsAssumption
    <3>6. CASE ~Head(lines).ok
      <4>1. symbols' = [symbols EXCEPT ![i].addr = Head(lines).addr] /\ i' = i /\ lines' = lines
        BY <2>1, <3>6 DEF ReadLine
      <4> QED
        <5>1. symbols' \in [Index -> [addr : Nat, name : Names]]
          <6>1. ASSUME NEW k \in Index PROVE symbols'[k] \in [addr : Nat, name : Names]
            BY <3>1, <3>3, <3>4, <4>1
          <6>2. symbols' = [k \in Index |-> symbols'[k]]
            BY <3>4, <4>1
          <6> QED
            BY <6>1, <6>2
        <5> QED
          BY <3>1, <4>1, <5>1, KallsymsAssumption
    <3> QED
      BY <3>5, <3>6
  <2>2. CASE CheckKptr \/ OpenKallsyms \/ ReadEnd
    BY <2>2 DEF KInv, TypeOK, CheckKptr, OpenKallsyms, ReadEnd, tableVars
  <2> QED
    BY <2>1, <2>2
<1>4. TypeOK'
  BY <1>1, <1>2, <1>3 DEF KInv, TypeOK, Phases, findVars
<1> QED
  BY <1>1, <1>2, <1>3, <1>4 DEF KInv, SearchOK, ReadyOK, SortedOK, NearOK, NamesNearest

\* qsort() leaves the table in any order that cmp() keeps to.
LEMMA SortKeeps ==
  ASSUME KInv, Sort
  PROVE  KInv'
<1>1. PICK p \in Rearrangements : Sorted(p) /\ symbols' = [x \in Index |-> symbols[p[x]]]
  BY DEF Sort
<1>2. /\ phase = "sort" /\ phase' = "idle" /\ ready' = TRUE
      /\ UNCHANGED <<lines, i, findVars>>
  BY DEF Sort
<1>3. p \in [Index -> Index]
  BY DEF Rearrangements
<1>4. symbols' \in [Index -> [addr : Nat, name : Names]]
  BY <1>1, <1>3 DEF KInv, TypeOK
<1>5. ASSUME NEW cut \in Nat, OrderedFrom(cut)' PROVE InOrder(symbols', cut)
  <2>1. \A x \in Index : x + 1 \in Index => ~Precedes(symbols'[x + 1].addr, symbols'[x].addr, cut)
    <3> SUFFICES ASSUME NEW x \in Index, x + 1 \in Index,
                        Precedes(symbols'[x + 1].addr, symbols'[x].addr, cut)
                 PROVE  FALSE
      OBVIOUS
    <3>1. Truncated(symbols'[x].addr - symbols'[x + 1].addr) <= 0
      BY <1>1, <1>3 DEF Sorted, cmp
    <3>2. symbols'[x].addr \in TableAddrs' /\ symbols'[x + 1].addr \in TableAddrs'
      BY DEF TableAddrs
    <3>3. Truncated(symbols'[x].addr - symbols'[x + 1].addr) > 0
      BY <1>5, <3>2 DEF OrderedFrom
    <3>4. symbols'[x].addr \in Nat /\ symbols'[x + 1].addr \in Nat
      BY <1>4
    <3>5. Truncated(symbols'[x].addr - symbols'[x + 1].addr) \in Int
      BY <3>4, KallsymsAssumption DEF Truncated
    <3> HIDE DEF Truncated
    <3> QED
      BY <3>1, <3>3, <3>5
  <2>2. \A x \in Index : symbols'[x].addr \in Nat
    BY <1>4
  <2> QED
    BY <2>1, <2>2, NeighboursSuffice
<1>6. TypeOK'
  BY <1>2, <1>4 DEF KInv, TypeOK, Phases, findVars
<1> QED
  BY <1>2, <1>5, <1>6 DEF KInv, SearchOK, ReadyOK, SortedOK, NearOK, NamesNearest

\* A lookup begins with the whole table.
LEMMA FindKeeps ==
  ASSUME KInv, NEW a \in Nat, Find(a)
  PROVE  KInv'
<1>1. phase = "idle" /\ address' = a /\ UNCHANGED <<tableVars, result>>
  BY DEF Find
<1>2. CASE a = 0 \/ ~ready
  <2>1. phase' = "null" /\ UNCHANGED <<start, pivot, end>>
    BY <1>2 DEF Find
  <2>2. TypeOK'
    BY <1>1, <2>1 DEF KInv, TypeOK, Phases, tableVars
  <2> QED
    BY <1>1, <1>2, <2>1, <2>2, OrderFrame
       DEF KInv, SearchOK, ReadyOK, SortedOK, NearOK, NamesNearest, tableVars
<1>3. CASE a # 0 /\ ready
  <2>1. phase' = "binary" /\ start' = 0 /\ pivot' = MAX_NUM_SYMBOLS \div 2
        /\ end' = MAX_NUM_SYMBOLS - 1
    BY <1>3 DEF Find, Search
  <2>2. TypeOK'
    BY <1>1, <2>1, KallsymsAssumption DEF KInv, TypeOK, Phases, tableVars
  <2>3. SearchOK'
    BY <2>1, KallsymsAssumption DEF SearchOK
  <2>4. NearOK' /\ SortedOK'
    BY <1>1, <2>1, OrderFrame DEF KInv, NearOK, SortedOK, After, Before, tableVars
  <2> QED
    BY <1>1, <1>3, <2>1, <2>2, <2>3, <2>4 DEF KInv, ReadyOK, NamesNearest, tableVars
<1> QED
  BY <1>2, <1>3

\* The order of a table between two entries of it.
LEMMA OrderBounds ==
  ASSUME TypeOK, InOrder(symbols, 0)
  PROVE  /\ \A y \in TableAddrs : y \in Nat
         /\ (\A y \in TableAddrs : y < address) <=> symbols[MAX_NUM_SYMBOLS - 1].addr < address
         /\ (\A y \in TableAddrs : y > address) <=> symbols[0].addr > address
<1>1. 0 \in Index /\ MAX_NUM_SYMBOLS - 1 \in Index
  BY KallsymsAssumption DEF Index
<1>2. \A y \in Index : 0 <= y /\ y <= MAX_NUM_SYMBOLS - 1
  BY KallsymsAssumption DEF Index
<1>3. \A y \in Index : symbols[y].addr \in Nat /\ symbols[0].addr <= symbols[y].addr
                       /\ symbols[y].addr <= symbols[MAX_NUM_SYMBOLS - 1].addr
  BY <1>1, <1>2 DEF InOrder, TypeOK, Precedes
<1>4. address \in Nat
  BY DEF TypeOK
<1> QED
  BY <1>1, <1>3, <1>4 DEF TableAddrs

\* An entry at or before the address, whose successor is not before it, is
\* the nearest one: the successor of the last address of a rotated table is
\* its smallest one, which comes before the address.
LEMMA Nearest ==
  ASSUME TypeOK, NEW cut \in Nat, InOrder(symbols, cut), NEW x \in Index, symbols[x].addr <= address,
         symbols[x].addr = address \/ (x + 1 \in Index /\ symbols[x + 1].addr >= address)
  PROVE  \A y \in TableAddrs : y < address => y <= symbols[x].addr
<1> SUFFICES ASSUME NEW y \in Index, symbols[y].addr < address
             PROVE  symbols[y].addr <= symbols[x].addr
  BY DEF TableAddrs
<1>1. x \in Int /\ y \in Int /\ address \in Nat
      /\ \A z \in Index : symbols[z].addr \in Nat
  BY DEF TypeOK, Index
<1>2. CASE symbols[x].addr = address
  BY <1>1, <1>2
<1>3. CASE x + 1 \in Index /\ symbols[x + 1].addr >= address
  <2>1. ~Precedes(symbols[x + 1].addr, symbols[x].addr, cut)
    BY <1>1, <1>3 DEF InOrder
  <2>2. CASE y <= x
    <3>1. ~Precedes(symbols[x].addr, symbols[y].addr, cut)
      BY <2>2 DEF InOrder
    <3> QED
      BY <1>1, <1>3, <2>1, <3>1 DEF Precedes
  <2>3. CASE x + 1 <= y
    <3>1. ~Precedes(symbols[y].addr, symbols[x + 1].addr, cut)
      BY <1>3, <2>3 DEF InOrder
    <3> QED
      BY <1>1, <1>3, <2>1, <3>1 DEF Precedes
  <2> QED
    BY <1>1, <2>2, <2>3
<1> QED
  BY <1>2, <1>3

\* The same for a table that is in some order.
LEMMA NearestOrderly ==
  ASSUME KInv, ready, Orderly, NEW x \in Index, symbols[x].addr <= address,
         symbols[x].addr = address \/ (x + 1 \in Index /\ symbols[x + 1].addr >= address)
  PROVE  \A y \in TableAddrs : y < address => y <= symbols[x].addr
<1>1. TypeOK /\ SortedOK
  BY DEF KInv
<1>2. PICK cut \in {0} \cup TableAddrs : OrderedFrom(cut)
  BY DEF Orderly
<1>3. cut \in Nat
  BY <1>1 DEF TypeOK, TableAddrs
<1>4. InOrder(symbols, cut)
  BY <1>1, <1>2, <1>3 DEF SortedOK
<1> QED
  BY <1>1, <1>3, <1>4, Nearest

\* A step of the binary search.
LEMMA HalveKeeps ==
  ASSUME KInv, Halve
  PROVE  KInv'
<1>1. /\ phase = "binary" /\ ~(end - start <= LINEAR)
      /\ UNCHANGED <<lines, i, symbols, ready, address>>
  BY DEF Halve, SmallPart, tableVars
<1>2. start \in Nat /\ end \in Nat /\ pivot \in Nat /\ LINEAR \in Nat /\ LINEAR >= 1
      /\ MAX_NUM_SYMBOLS \in Nat /\ address \in Nat
  BY KallsymsAssumption DEF KInv, TypeOK
<1>3. start < pivot /\ pivot < end /\ end < MAX_NUM_SYMBOLS /\ pivot \in Index /\ ready
  BY <1>1, <1>2 DEF KInv, SearchOK, ReadyOK, Index
<1>4. symbols[pivot].addr \in Nat
  BY <1>3 DEF KInv, TypeOK
<1>5. CASE address = symbols[pivot].addr /\ Found(pivot) /\ UNCHANGED <<start, pivot, end>>
  <2>1. phase' = "found" /\ result' = pivot
    BY <1>5 DEF Found
  <2>2. TypeOK'
    BY <1>1, <1>3, <1>5, <2>1 DEF KInv, TypeOK, Phases
  <2>3. ASSUME Orderly PROVE \A x \in TableAddrs : x < address => x <= symbols[pivot].addr
    <3>1. symbols[pivot].addr <= address
      BY <1>2, <1>5
    <3> QED
      BY <1>3, <1>5, <2>3, <3>1, NearestOrderly
  <2>5. NamesNearest'
    BY <1>1, <1>4, <1>5, <2>1, <2>3, OrderFrame DEF NamesNearest
  <2>6. NearOK' /\ SortedOK'
    BY <1>1, <1>3, <2>1, OrderFrame DEF KInv, NearOK, SortedOK
  <2> QED
    BY <1>1, <1>3, <2>1, <2>2, <2>5, <2>6 DEF KInv, SearchOK, ReadyOK
<1>6. CASE address > symbols[pivot].addr /\ Search(pivot, pivot + (end - pivot) \div 2, end)
           /\ UNCHANGED <<phase, result>>
  <2>1. start' = pivot /\ pivot' = pivot + (end - pivot) \div 2 /\ end' = end
    BY <1>6 DEF Search
  <2>2. (end - pivot) \div 2 \in Nat
        /\ (end - pivot >= 2 => (end - pivot) \div 2 >= 1 /\ (end - pivot) \div 2 < end - pivot)
    BY <1>2, <1>3
  <2>3. TypeOK'
    BY <1>1, <1>2, <1>6, <2>1, <2>2 DEF KInv, TypeOK
  <2>4. SearchOK'
    BY <1>1, <1>2, <1>3, <1>6, <2>1, <2>2 DEF SearchOK
  <2>5. NearOK' /\ SortedOK'
    BY <1>1, <1>2, <1>3, <1>4, <1>6, <2>1, OrderFrame DEF KInv, NearOK, SortedOK, After, Before
  <2> QED
    BY <1>1, <1>3, <1>6, <2>3, <2>4, <2>5 DEF KInv, ReadyOK, NamesNearest
<1>7. CASE address < symbols[pivot].addr /\ Search(start, start + (pivot - start) \div 2, pivot)
           /\ UNCHANGED <<phase, result>>
  <2>1. start' = start /\ pivot' = start + (pivot - start) \div 2 /\ end' = pivot
    BY <1>7 DEF Search
  <2>2. (pivot - start) \div 2 \in Nat
        /\ (pivot - start >= 2 => (pivot - start) \div 2 >= 1 /\ (pivot - start) \div 2 < pivot - start)
    BY <1>2, <1>3
  <2>3. TypeOK'
    BY <1>1, <1>2, <1>7, <2>1, <2>2 DEF KInv, TypeOK
  <2>4. SearchOK'
    BY <1>1, <1>2, <1>3, <1>7, <2>1, <2>2 DEF SearchOK
  <2>5. NearOK' /\ SortedOK'
    BY <1>1, <1>2, <1>3, <1>4, <1>7, <2>1, OrderFrame DEF KInv, NearOK, SortedOK, After, Before
  <2> QED
    BY <1>1, <1>3, <1>7, <2>3, <2>4, <2>5 DEF KInv, ReadyOK, NamesNearest
<1> QED
  BY <1>5, <1>6, <1>7 DEF Halve

\* The linear search, its beginning and its end without a result.
LEMMA LinearKeeps ==
  ASSUME KInv, ToLinear \/ Linear \/ NotFound
  PROVE  KInv'
<1>0. /\ start \in Nat /\ end \in Nat /\ pivot \in Nat /\ address \in Nat
      /\ MAX_NUM_SYMBOLS \in Nat /\ MAX_NUM_SYMBOLS >= 4
  BY KallsymsAssumption DEF KInv, TypeOK
<1>1. UNCHANGED <<lines, i, symbols, ready, address, pivot, end>>
  BY DEF ToLinear, Linear, NotFound, tableVars, findVars
<1>2. /\ TableAddrs' = TableAddrs /\ (Orderly' <=> Orderly) /\ (Ascending' <=> Ascending)
      /\ SortedOK'
  BY <1>1, OrderFrame DEF KInv, SortedOK
<1>3. \A x \in Index : symbols[x].addr \in Nat
  BY DEF KInv, TypeOK
<1>4. CASE ToLinear
  <2>1. phase = "binary" /\ phase' = "linear" /\ UNCHANGED <<start, result>>
    BY <1>4 DEF ToLinear, findVars
  <2>2. TypeOK'
    BY <1>1, <2>1 DEF KInv, TypeOK, Phases
  <2>3. SearchOK'
    BY <1>0, <1>1, <2>1 DEF KInv, SearchOK
  <2>4. NearOK'
    BY <1>1, <1>2, <2>1 DEF KInv, NearOK, After, Before
  <2> QED
    BY <1>1, <1>2, <2>1, <2>2, <2>3, <2>4 DEF KInv, ReadyOK, NamesNearest
<1>5. ASSUME phase = "linear", start <= end - 1
      PROVE  start \in Index /\ start + 1 \in Index
  BY <1>0, <1>5 DEF KInv, SearchOK, Index
<1>6. CASE Linear /\ Brackets(start)
  <2>1. phase = "linear" /\ start <= end - 1 /\ phase' = "found" /\ result' = start /\ start' = start
    BY <1>6 DEF Linear, LinearLeft, Found
  <2>2. symbols[start].addr <= address /\ symbols[start + 1].addr >= address
    BY <1>6 DEF Brackets
  <2>3. ASSUME Orderly PROVE \A x \in TableAddrs : x < address => x <= symbols[start].addr
    <3>1. ready
      BY <2>1 DEF KInv, ReadyOK
    <3> QED
      BY <1>5, <2>1, <2>2, <2>3, <3>1, NearestOrderly
  <2>4. TypeOK'
    BY <1>1, <1>5, <2>1 DEF KInv, TypeOK, Phases
  <2>5. NamesNearest'
    BY <1>1, <1>2, <2>1, <2>2, <2>3 DEF NamesNearest
  <2>6. NearOK'
    BY <1>1, <1>2, <2>1 DEF KInv, NearOK
  <2> QED
    BY <1>1, <1>2, <2>1, <2>4, <2>5, <2>6 DEF KInv, SearchOK, ReadyOK
<1>7. CASE Linear /\ ~Brackets(start)
  <2>1. phase = "linear" /\ start <= end - 1 /\ start' = start + 1 /\ UNCHANGED <<phase, result>>
    BY <1>7 DEF Linear, LinearLeft
  <2>2. ASSUME After(start) PROVE After(start)'
    <3>1. symbols[start].addr > address \/ symbols[start + 1].addr < address
      BY <1>0, <1>3, <1>5, <1>7, <2>1 DEF Brackets
    <3>2. CASE symbols[start + 1].addr < address
      BY <1>1, <2>1, <3>2 DEF After
    <3>3. CASE symbols[start].addr > address
      <4>1. symbols[0].addr > address
        BY <1>0, <1>3, <1>5, <2>1, <2>2, <3>3 DEF After
      <4> QED
        BY <1>1, <4>1 DEF After
    <3> QED
      BY <3>1, <3>2, <3>3
  <2>3. TypeOK'
    BY <1>0, <1>1, <2>1 DEF KInv, TypeOK
  <2>4. SearchOK'
    BY <1>0, <1>1, <2>1 DEF KInv, SearchOK
  <2>5. NearOK'
    BY <1>1, <1>2, <2>1, <2>2 DEF KInv, NearOK, Before
  <2> QED
    BY <1>1, <1>2, <2>1, <2>3, <2>4, <2>5 DEF KInv, ReadyOK, NamesNearest
<1>8. CASE NotFound
  <2>1. phase = "linear" /\ ~(start <= end - 1) /\ phase' = "null" /\ UNCHANGED <<start, result>>
    BY <1>8 DEF NotFound, LinearLeft, findVars
  <2>2. start = end /\ end \in Index /\ end # 0
    BY <1>0, <2>1 DEF KInv, SearchOK, Index
  <2>3. ASSUME Ascending PROVE Outside(address)
    <3>1. TypeOK /\ InOrder(symbols, 0) /\ After(end) /\ Before(end)
      BY <2>1, <2>2, <2>3, AscendingIsOrderly DEF KInv, NearOK, ReadyOK
    <3>2. symbols[MAX_NUM_SYMBOLS - 1].addr < address \/ symbols[0].addr > address
      BY <1>0, <1>3, <2>2, <3>1 DEF After, Before
    <3> QED
      BY <3>1, <3>2, OrderBounds DEF Outside
  <2>4. TypeOK'
    BY <1>1, <2>1 DEF KInv, TypeOK, Phases
  <2>5. NamesNearest'
    BY <1>1, <1>2, <2>1, <2>3 DEF NamesNearest, Outside
  <2>6. NearOK'
    BY <1>1, <1>2, <2>1 DEF KInv, NearOK
  <2> QED
    BY <1>1, <1>2, <2>1, <2>4, <2>5, <2>6 DEF KInv, SearchOK, ReadyOK
<1> QED
  BY <1>4, <1>6, <1>7, <1>8

\* The answer is taken.
LEMMA ReturnKeeps ==
  ASSUME KInv, Return
  PROVE  KInv'
<1>1. phase \in {"found", "null"} /\ phase' = "idle" /\ UNCHANGED <<tableVars, findVars>>
  BY DEF Return
<1> QED
  BY <1>1, OrderFrame DEF KInv, TypeOK, Phases, SearchOK, ReadyOK, SortedOK, NearOK, NamesNearest,
                          tableVars, findVars

\* Nothing happens.
LEMMA StutterKeeps ==
  ASSUME KInv, UNCHANGED vars
  PROVE  KInv'
<1>1. UNCHANGED <<phase, lines, i, symbols, ready, address, start, pivot, end, result>>
  BY DEF vars, tableVars, findVars
<1> QED
  BY <1>1, OrderFrame DEF KInv, TypeOK, SearchOK, ReadyOK, SortedOK, NearOK, NamesNearest, After,
                          Before, Outside

\* No step of the parser or of a lookup breaks it.
LEMMA KInductive == KInv /\ [Next]_vars => KInv'
<1> SUFFICES ASSUME KInv, [Next]_vars PROVE KInv'
  OBVIOUS
<1>1. CASE Parse
  BY <1>1, ReadingKeeps, SortKeeps DEF Parse
<1>2. ASSUME NEW a \in Addresses, Find(a) PROVE KInv'
  BY <1>2, FindKeeps, KallsymsAssumption
<1>3. CASE FindStep
  BY <1>3, HalveKeeps, LinearKeeps DEF FindStep
<1>4. CASE Return
  BY <1>4, ReturnKeeps
<1>5. CASE UNCHANGED vars
  BY <1>5, StutterKeeps
<1> QED
  BY <1>1, <1>2, <1>3, <1>4, <1>5 DEF Next

\* The parser and the lookups of any addresses keep KInv.
THEOREM KInvariance == Spec => []KInv
  BY KInit, KInductive, PTL DEF Spec

\* What is read next is in the part still searched.
LEMMA KInvReads == KInv => ReadsInBounds
<1> SUFFICES ASSUME KInv PROVE ReadsInBounds
  OBVIOUS
<1>1. start \in Nat /\ end \in Nat /\ pivot \in Nat /\ MAX_NUM_SYMBOLS \in Nat
      /\ LINEAR \in Nat \ {0}
  BY KallsymsAssumption DEF KInv, TypeOK
<1>2. phase \in {"binary", "linear"} => end >= 1 /\ start <= end
  BY <1>1 DEF KInv, SearchOK
<1>3. phase = "binary" /\ ~SmallPart => pivot \in Index
  BY <1>1 DEF KInv, SearchOK, SmallPart, Index
<1>4. phase = "linear" /\ LinearLeft => start \in Index /\ start + 1 \in Index
  BY <1>1 DEF KInv, SearchOK, LinearLeft, Index
<1> QED
  BY <1>2, <1>3, <1>4 DEF ReadsInBounds, Reads

-----------------------------------------------------------------------------
(* The tracing of IPIs.                                                    *)

Record == [from : Cpus, target : Cpus, callsite : Addresses, callback : Addresses]
Argument == [label : Names \cup {"CALLSITE", "CALLBACK"}, val : Nat]
Slice == [target : Cpus, callsite : Argument, callback : Argument]

IpiTypeOK ==
  /\ ring \in Seq(Record)
  /\ stage \in {"none", "callsite", "callback"}
  /\ site \in Index \cup {NULL}
  /\ slices \in [Cpus -> Seq(Slice)]
  /\ sent \in [Cpus -> Seq(Record)]

Searching == {"binary", "linear", "found", "null"}

\* A lookup is one of the record at the head of the ring, and what the first
\* one returned fits that record.
StageOK ==
  /\ stage = "none" => phase \notin Searching
  /\ stage = "callsite" => phase \in Searching /\ address = Head(ring).callsite
  /\ stage = "callback" =>
       /\ phase \in Searching \cup {"idle"}
       /\ phase # "idle" => address = Head(ring).callback
       /\ (ready => Orderly) =>
            Stands(Arg(site, "CALLSITE", 1, Head(ring).callsite), "CALLSITE", 1, Head(ring).callsite)
  /\ stage # "none" => ring # <<>>

\* No program is attached before the table is there.
AttachedLast ==
  phase \in {"kptr", "open", "read", "sort"} =>
    ring = <<>> /\ \A c \in Cpus : slices[c] = <<>>

\* g counts, record by record of the ring, the IPIs of each CPU before it:
\* from those that are shown to those that are sent.
Counts(g, r, shown, took) ==
  /\ g \in [1..(Len(r) + 1) -> [Cpus -> Nat]]
  /\ \A c \in Cpus : g[1][c] = Len(shown[c])
  /\ \A c \in Cpus : g[Len(r) + 1][c] = Len(took[c])
  /\ \A n \in 1..Len(r) :
       /\ g[n + 1] = [g[n] EXCEPT ![r[n].from] = @ + 1]
       /\ g[n + 1][r[n].from] \in 1..Len(took[r[n].from])
       /\ r[n] = took[r[n].from][g[n + 1][r[n].from]]

RingOK == \E g : Counts(g, ring, slices, sent)

\* No more is shown than was sent.
ShownSent == \A c \in Cpus : Len(slices[c]) <= Len(sent[c])

IpiInv ==
  /\ KInv /\ IpiTypeOK /\ StageOK /\ AttachedLast /\ RingOK /\ ShownSent
  /\ SlicesOfSender

\* Nothing is sent yet.
LEMMA IpiInitOK == IpiInit => IpiInv
<1> SUFFICES ASSUME IpiInit PROVE IpiInv
  OBVIOUS
<1>1. KInv /\ phase = "kptr" /\ ring = <<>> /\ stage = "none"
  BY KInit DEF IpiInit, Init
<1>2. IpiTypeOK
  BY DEF IpiInit, IpiTypeOK
<1>3. \A c \in Cpus : Len(slices[c]) = 0 /\ Len(sent[c]) = 0 /\ slices[c] = <<>>
  BY DEF IpiInit
<1>4. RingOK
  <2> DEFINE g == [n \in 1..1 |-> [c \in Cpus |-> 0]]
  <2>1. Counts(g, ring, slices, sent)
    BY <1>1, <1>3 DEF Counts
  <2> QED
    BY <2>1 DEF RingOK
<1>5. SlicesOfSender
  BY <1>3 DEF SlicesOfSender
<1> QED
  BY <1>1, <1>2, <1>3, <1>4, <1>5 DEF IpiInv, StageOK, Searching, AttachedLast, ShownSent

\* The handler asks the search only for addresses of records: a step of the
\* composition is a step of Kallsyms, or leaves it alone.
LEMMA IpiStepSimulates ==
  ASSUME IpiTypeOK, StageOK, [IpiNext]_<<vars, ipiVars>>
  PROVE  [Next]_vars
<1>1. CASE LookUpCallsite
  <2>1. Head(ring).callsite \in Addresses
    <3>1. ring \in Seq(Record) /\ ring # <<>>
      BY <1>1 DEF IpiTypeOK, LookUpCallsite
    <3>2. Head(ring) \in Record
      BY <3>1, HeadTailProperties
    <3> QED
      BY <3>2 DEF Record
  <2> QED
    BY <1>1, <2>1 DEF LookUpCallsite, Next
<1>2. CASE LookUpCallback
  <2>1. Head(ring).callback \in Addresses
    <3>1. ring \in Seq(Record) /\ ring # <<>>
      BY <1>2 DEF IpiTypeOK, LookUpCallback, StageOK
    <3>2. Head(ring) \in Record
      BY <3>1, HeadTailProperties
    <3> QED
      BY <3>2 DEF Record
  <2> QED
    BY <1>2, <2>1 DEF LookUpCallback, Next
<1> QED
  BY <1>1, <1>2 DEF IpiNext, IpiSendCpu, TakeCallsite, TraceIpi, Next

\* What stands for an address is a matter of the table alone.
LEMMA StandsFrame ==
  ASSUME UNCHANGED <<symbols, ready>>
  PROVE  /\ (ready => Orderly)' <=> (ready => Orderly)
         /\ \A arg, label, tag, addr :
              Stands(arg, label, tag, addr) => Stands(arg, label, tag, addr)'
  BY OrderFrame DEF Stands, Outside

\* The slices of before stay right while the table is what it was.
LEMMA SlicesFrame ==
  ASSUME SlicesOfSender, UNCHANGED <<symbols, ready, slices>>,
         \A c \in Cpus : \A k \in 1..Len(slices[c]) :
           sent'[c][k] = sent[c][k] /\ (k <= Len(sent[c]) => k <= Len(sent'[c]))
  PROVE  SlicesOfSender'
<1> SUFFICES ASSUME NEW c \in Cpus, NEW k \in 1..Len(slices[c])
             PROVE  /\ k <= Len(sent'[c])
                    /\ slices[c][k].target = sent[c][k].target
                    /\ (ready => Orderly)' =>
                         /\ Stands(slices[c][k].callsite, "CALLSITE", 1, sent[c][k].callsite)'
                         /\ Stands(slices[c][k].callback, "CALLBACK", 2, sent[c][k].callback)'
  BY DEF SlicesOfSender
<1> QED
  BY StandsFrame DEF SlicesOfSender

\* A lookup that is over found what stands for its address.
LEMMA AnswerStands ==
  ASSUME KInv, phase \in {"found", "null"}, ready => Orderly, NEW label, NEW tag
  PROVE  /\ Answer \in Index \cup {NULL}
         /\ Stands(Arg(Answer, label, tag, address), label, tag, address)
<1>1. CASE phase = "found"
  <2>1. ready /\ result \in Index /\ Answer = result /\ result # NULL
    BY <1>1, KallsymsAssumption DEF KInv, ReadyOK, TypeOK, Answer, NULL, Index
  <2>2. /\ symbols[result].addr <= address
        /\ \A x \in TableAddrs : x < address => x <= symbols[result].addr
    BY <1>1, <2>1 DEF KInv, NamesNearest
  <2> QED
    BY <2>1, <2>2 DEF Stands, Arg
<1>2. CASE phase = "null"
  <2>1. Answer = NULL
    BY <1>2 DEF Answer
  <2>2. ~ready \/ address = 0 \/ Outside(address) \/ ~Ascending
    BY <1>2 DEF KInv, NamesNearest
  <2> QED
    BY <2>1, <2>2 DEF Stands, Arg
<1> QED
  BY <1>1, <1>2

\* A step of the parser or of the search.
LEMMA SearchIpiKeeps ==
  ASSUME IpiInv, KInv', Parse \/ FindStep, UNCHANGED ipiVars
  PROVE  IpiInv'
<1>1. UNCHANGED <<ring, stage, site, slices, sent>>
  BY DEF ipiVars
<1>2. IpiTypeOK' /\ RingOK' /\ ShownSent'
  BY <1>1 DEF IpiInv, IpiTypeOK, RingOK, ShownSent
<1>3. CASE Parse
  <2>1. phase \in {"kptr", "open", "read", "sort"} /\ phase' \notin Searching
    BY <1>3 DEF Parse, CheckKptr, OpenKallsyms, ReadLine, ReadEnd, Sort, Searching
  <2>2. ring = <<>> /\ stage = "none" /\ \A c \in Cpus : slices[c] = <<>>
    BY <2>1 DEF IpiInv, AttachedLast, StageOK, IpiTypeOK
  <2>3. SlicesOfSender'
    BY <1>1, <2>2 DEF SlicesOfSender
  <2> QED
    BY <1>1, <1>2, <2>1, <2>2, <2>3 DEF IpiInv, StageOK, AttachedLast
<1>4. CASE FindStep
  <2>1. phase \in Searching /\ phase' \in Searching /\ UNCHANGED <<symbols, ready, address>>
    BY <1>4 DEF FindStep, ToLinear, Halve, Linear, NotFound, Found, Searching, tableVars, findVars
  <2>2. SlicesOfSender'
    BY <1>1, <2>1, SlicesFrame DEF IpiInv
  <2>3. StageOK'
    BY <1>1, <2>1, StandsFrame DEF IpiInv, StageOK, Arg, Searching
  <2>4. AttachedLast'
    BY <2>1 DEF AttachedLast, Searching
  <2> QED
    BY <1>2, <2>2, <2>3, <2>4 DEF IpiInv
<1> QED
  BY <1>3, <1>4

\* A CPU sends while the handler is anywhere.
LEMMA SendIpiKeeps ==
  ASSUME IpiInv, KInv', NEW c \in Cpus, NEW target \in Cpus, NEW callsite \in Addresses,
         NEW callback \in Addresses, IpiSendCpu(c, target, callsite, callback)
  PROVE  IpiInv'
<1> DEFINE e == IpiRecord(c, target, callsite, callback)
<1>1. e \in Record /\ e.from = c
  BY DEF Record, IpiRecord
<1>2. /\ UNCHANGED <<phase, symbols, ready, address, stage, site, slices>>
      /\ phase \notin {"kptr", "open", "read", "sort"}
  BY DEF IpiSendCpu, vars, tableVars, findVars
<1> HIDE DEF e
<1>3. CASE ~Room
  <2>1. UNCHANGED <<ring, sent>>
    BY <1>3 DEF IpiSendCpu
  <2> QED
    BY <1>2, <2>1, SlicesFrame, StandsFrame
       DEF IpiInv, IpiTypeOK, StageOK, AttachedLast, RingOK, ShownSent, Arg
<1>4. CASE Room
  <2>1. ring' = Append(ring, e) /\ sent' = [sent EXCEPT ![c] = Append(@, e)]
    BY <1>4 DEF IpiSendCpu, e
  <2>2. ring \in Seq(Record) /\ sent \in [Cpus -> Seq(Record)] /\ slices \in [Cpus -> Seq(Slice)]
    BY DEF IpiInv, IpiTypeOK
  <2>3. sent' \in [Cpus -> Seq(Record)] /\ ring' \in Seq(Record)
    BY <1>1, <2>1, <2>2
  <2>4. /\ Len(ring) \in Nat /\ Len(ring') = Len(ring) + 1
        /\ \A n \in 1..Len(ring) : ring'[n] = ring[n]
        /\ ring'[Len(ring) + 1] = e
    BY <1>1, <2>1, <2>2, AppendProperties
  <2>5. /\ \A d \in Cpus : Len(sent[d]) \in Nat /\ Len(sent[d]) <= Len(sent'[d])
        /\ \A d \in Cpus : \A n \in 1..Len(sent[d]) : sent'[d][n] = sent[d][n]
        /\ \A d \in Cpus : d # c => sent'[d] = sent[d]
        /\ Len(sent'[c]) = Len(sent[c]) + 1 /\ sent'[c][Len(sent[c]) + 1] = e
    <3>1. sent'[c] = Append(sent[c], e) /\ \A d \in Cpus : d # c => sent'[d] = sent[d]
      BY <2>1, <2>2
    <3>2. sent[c] \in Seq(Record) /\ \A d \in Cpus : Len(sent[d]) \in Nat
      BY <2>2
    <3>3. /\ Len(sent'[c]) = Len(sent[c]) + 1 /\ sent'[c][Len(sent[c]) + 1] = e
          /\ \A n \in 1..Len(sent[c]) : sent'[c][n] = sent[c][n]
      BY <1>1, <3>1, <3>2, AppendProperties
    <3>4. \A d \in Cpus : d # c => sent'[d] = sent[d] /\ Len(sent[d]) <= Len(sent'[d])
      BY <3>1, <3>2
    <3>5. Len(sent[c]) <= Len(sent'[c])
      BY <3>2, <3>3
    <3> QED
      BY <3>2, <3>3, <3>4, <3>5
  <2>6. RingOK'
    <3>1. PICK g : Counts(g, ring, slices, sent)
      BY DEF IpiInv, RingOK
    <3> DEFINE L == Len(ring)
               g2 == [n \in 1..(L + 2) |->
                        IF n <= L + 1 THEN g[n] ELSE [g[L + 1] EXCEPT ![c] = @ + 1]]
    <3>2. g \in [1..(L + 1) -> [Cpus -> Nat]]
      BY <3>1 DEF Counts
    <3>3. /\ g2 \in [1..(L + 2) -> [Cpus -> Nat]]
          /\ \A n \in 1..(L + 1) : g2[n] = g[n]
          /\ g2[L + 2] = [g[L + 1] EXCEPT ![c] = @ + 1]
      BY <2>4, <3>2
    <3>4. \A d \in Cpus : g2[1][d] = Len(slices'[d])
      BY <1>2, <2>4, <3>1, <3>3 DEF Counts
    <3>5. \A d \in Cpus : g2[L + 2][d] = Len(sent'[d])
      <4>1. g[L + 1] \in [Cpus -> Nat] /\ \A d \in Cpus : g[L + 1][d] = Len(sent[d])
        BY <2>4, <3>1, <3>2 DEF Counts
      <4> HIDE DEF g2, L
      <4>2. \A d \in Cpus : g2[L + 2][d] = IF d = c THEN Len(sent[d]) + 1 ELSE Len(sent[d])
        BY <3>3, <4>1
      <4>3. ASSUME NEW d \in Cpus PROVE g2[L + 2][d] = Len(sent'[d])
        <5>1. CASE d = c
          BY <2>5, <4>2, <5>1
        <5>2. CASE d # c
          <6>1. sent'[d] = sent[d]
            BY <2>5, <5>2
          <6>2. g2[L + 2][d] = Len(sent[d])
            BY <4>2, <5>2, SMTT(60)
          <6> QED
            BY <6>1, <6>2
        <5> QED
          BY <5>1, <5>2
      <4> QED
        BY <4>3
    <3>6. ASSUME NEW n \in 1..(L + 1)
          PROVE  /\ g2[n + 1] = [g2[n] EXCEPT ![ring'[n].from] = @ + 1]
                 /\ g2[n + 1][ring'[n].from] \in 1..Len(sent'[ring'[n].from])
                 /\ ring'[n] = sent'[ring'[n].from][g2[n + 1][ring'[n].from]]
      <4>1. CASE n = L + 1
        <5>1. ring'[n] = e /\ (L + 1) + 1 = L + 2 /\ Len(sent'[c]) \in 1..Len(sent'[c])
          BY <2>4, <2>5, <4>1
        <5>2. g2[n + 1] = [g2[n] EXCEPT ![c] = @ + 1]
          BY <2>4, <3>3, <4>1, <5>1
        <5>3. g2[n + 1][c] = Len(sent'[c])
          BY <3>5, <4>1, <5>1
        <5>4. e = sent'[c][Len(sent'[c])]
          BY <2>5
        <5> HIDE DEF g2, L
        <5> QED
          BY <1>1, <5>1, <5>2, <5>3, <5>4
      <4>2. CASE n # L + 1
        <5>1. n \in 1..L /\ n + 1 \in 1..(L + 1) /\ n \in 1..(L + 1) /\ ring'[n] = ring[n]
          BY <2>4, <4>2
        <5>2. ring[n].from \in Cpus
          <6>1. ring[n] \in Record
            BY <2>2, <5>1
          <6> QED
            BY <6>1 DEF Record
        <5>3. /\ g[n + 1] = [g[n] EXCEPT ![ring[n].from] = @ + 1]
              /\ g[n + 1][ring[n].from] \in 1..Len(sent[ring[n].from])
              /\ ring[n] = sent[ring[n].from][g[n + 1][ring[n].from]]
          BY <3>1, <5>1 DEF Counts
        <5>4. 1..Len(sent[ring[n].from]) \subseteq 1..Len(sent'[ring[n].from])
          BY <2>5, <5>2
        <5>5. g2[n + 1] = g[n + 1] /\ g2[n] = g[n]
          BY <3>3, <5>1
        <5>6. sent'[ring[n].from][g[n + 1][ring[n].from]] = sent[ring[n].from][g[n + 1][ring[n].from]]
          BY <2>5, <5>2, <5>3
        <5> HIDE DEF g2, L
        <5> QED
          BY <5>1, <5>3, <5>4, <5>5, <5>6
      <4> QED
        BY <4>1, <4>2
    <3>7. Counts(g2, ring', slices', sent')
      <4>1. Len(ring') + 1 = L + 2 /\ Len(ring') = L + 1
        BY <2>4
      <4> HIDE DEF g2, L
      <4> QED
        BY <3>3, <3>4, <3>5, <3>6, <4>1 DEF Counts
    <3> QED
      BY <3>7 DEF RingOK
  <2>7. ring # <<>> => ring' # <<>> /\ Head(ring') = Head(ring)
    BY <2>1, <2>2, <2>4
  <2>8. StageOK'
    BY <1>2, <2>7, StandsFrame DEF IpiInv, StageOK, Arg
  <2>9. ShownSent'
    BY <1>2, <2>2, <2>3, <2>5 DEF IpiInv, ShownSent
  <2>10. SlicesOfSender'
    <3>1. \A d \in Cpus : 1..Len(slices[d]) \subseteq 1..Len(sent[d])
      BY <2>2, <2>5 DEF IpiInv, ShownSent
    <3>2. ASSUME NEW d \in Cpus, NEW k \in 1..Len(slices[d])
          PROVE  sent'[d][k] = sent[d][k] /\ k <= Len(sent'[d])
      <4>1. k \in 1..Len(sent[d]) /\ Len(sent[d]) \in Nat /\ Len(sent[d]) <= Len(sent'[d])
        BY <2>5, <3>1, <3>2
      <4>2. Len(sent'[d]) \in Nat
        BY <2>3
      <4>3. k <= Len(sent'[d])
        BY <4>1, <4>2
      <4> QED
        BY <2>5, <4>1, <4>3
    <3> QED
      BY <1>2, <3>2, SlicesFrame DEF IpiInv
  <2> QED
    BY <1>2, <2>3, <2>6, <2>8, <2>9, <2>10 DEF IpiInv, IpiTypeOK, AttachedLast
<1> QED
  BY <1>3, <1>4

\* The two lookups and what the first one returned.
LEMMA LookUpIpiKeeps ==
  ASSUME IpiInv, KInv', LookUpCallsite \/ TakeCallsite \/ LookUpCallback
  PROVE  IpiInv'
<1>1. /\ UNCHANGED <<symbols, ready, ring, slices, sent>>
      /\ phase \notin {"kptr", "open", "read", "sort"}
      /\ phase' \notin {"kptr", "open", "read", "sort"}
  BY DEF LookUpCallsite, TakeCallsite, LookUpCallback, Find, Return, tableVars, findVars, ipiVars
<1>2. RingOK' /\ ShownSent' /\ AttachedLast' /\ SlicesOfSender'
  BY <1>1, SlicesFrame DEF IpiInv, RingOK, ShownSent, AttachedLast
<1>3. CASE LookUpCallsite
  <2>1. /\ stage' = "callsite" /\ site' = site /\ ring # <<>>
        /\ address' = Head(ring).callsite /\ phase' \in Searching
    BY <1>3 DEF LookUpCallsite, Find, Searching
  <2> QED
    BY <1>1, <1>2, <2>1 DEF IpiInv, IpiTypeOK, StageOK
<1>4. CASE TakeCallsite
  <2>1. /\ stage = "callsite" /\ stage' = "callback" /\ site' = Answer
        /\ phase \in {"found", "null"} /\ phase' = "idle"
    BY <1>4 DEF TakeCallsite, Return
  <2>2. address = Head(ring).callsite /\ ring # <<>>
    BY <2>1 DEF IpiInv, StageOK
  <2>3. Answer \in Index \cup {NULL}
    BY <2>1 DEF Answer, IpiInv, KInv, TypeOK
  <2>4. ASSUME (ready => Orderly)'
        PROVE  Stands(Arg(site, "CALLSITE", 1, Head(ring).callsite), "CALLSITE", 1, Head(ring).callsite)'
    <3>1. PICK arg, addr : arg = Arg(Answer, "CALLSITE", 1, address) /\ addr = address
      OBVIOUS
    <3>2. Stands(arg, "CALLSITE", 1, addr)
      BY <1>1, <2>1, <2>4, <3>1, StandsFrame, AnswerStands DEF IpiInv
    <3>3. Stands(arg, "CALLSITE", 1, addr)'
      BY <1>1, <3>2, StandsFrame
    <3>4. arg = Arg(site, "CALLSITE", 1, Head(ring).callsite)' /\ addr = Head(ring).callsite
      BY <1>1, <2>1, <2>2, <3>1 DEF Arg
    <3> QED
      BY <1>1, <3>3, <3>4
  <2> QED
    BY <1>1, <1>2, <2>1, <2>2, <2>3, <2>4 DEF IpiInv, IpiTypeOK, StageOK
<1>5. CASE LookUpCallback
  <2>1. /\ stage = "callback" /\ stage' = stage /\ site' = site
        /\ address' = Head(ring).callback /\ phase' \in Searching
    BY <1>5 DEF LookUpCallback, Find, Searching, ipiVars
  <2> QED
    BY <1>1, <1>2, <2>1, StandsFrame DEF IpiInv, IpiTypeOK, StageOK, Arg
<1> QED
  BY <1>3, <1>4, <1>5

\* The slice.
LEMMA TraceIpiKeeps ==
  ASSUME IpiInv, KInv', TraceIpi
  PROVE  IpiInv'
<1>1. /\ stage = "callback" /\ stage' = "none" /\ phase \in {"found", "null"} /\ phase' = "idle"
      /\ UNCHANGED <<symbols, ready, site, sent>> /\ ring' = Tail(ring)
  BY DEF TraceIpi, Return, tableVars
<1>2. ring # <<>> /\ address = Head(ring).callback
  BY <1>1 DEF IpiInv, StageOK
<1>3. /\ ring \in Seq(Record) /\ slices \in [Cpus -> Seq(Slice)] /\ sent \in [Cpus -> Seq(Record)]
      /\ site \in Index \cup {NULL}
  BY DEF IpiInv, IpiTypeOK
<1>4. PICK e : e = Head(ring)
  OBVIOUS
<1>5. PICK s : s = [target |-> e.target, callsite |-> Arg(site, "CALLSITE", 1, e.callsite),
                    callback |-> Arg(Answer, "CALLBACK", 2, e.callback)]
  OBVIOUS
<1>6. /\ e \in Record /\ e = ring[1] /\ ring' \in Seq(Record)
      /\ Len(ring) \in Nat /\ Len(ring) >= 1 /\ Len(ring') = Len(ring) - 1
      /\ \A n \in 1..Len(ring') : ring'[n] = ring[n + 1]
  <2>1. Len(ring) \in Nat /\ Len(ring) # 0
    BY <1>2, <1>3, EmptySeq
  <2>2. Head(ring) \in Record /\ Head(ring) = ring[1] /\ Tail(ring) \in Seq(Record)
    BY <1>2, <1>3, HeadTailProperties
  <2>3. Len(Tail(ring)) = Len(ring) - 1 /\ \A n \in 1..Len(Tail(ring)) : Tail(ring)[n] = ring[n + 1]
    BY <1>2, <1>3, HeadTailProperties
  <2> QED
    BY <1>1, <1>4, <2>1, <2>2, <2>3
<1>7. e.from \in Cpus /\ e.target \in Cpus /\ e.callsite \in Nat /\ e.callback \in Nat
  BY <1>6, KallsymsAssumption DEF Record
<1>8. slices' = [slices EXCEPT ![e.from] = Append(@, s)]
  BY <1>4, <1>5 DEF TraceIpi
<1>9. s \in Slice
  <2>1. Answer \in Index \cup {NULL}
    BY <1>1 DEF Answer, IpiInv, KInv, TypeOK
  <2>2. \A k \in Index : symbols[k].name \in Names
    BY DEF IpiInv, KInv, TypeOK
  <2>3. Arg(site, "CALLSITE", 1, e.callsite) \in Argument
    BY <1>3, <1>7, <2>2 DEF Arg, Argument
  <2>4. Arg(Answer, "CALLBACK", 2, e.callback) \in Argument
    BY <1>7, <2>1, <2>2 DEF Arg, Argument
  <2> QED
    BY <1>5, <1>7, <2>3, <2>4 DEF Slice
<1>10. /\ slices' \in [Cpus -> Seq(Slice)]
       /\ \A d \in Cpus : d # e.from => slices'[d] = slices[d]
       /\ slices'[e.from] = Append(slices[e.from], s)
  BY <1>3, <1>7, <1>8, <1>9
<1>11. /\ Len(slices[e.from]) \in Nat /\ Len(slices'[e.from]) = Len(slices[e.from]) + 1
       /\ slices'[e.from][Len(slices[e.from]) + 1] = s
       /\ \A k \in 1..Len(slices[e.from]) : slices'[e.from][k] = slices[e.from][k]
  BY <1>3, <1>7, <1>9, <1>10, AppendProperties
<1>12. PICK g : Counts(g, ring, slices, sent)
  BY DEF IpiInv, RingOK
<1>13. /\ g \in [1..(Len(ring) + 1) -> [Cpus -> Nat]]
       /\ g[2] = [g[1] EXCEPT ![e.from] = @ + 1]
       /\ \A d \in Cpus : g[1][d] = Len(slices[d])
       /\ g[2][e.from] \in 1..Len(sent[e.from])
       /\ e = sent[e.from][g[2][e.from]]
  <2>1. 1 \in 1..Len(ring) /\ 1 + 1 = 2
    BY <1>6
  <2> QED
    BY <1>6, <1>12, <2>1 DEF Counts
<1>14. \A d \in Cpus : g[2][d] = Len(slices'[d])
  <2>1. g[1] \in [Cpus -> Nat]
    BY <1>6, <1>13
  <2>2. \A d \in Cpus : g[2][d] = IF d = e.from THEN g[1][d] + 1 ELSE g[1][d]
    BY <1>7, <1>13, <2>1
  <2>3. ASSUME NEW d \in Cpus PROVE g[2][d] = Len(slices'[d])
    <3>1. CASE d = e.from
      BY <1>11, <1>13, <2>2, <3>1
    <3>2. CASE d # e.from
      BY <1>10, <1>13, <2>2, <3>2
    <3> QED
      BY <3>1, <3>2
  <2> QED
    BY <2>3
<1>15. Len(slices'[e.from]) \in 1..Len(sent[e.from]) /\ e = sent[e.from][Len(slices[e.from]) + 1]
  BY <1>7, <1>11, <1>13, <1>14
<1>16. RingOK'
  <2> DEFINE L == Len(ring)
             g2 == [n \in 1..L |-> g[n + 1]]
  <2>1. g2 \in [1..L -> [Cpus -> Nat]]
    BY <1>6, <1>13
  <2>2. \A d \in Cpus : g2[1][d] = Len(slices'[d])
    BY <1>6, <1>14
  <2>3. \A d \in Cpus : g2[L][d] = Len(sent'[d])
    BY <1>1, <1>6, <1>12 DEF Counts
  <2>4. ASSUME NEW n \in 1..(L - 1)
        PROVE  /\ g2[n + 1] = [g2[n] EXCEPT ![ring'[n].from] = @ + 1]
               /\ g2[n + 1][ring'[n].from] \in 1..Len(sent'[ring'[n].from])
               /\ ring'[n] = sent'[ring'[n].from][g2[n + 1][ring'[n].from]]
    <3>1. n + 1 \in 1..L /\ n \in 1..L /\ ring'[n] = ring[n + 1]
      BY <1>6
    <3>2. g2[n + 1] = g[(n + 1) + 1] /\ g2[n] = g[n + 1]
      BY <3>1
    <3>3. \A m \in 1..L :
            /\ g[m + 1] = [g[m] EXCEPT ![ring[m].from] = @ + 1]
            /\ g[m + 1][ring[m].from] \in 1..Len(sent[ring[m].from])
            /\ ring[m] = sent[ring[m].from][g[m + 1][ring[m].from]]
      BY <1>12 DEF Counts
    <3> HIDE DEF g2, L
    <3> QED
      BY <1>1, <3>1, <3>2, <3>3
  <2>5. Counts(g2, ring', slices', sent')
    <3>1. Len(ring') + 1 = L /\ Len(ring') = L - 1
      BY <1>6
    <3> HIDE DEF g2, L
    <3> QED
      BY <2>1, <2>2, <2>3, <2>4, <3>1 DEF Counts
  <2> QED
    BY <2>5 DEF RingOK
<1>17. ShownSent'
  <2>1. \A d \in Cpus : Len(slices[d]) <= Len(sent[d])
    BY DEF IpiInv, ShownSent
  <2>2. Len(slices'[e.from]) <= Len(sent[e.from])
    <3>1. Len(sent[e.from]) \in Nat
      BY <1>3, <1>7
    <3> QED
      BY <1>15, <3>1
  <2>3. \A d \in Cpus : Len(slices'[d]) <= Len(sent[d])
    BY <1>10, <2>1, <2>2
  <2> QED
    BY <1>1, <2>3 DEF ShownSent
<1>18. SlicesOfSender'
  <2> SUFFICES ASSUME NEW c \in Cpus, NEW k \in 1..Len(slices'[c])
               PROVE  /\ k <= Len(sent'[c])
                      /\ slices'[c][k].target = sent[c][k].target
                      /\ (ready => Orderly)' =>
                           /\ Stands(slices[c][k].callsite, "CALLSITE", 1, sent[c][k].callsite)'
                           /\ Stands(slices[c][k].callback, "CALLBACK", 2, sent[c][k].callback)'
    BY <1>1 DEF SlicesOfSender
  <2>1. (ready => Orderly)' => (ready => Orderly)
    BY <1>1, StandsFrame
  <2>2. CASE c = e.from /\ k = Len(slices[c]) + 1
    <3>1. slices'[c][k] = s /\ sent[c][k] = e /\ k <= Len(sent'[c])
      BY <1>1, <1>11, <1>15, <2>2
    <3>2. (ready => Orderly) => Stands(s.callsite, "CALLSITE", 1, e.callsite)
      BY <1>1, <1>4, <1>5 DEF IpiInv, StageOK
    <3>3. (ready => Orderly) => Stands(s.callback, "CALLBACK", 2, e.callback)
      BY <1>1, <1>2, <1>4, <1>5, AnswerStands DEF IpiInv
    <3> QED
      BY <1>1, <1>5, <2>1, <3>1, <3>2, <3>3, StandsFrame
  <2>3. CASE ~(c = e.from /\ k = Len(slices[c]) + 1)
    <3>1. k \in 1..Len(slices[c]) /\ slices'[c][k] = slices[c][k]
      <4>1. CASE c = e.from
        BY <1>11, <2>3, <4>1
      <4>2. CASE c # e.from
        BY <1>10, <4>2
      <4> QED
        BY <4>1, <4>2
    <3>2. /\ k <= Len(sent[c])
          /\ slices[c][k].target = sent[c][k].target
          /\ (ready => Orderly) =>
               /\ Stands(slices[c][k].callsite, "CALLSITE", 1, sent[c][k].callsite)
               /\ Stands(slices[c][k].callback, "CALLBACK", 2, sent[c][k].callback)
      BY <3>1 DEF IpiInv, SlicesOfSender
    <3> QED
      BY <1>1, <2>1, <3>1, <3>2, StandsFrame
  <2> QED
    BY <2>2, <2>3
<1> QED
  BY <1>1, <1>3, <1>6, <1>10, <1>16, <1>17, <1>18
     DEF IpiInv, IpiTypeOK, StageOK, Searching, AttachedLast

\* No step of the composition breaks IpiInv.
LEMMA IpiInductive == IpiInv /\ [IpiNext]_<<vars, ipiVars>> => IpiInv'
<1> SUFFICES ASSUME IpiInv, [IpiNext]_<<vars, ipiVars>> PROVE IpiInv'
  OBVIOUS
<1>1. KInv'
  BY IpiStepSimulates, KInductive DEF IpiInv
<1>2. CASE (Parse \/ FindStep) /\ UNCHANGED ipiVars
  BY <1>1, <1>2, SearchIpiKeeps
<1>3. ASSUME NEW c \in Cpus, NEW target \in Cpus, NEW s \in Sends, IpiSendCpu(c, target, s[1], s[2])
      PROVE  IpiInv'
  <2>1. s[1] \in Addresses /\ s[2] \in Addresses
    BY IpiAssumption
  <2> QED
    BY <1>1, <1>3, <2>1, SendIpiKeeps
<1>4. CASE LookUpCallsite \/ TakeCallsite \/ LookUpCallback
  BY <1>1, <1>4, LookUpIpiKeeps
<1>5. CASE TraceIpi
  BY <1>1, <1>5, TraceIpiKeeps
<1>6. CASE UNCHANGED <<vars, ipiVars>>
  <2>1. UNCHANGED <<phase, symbols, ready, address, ring, stage, site, slices, sent>>
    BY <1>6 DEF vars, tableVars, findVars, ipiVars
  <2> QED
    BY <1>1, <2>1, SlicesFrame, StandsFrame
       DEF IpiInv, IpiTypeOK, StageOK, AttachedLast, RingOK, ShownSent, Arg
<1> QED
  BY <1>2, <1>3, <1>4, <1>5, <1>6 DEF IpiNext

\* The handler, the CPUs that send and the lookups keep IpiInv.
THEOREM IpiInvariance == IpiSpec => []IpiInv
  BY IpiInitOK, IpiInductive, PTL DEF IpiSpec

\* IPI tracing uses the table as Kallsyms has it: a lookup never meets
\* another one and none comes before the table is read.
THEOREM IpiUsesKallsyms == IpiSpec => Spec
<1>1. IpiInit => Init
  BY DEF IpiInit
<1>2. IpiInv /\ [IpiNext]_<<vars, ipiVars>> => [Next]_vars
  BY IpiStepSimulates DEF IpiInv
<1> QED
  BY <1>1, <1>2, IpiInvariance, PTL DEF IpiSpec, Spec

\* The table and the variables of a lookup keep their types.
THEOREM KallsymsTypes == IpiSpec => []TypeOK
<1>1. IpiInv => TypeOK
  BY DEF IpiInv, KInv
<1> QED
  BY <1>1, IpiInvariance, PTL

\* No lookup reads outside the table or takes 1 from an end of 0, whatever
\* the table holds and in which order.
THEOREM LookupsInBounds == IpiSpec => []ReadsInBounds
<1>1. IpiInv => ReadsInBounds
  BY KInvReads DEF IpiInv
<1> QED
  BY <1>1, IpiInvariance, PTL

\* Whatever the file and the width of an int: where cmp() puts the addresses
\* into an order, rotated or not, a symbol that is found is the nearest one;
\* where it is not rotated only addresses outside the table are given up.
THEOREM LookupsNearest == IpiSpec => []NamesNearest
<1>1. IpiInv => NamesNearest
  BY DEF IpiInv, KInv
<1> QED
  BY <1>1, IpiInvariance, PTL

\* The slices of a CPU are the IPIs it sent, in order and with their own
\* target; where cmp() orders the table, also with names or addresses that
\* stand for their own callsite and callback.
THEOREM IpiSlices == IpiSpec => []SlicesOfSender
<1>1. IpiInv => SlicesOfSender
  BY DEF IpiInv
<1> QED
  BY <1>1, IpiInvariance, PTL
=============================================================================
