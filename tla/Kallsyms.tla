------------------------------ MODULE Kallsyms ------------------------------
(***************************************************************************)
(* parse_kallsyms.c: the table of kernel symbols that --ipi reads at start *)
(* and the lookup that turns the address in an IPI record into a name.     *)
(*                                                                         *)
(* The table has a fixed number of entries, all of them sorted and         *)
(* searched; those the file does not fill keep address 0 and an empty      *)
(* name.  Sizes and integer widths are scaled: only their proportions      *)
(* matter.                                                                 *)
(***************************************************************************)
EXTENDS Integers, Sequences

CONSTANTS
  MAX_NUM_SYMBOLS, \* entries of symbols[] (500000)
  LINEAR,          \* at most this many entries are searched one by one (100)
  INT_SPAN,        \* number of values of an int (2^32)
  Addresses,       \* addresses that are looked up
  Names,           \* names of symbols
  Files            \* contents of /proc/kallsyms: sequences of lines

NoName == ""       \* of an entry the file did not fill

\* A line that parses gives an address and a name.  One that does not (no
\* digits, out of range, no type or no name: among others the second half of
\* a line longer than LINE_SIZE) still leaves an address in its entry.
ASSUME KallsymsAssumption ==
  /\ MAX_NUM_SYMBOLS \in Nat /\ MAX_NUM_SYMBOLS >= 4
  /\ LINEAR \in Nat \ {0}
  /\ INT_SPAN \in Nat \ {0}
  /\ Addresses \subseteq Nat
  /\ NoName \in Names
  /\ Files \subseteq Seq([addr : Nat, name : Names, ok : BOOLEAN])

VARIABLES
  phase,    \* where parse_kallsyms() or find_kallsyms() is
  lines,    \* the lines not yet read
  i,        \* entries filled so far
  symbols,  \* the table
  ready,    \* is the table sorted?
  address,  \* the argument of find_kallsyms()
  start, pivot, end,  \* the part of the table still searched
  result    \* index of the symbol found

tableVars == <<lines, i, symbols, ready>>
findVars == <<address, start, pivot, end, result>>
vars == <<phase, tableVars, findVars>>

Index == 0..(MAX_NUM_SYMBOLS - 1)
Phases == {"kptr", "open", "read", "sort", "idle", "binary", "linear", "found", "null"}

TypeOK ==
  /\ phase \in Phases
  /\ i \in 0..MAX_NUM_SYMBOLS
  /\ symbols \in [Index -> [addr : Nat, name : Names]]
  /\ ready \in BOOLEAN
  /\ address \in Nat
  /\ start \in Nat /\ pivot \in Nat /\ end \in Nat
  /\ result \in Index

Init ==
  /\ phase = "kptr"
  /\ lines \in Files
  /\ i = 0
  /\ symbols = [k \in Index |-> [addr |-> 0, name |-> NoName]]
  /\ ready = FALSE
  /\ address = 0
  /\ start = 0 /\ pivot = 0 /\ end = 0
  /\ result = 0

-----------------------------------------------------------------------------
(* Mutated forms: plausible slips in this code.                            *)

\* The loop of ____find_kallsyms() runs up to end.
LinearLeft1 == start <= end

\* One comparison of the linear search is strict on the wrong side.
BracketsStrict(k) == symbols[k].addr < address /\ symbols[k + 1].addr > address

\* The recursion into the upper half keeps the old pivot.
HalveStuck ==
  /\ phase = "binary"
  /\ end - start > LINEAR
  /\ \/ /\ address = symbols[pivot].addr
        /\ phase' = "found" /\ result' = pivot
        /\ UNCHANGED <<start, pivot, end>>
     \/ /\ address > symbols[pivot].addr
        /\ start' = pivot
        /\ UNCHANGED <<pivot, end, phase, result>>
     \/ /\ address < symbols[pivot].addr
        /\ pivot' = start + (pivot - start) \div 2 /\ end' = pivot
        /\ UNCHANGED <<start, phase, result>>
  /\ UNCHANGED <<tableVars, address>>

\* The size of the table is not looked at while reading.
ReadLineUnbounded ==
  /\ phase = "read"
  /\ lines # <<>>
  /\ symbols' = [symbols EXCEPT ![i] = [addr |-> Head(lines).addr, name |-> Head(lines).name]]
  /\ i' = i + 1
  /\ lines' = Tail(lines)
  /\ UNCHANGED <<phase, ready, findVars>>

-----------------------------------------------------------------------------
(* parse_kallsyms().                                                       *)

\* kptr_restrict of 2 or more hides all addresses; an unreadable file only
\* costs a warning.
CheckKptr ==
  /\ phase = "kptr"
  /\ \E restricted \in BOOLEAN : phase' = IF restricted THEN "idle" ELSE "open"
  /\ UNCHANGED <<tableVars, findVars>>

OpenKallsyms ==
  /\ phase = "open"
  /\ \E opened \in BOOLEAN : phase' = IF opened THEN "read" ELSE "idle"
  /\ UNCHANGED <<tableVars, findVars>>

ReadLine ==
  /\ phase = "read"
  /\ lines # <<>> /\ i < MAX_NUM_SYMBOLS
  /\ LET l == Head(lines) IN
       IF l.ok
       THEN /\ symbols' = [symbols EXCEPT ![i] = [addr |-> l.addr, name |-> l.name]]
            /\ i' = i + 1
            /\ lines' = Tail(lines)
            /\ UNCHANGED phase
       ELSE /\ symbols' = [symbols EXCEPT ![i].addr = l.addr]
            /\ phase' = "sort"
            /\ UNCHANGED <<i, lines>>
  /\ UNCHANGED <<ready, findVars>>

ReadEnd ==
  /\ phase = "read"
  /\ lines = <<>> \/ i = MAX_NUM_SYMBOLS
  /\ phase' = "sort"
  /\ UNCHANGED <<tableVars, findVars>>

\* The difference of two pointers, returned as an int.
Truncated(d) == ((d + INT_SPAN \div 2) % INT_SPAN) - INT_SPAN \div 2
cmp(a, b) == Truncated(a.addr - b.addr)

Rearrangements == {p \in [Index -> Index] : \A j, k \in Index : j # k => p[j] # p[k]}

\* qsort(): what a sort leaves is in order from neighbour to neighbour.  With
\* a cmp() that is no order that is all there is to say.
Sorted(p) ==
  \A k \in Index : k + 1 \in Index => cmp(symbols[p[k]], symbols[p[k + 1]]) <= 0

Sort ==
  /\ phase = "sort"
  /\ \E p \in Rearrangements :
       Sorted(p) /\ symbols' = [k \in Index |-> symbols[p[k]]]
  /\ ready' = TRUE
  /\ phase' = "idle"
  /\ UNCHANGED <<lines, i, findVars>>

-----------------------------------------------------------------------------
(* find_kallsyms().                                                        *)

Search(s, p, e) ==
  /\ start' = s
  /\ pivot' = p
  /\ end' = e

Find(a) ==
  /\ phase = "idle"
  /\ address' = a
  /\ IF a = 0 \/ ~ready
     THEN phase' = "null" /\ UNCHANGED <<start, pivot, end>>
     ELSE phase' = "binary" /\ Search(0, MAX_NUM_SYMBOLS \div 2, MAX_NUM_SYMBOLS - 1)
  /\ UNCHANGED <<tableVars, result>>

Found(k) ==
  /\ phase' = "found"
  /\ result' = k

SmallPart == end - start <= LINEAR

\* __find_kallsyms()
ToLinear ==
  /\ phase = "binary"
  /\ SmallPart
  /\ phase' = "linear"
  /\ UNCHANGED <<tableVars, findVars>>

Halve ==
  /\ phase = "binary"
  /\ ~SmallPart
  /\ \/ /\ address = symbols[pivot].addr
        /\ Found(pivot)
        /\ UNCHANGED <<start, pivot, end>>
     \/ /\ address > symbols[pivot].addr
        /\ Search(pivot, pivot + (end - pivot) \div 2, end)
        /\ UNCHANGED <<phase, result>>
     \/ /\ address < symbols[pivot].addr
        /\ Search(start, start + (pivot - start) \div 2, pivot)
        /\ UNCHANGED <<phase, result>>
  /\ UNCHANGED <<tableVars, address>>

\* ____find_kallsyms()
LinearLeft == start <= end - 1
Brackets(k) == symbols[k].addr <= address /\ symbols[k + 1].addr >= address

Linear ==
  /\ phase = "linear"
  /\ LinearLeft
  /\ IF Brackets(start)
     THEN Found(start) /\ UNCHANGED start
     ELSE start' = start + 1 /\ UNCHANGED <<phase, result>>
  /\ UNCHANGED <<tableVars, address, pivot, end>>

NotFound ==
  /\ phase = "linear"
  /\ ~LinearLeft
  /\ phase' = "null"
  /\ UNCHANGED <<tableVars, findVars>>

\* The caller takes the answer.
Return ==
  /\ phase \in {"found", "null"}
  /\ phase' = "idle"
  /\ UNCHANGED <<tableVars, findVars>>

Parse == CheckKptr \/ OpenKallsyms \/ ReadLine \/ ReadEnd \/ Sort
FindStep == ToLinear \/ Halve \/ Linear \/ NotFound

Next ==
  \/ Parse
  \/ \E a \in Addresses : Find(a)
  \/ FindStep
  \/ Return

Spec == Init /\ [][Next]_vars

-----------------------------------------------------------------------------
(* Properties.                                                             *)

\* The entries of the table the next step of a search reads.
Reads ==
  CASE phase = "binary" /\ ~SmallPart  -> {pivot}
    [] phase = "linear" /\ LinearLeft -> {start, start + 1}
    [] OTHER -> {}

\* The search never leaves the table, and end - 1, computed without sign,
\* never wraps: for any contents, sorted or not.
ReadsInBounds ==
  /\ Reads \subseteq Index
  /\ phase \in {"binary", "linear"} => end >= 1 /\ start <= end

TableAddrs == {symbols[k].addr : k \in Index}

\* The order of addresses that begins at cut: from there upwards first, those
\* below cut after them.  For cut = 0 it is the order of the addresses.
Precedes(x, y, cut) == IF (x >= cut) = (y >= cut) THEN x < y ELSE x >= cut

\* cmp() puts the addresses of the table, the 0 of unused entries included,
\* into that order.
OrderedFrom(cut) ==
  \A x, y \in TableAddrs : Precedes(x, y, cut) => Truncated(y - x) > 0

\* cmp() is the order in which the search compares addresses: kernel text whose
\* distance to 0 is positive as an int (some arm64 kernels), or a table
\* without unused entries.
Ascending == OrderedFrom(0)

\* It is that order or a rotation of it: on x86_64 text, whose distance to 0
\* is negative as an int, is sorted before the unused entries and those
\* before the small addresses of per-cpu symbols.
Orderly == \E cut \in {0} \cup TableAddrs : OrderedFrom(cut)

\* An address after the last symbol, or before the first one of a full table.
Outside(a) == (\A x \in TableAddrs : x < a) \/ (\A x \in TableAddrs : x > a)

\* A name is never that of a wrong symbol, although cmp() cuts distances to
\* an int: an address that is found gets the last symbol at or before it, or
\* the last one before it, also where the table is a rotation of what the
\* search takes it for.  There the search can turn the wrong way and give up;
\* where it is not rotated only addresses outside the table are given up.
\* A line that breaks the reading costs only the lines after it.
NamesNearest ==
  ready =>
    /\ Orderly /\ phase = "found" =>
         /\ symbols[result].addr <= address
         /\ \A x \in TableAddrs : x < address => x <= symbols[result].addr
    /\ Ascending /\ phase = "null" => address = 0 \/ Outside(address)

\* A lookup comes to an end, whatever is in the table.
FindReturns == phase \in {"binary", "linear"} ~> phase \in {"found", "null"}
=============================================================================
