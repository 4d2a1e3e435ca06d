------------------------------- MODULE MCIpi -------------------------------
(* Ipi for TLC: symbol files in any order, with two symbols at one address, *)
(* lines that break the reading, more lines than entries, a full table that *)
(* begins after an address, and addresses further from 0 than half an int.  *)
EXTENDS Ipi

Parsed(a, n) == [addr |-> a, name |-> n, ok |-> TRUE]
Broken(a) == [addr |-> a, name |-> NoName, ok |-> FALSE]

\* Addresses an int orders, 0 included.
NearFiles ==
  {<<Broken(2)>>, <<Parsed(2, "b"), Parsed(2, "alias"), Broken(1)>>,
   <<Parsed(3, "c"), Parsed(1, "a"), Parsed(2, "b")>>,
   <<Parsed(3, "c"), Parsed(1, "a"), Parsed(2, "b"), Parsed(2, "alias"), Parsed(4, "d"), Parsed(1, "e")>>}

\* Kernel text with a negative distance to 0 as an int: in a table that is
\* mostly empty, mostly full or full, with a symbol that is near 0; at a
\* distance of just half the span no order is left (1 and 5).
RotatedFiles ==
  {<<Parsed(7, "d"), Parsed(5, "b")>>, <<Parsed(1, "a"), Parsed(7, "d")>>,
   <<Parsed(1, "a"), Parsed(5, "b")>>, <<Parsed(5, "b"), Parsed(6, "c"), Parsed(7, "d")>>,
   <<Parsed(7, "d"), Parsed(1, "a"), Parsed(6, "c"), Parsed(5, "b")>>,
   <<Parsed(7, "d"), Parsed(5, "b"), Parsed(6, "c"), Parsed(5, "alias"), Parsed(4, "e")>>}

\* Kernel text further from 0 than an int reaches, with a positive distance.
FarFiles == {<<Parsed(11, "b"), Parsed(9, "a")>>}

MCFiles == NearFiles \cup RotatedFiles \cup FarFiles
MCSends == {<<2, 0>>, <<6, 10>>}
=============================================================================
