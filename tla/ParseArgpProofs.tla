-------------------------- MODULE ParseArgpProofs --------------------------
(***************************************************************************)
(* Proofs about the command line, for any options in any order and number, *)
(* any size of the lists and any width of the numbers.  ArgInv says of     *)
(* every member of sa_opts what the options parsed so far make of it: a    *)
(* list that has not run over holds the positions of its option in order,  *)
(* a scalar the last one given, a filter list the first ones.              *)
(***************************************************************************)
EXTENDS ParseArgp, FiniteSetTheorems, SequenceTheorems, TLAPS

OtherOptions == {"system", "app", "output", "output_path", "max_size", "pid", "comm", "none"}
Options == FlagOptions \cup ListNames \cup OtherOptions
Arg == [opt : Options, val : Int \cup {NoDigits}]

ArgTypeOK ==
  /\ phase \in {"parse", "opened", "started", "exited"}
  /\ argv \in Seq(Arg)
  /\ \A o \in Options : Positions(o) \in Seq(1..Len(argv))
  /\ num \in [ListNames -> Nat]
  /\ cells \in [0..FlagCell -> Int]
  /\ pids \in Seq(Int)
  /\ comms \in Seq([text : Nat, len : Nat])

\* The flags of the options given.
FlagsAsked == UNION {Sets[argv[k].opt] : k \in {j \in 1..Len(argv) : argv[j].opt \in FlagOptions}}

\* No list has run over: then none has touched another one or the flags.
ListsOK ==
  Holds =>
    /\ \A l \in ListNames :
         /\ num[l] = Len(Positions(l))
         /\ \A k \in 1..num[l] : cells[Base(l) + k - 1] = Positions(l)[k]
    /\ cells[FlagCell] = NULL
    /\ flags = FlagsAsked

\* A scalar is what the last option says, and was a number.
ScalarsOK ==
  /\ output = LastOf(Positions("output"), NULL)
  /\ output_path = LastOf(Positions("output_path"), IF phase = "started" THEN DefaultPath ELSE NULL)
  /\ IF Values("max_size") = <<>> THEN max_size = NULL
     ELSE ~BadNumber(Last(Values("max_size"))) /\ max_size = Bytes(Last(Values("max_size")))

PidOf(n) == Wrapped(strtol(n), INT_SPAN)
CommsGiven ==
  [k \in 1..Len(Positions("comm")) |->
     [text |-> Positions("comm")[k], len |-> CutComm(Values("comm")[k])]]

\* The filters are the first ones given; what came later was not looked at.
FiltersOK ==
  /\ \A k \in 1..Len(FirstN(Values("pid"))) : ~BadNumber(Values("pid")[k])
  /\ pids = FirstN([k \in 1..Len(Values("pid")) |-> PidOf(Values("pid")[k])])
  /\ comms = FirstN(CommsGiven)

\* What main() took from sa_opts is what is still there.
TakenOK ==
  /\ phase \in {"opened", "started"} => loaded = ProgramsWanted
  /\ phase = "started" =>
       config = [events  |-> Entries("ftrace_event"),
                 cats    |-> IF "irq" \in flags THEN <<IrqCategory>> \o Entries("atrace_cat")
                                                ELSE Entries("atrace_cat"),
                 graph   |-> Functions,
                 roots   |-> Entries("function_graph"),
                 filters |-> Entries("function_filter")]

ArgInv ==
  /\ ArgTypeOK
  /\ phase # "exited" => ListsOK /\ ScalarsOK /\ FiltersOK /\ TakenOK

-----------------------------------------------------------------------------
(* Positions in order.                                                     *)

\* A function on 1..n is a sequence of length n.
LEMMA SeqOfFcn ==
  ASSUME NEW S, NEW n \in Nat, NEW f \in [1..n -> S]
  PROVE  f \in Seq(S) /\ Len(f) = n
<1>1. f \in Seq(S)
  BY SeqDef
<1>2. Len(f) \in Nat /\ DOMAIN f = 1..Len(f)
  BY <1>1, LenProperties
<1>3. 1..n = 1..Len(f)
  BY <1>2
<1> QED
  BY <1>1, <1>2, <1>3

LEMMA WiderSeq ==
  ASSUME NEW n \in Nat, NEW s \in Seq(1..n)
  PROVE  s \in Seq(1..(n + 1))
<1>1. Len(s) \in Nat /\ s \in [1..Len(s) -> 1..n]
  BY LenProperties
<1>2. \A k \in 1..Len(s) : s[k] \in 1..(n + 1)
  BY <1>1, ElementOfSeq
<1>3. s \in [1..Len(s) -> 1..(n + 1)]
  BY <1>1, <1>2
<1> QED
  BY <1>1, <1>3, SeqOfFcn

LEMMA NatSeq ==
  ASSUME NEW n \in Nat, NEW s \in Seq(1..n)
  PROVE  s \in Seq(Nat)
<1>1. Len(s) \in Nat /\ s \in [1..Len(s) -> 1..n]
  BY LenProperties
<1>2. \A k \in 1..Len(s) : s[k] \in Nat
  BY ElementOfSeq
<1>3. s \in [1..Len(s) -> Nat]
  BY <1>1, <1>2
<1> QED
  BY <1>1, <1>3, SeqOfFcn

\* A position behind all others is the last in the order.
LEMMA OrderedAppend ==
  ASSUME NEW n \in Nat, NEW S \in SUBSET (1..n), Ordered(S) \in Seq(1..n)
  PROVE  /\ Ordered(S \cup {n + 1}) = Append(Ordered(S), n + 1)
         /\ Ordered(S \cup {n + 1}) \in Seq(1..(n + 1))
<1> DEFINE T == S \cup {n + 1}
           c == Cardinality(S)
           upto(x) == {y \in S : y <= x}
<1>1. IsFiniteSet(S) /\ c \in Nat
  <2>1. IsFiniteSet(1..n)
    BY FS_Interval
  <2> QED
    BY <2>1, FS_Subset, FS_CardinalityType
<1>2. n + 1 \notin S
  OBVIOUS
<1>3. IsFiniteSet(T) /\ Cardinality(T) = c + 1
  BY <1>1, <1>2, FS_AddElement
<1>4. \A x \in S : {y \in T : y <= x} = upto(x)
  OBVIOUS
<1>5. {y \in T : y <= n + 1} = T
  <2>1. \A y \in T : y <= n + 1
    OBVIOUS
  <2> QED
    BY <2>1
<1>6. \A x \in S : IsFiniteSet(upto(x)) /\ Cardinality(upto(x)) \in Nat /\ Cardinality(upto(x)) <= c
  <2> TAKE x \in S
  <2>1. upto(x) \in SUBSET S
    OBVIOUS
  <2> QED
    BY <1>1, <2>1, FS_Subset, FS_CardinalityType
<1>7. ASSUME NEW k \in 1..c PROVE Kth(T, k) = Kth(S, k)
  <2> HIDE DEF c, upto
  <2>1. k # Cardinality(T)
    BY <1>1, <1>3
  <2>2. \A x : x \in Kth(T, k) <=> x \in T /\ Cardinality({y \in T : y <= x}) = k
    BY DEF Kth
  <2>3. \A x : x \in Kth(S, k) <=> x \in S /\ Cardinality(upto(x)) = k
    BY DEF Kth, upto
  <2>4. n + 1 \notin Kth(T, k)
    BY <1>5, <2>1, <2>2
  <2>5. \A x \in S : x \in Kth(T, k) <=> x \in Kth(S, k)
    BY <1>4, <2>2, <2>3
  <2>6. \A x : x \in Kth(T, k) => x \in S
    BY <2>2, <2>4
  <2>7. \A x : x \in Kth(S, k) => x \in S
    BY <2>3
  <2> QED
    BY <2>5, <2>6, <2>7
<1>8. Kth(T, c + 1) = {n + 1}
  <2> HIDE DEF c, upto
  <2>1. \A x : x \in Kth(T, c + 1) <=> x \in T /\ Cardinality({y \in T : y <= x}) = c + 1
    BY DEF Kth
  <2>2. \A x \in S : x \notin Kth(T, c + 1)
    <3> TAKE x \in S
    <3>1. Cardinality({y \in T : y <= x}) = Cardinality(upto(x))
      BY <1>4
    <3>2. Cardinality(upto(x)) # c + 1
      BY <1>1, <1>6
    <3> QED
      BY <2>1, <3>1, <3>2
  <2>3. n + 1 \in Kth(T, c + 1)
    BY <1>3, <1>5, <2>1
  <2> QED
    BY <2>1, <2>2, <2>3
<1>9. Ordered(T) = [k \in 1..(c + 1) |-> CHOOSE x \in Kth(T, k) : TRUE]
  BY <1>3 DEF Ordered
<1>10. Ordered(S) = [k \in 1..c |-> CHOOSE x \in Kth(S, k) : TRUE]
  BY DEF Ordered
<1> HIDE DEF c, T, upto
<1>a. \A k \in 1..(c + 1) : k \in 1..c \/ k = c + 1
  BY <1>1
<1>b. c + 1 \in 1..(c + 1) /\ c + 1 \in Nat /\ \A k \in 1..c : k \in 1..(c + 1)
  BY <1>1
<1>11. \A k \in 1..c : Ordered(T)[k] = Ordered(S)[k]
  <2> TAKE k \in 1..c
  <2>1. k \in 1..(c + 1)
    BY <1>b
  <2>2. Ordered(T)[k] = (CHOOSE x \in Kth(T, k) : TRUE)
    BY <1>9, <2>1
  <2>3. Ordered(S)[k] = (CHOOSE x \in Kth(S, k) : TRUE)
    BY <1>10
  <2> QED
    BY <1>7, <2>2, <2>3, Zenon
<1>12. Ordered(T)[c + 1] = n + 1
  <2>1. Ordered(T)[c + 1] = (CHOOSE x \in Kth(T, c + 1) : TRUE)
    BY <1>9, <1>b, Zenon
  <2>2. Ordered(T)[c + 1] = (CHOOSE x \in {n + 1} : TRUE)
    BY <1>8, <2>1, Zenon
  <2> QED
    BY <2>2
<1>13. Len(Ordered(S)) = c
  BY <1>1, <1>10, LenProperties
<1>14. \A k \in 1..c : Ordered(S)[k] \in 1..n
  BY <1>13, ElementOfSeq
<1>15. Ordered(T) \in [1..(c + 1) -> 1..(n + 1)]
  <2>1. \A k \in 1..c : Ordered(T)[k] \in 1..(n + 1)
    BY <1>11, <1>14
  <2>2. Ordered(T)[c + 1] \in 1..(n + 1)
    BY <1>12
  <2>3. \A k \in 1..(c + 1) : Ordered(T)[k] \in 1..(n + 1)
    BY <1>a, <2>1, <2>2, Zenon
  <2>4. DOMAIN Ordered(T) = 1..(c + 1)
    BY <1>9, Zenon
  <2>5. Ordered(T) = [k \in 1..(c + 1) |-> Ordered(T)[k]]
    BY <1>9, <2>4, Zenon
  <2> QED
    BY <2>3, <2>5, Zenon
<1>16. Ordered(T) \in Seq(1..(n + 1)) /\ Len(Ordered(T)) = c + 1
  BY <1>b, <1>15, SeqOfFcn
<1>17. Ordered(S) \in Seq(1..(n + 1))
  BY WiderSeq
<1>18. /\ Append(Ordered(S), n + 1) \in Seq(1..(n + 1))
       /\ Len(Append(Ordered(S), n + 1)) = c + 1
       /\ \A k \in 1..c : Append(Ordered(S), n + 1)[k] = Ordered(S)[k]
       /\ Append(Ordered(S), n + 1)[c + 1] = n + 1
  BY <1>13, <1>17, AppendProperties
<1>19. \A k \in 1..(c + 1) : Ordered(T)[k] = Append(Ordered(S), n + 1)[k]
  BY <1>a, <1>11, <1>12, <1>18, Zenon
<1>20. Ordered(T) = Append(Ordered(S), n + 1)
  BY <1>16, <1>18, <1>19, SeqEqual
<1> QED
  BY <1>16, <1>20 DEF T
-----------------------------------------------------------------------------
(* One more option.                                                        *)

Value == Int \cup {NoDigits}

LEMMA ValuesType ==
  ASSUME NEW o \in Options, argv \in Seq(Arg), Positions(o) \in Seq(1..Len(argv))
  PROVE  Values(o) \in Seq(Value) /\ Len(Values(o)) = Len(Positions(o))
<1> DEFINE n == Len(Positions(o))
<1>1. n \in Nat
  BY LenProperties
<1>2. \A k \in 1..n : argv[Positions(o)[k]].val \in Value
  <2> TAKE k \in 1..n
  <2>1. Positions(o)[k] \in 1..Len(argv)
    BY ElementOfSeq
  <2>2. argv[Positions(o)[k]] \in Arg
    BY <2>1, ElementOfSeq
  <2> QED
    BY <2>2 DEF Arg, Value
<1>3. Values(o) = [k \in 1..n |-> argv[Positions(o)[k]].val]
  BY DEF Values
<1> HIDE DEF n
<1>4. Values(o) \in [1..n -> Value]
  BY <1>2, <1>3
<1>5. Values(o) \in Seq(Value) /\ Len(Values(o)) = n
  BY <1>1, <1>4, SeqOfFcn
<1> QED
  BY <1>5 DEF n

\* The positions and the values of the option are one longer, the others as
\* they were.
LEMMA GivenStep ==
  ASSUME NEW o \in Options, NEW a \in Arg, argv \in Seq(Arg),
         Positions(o) \in Seq(1..Len(argv)), argv' = Append(argv, a)
  PROVE  /\ Positions(o)' \in Seq(1..Len(argv'))
         /\ a.opt = o => /\ Positions(o)' = Append(Positions(o), Len(argv) + 1)
                        /\ Values(o)' = Append(Values(o), a.val)
         /\ a.opt # o => Positions(o)' = Positions(o) /\ Values(o)' = Values(o)
<1> DEFINE n == Len(argv)
           P == Positions(o)
           PP == Positions(o)'
<1>1. n \in Nat /\ argv' \in Seq(Arg) /\ Len(argv') = n + 1
  BY AppendProperties, LenProperties
<1>2. \A k \in 1..n : argv'[k] = argv[k]
  BY AppendProperties
<1>3. argv'[n + 1] = a
  BY AppendProperties
<1>4. Given(o) \in SUBSET (1..n)
  BY DEF Given
<1>5. P = Ordered(Given(o)) /\ PP = Ordered(Given(o)')
  BY DEF Positions
<1>6. P \in Seq(1..n)
  OBVIOUS
<1>7. Len(P) \in Nat
  BY <1>6, LenProperties
<1>8. \A k \in 1..Len(P) : P[k] \in 1..n
  BY <1>6, ElementOfSeq
<1>9. Values(o) = [k \in 1..Len(P) |-> argv[P[k]].val]
  BY DEF Values
<1>10. Values(o)' = [k \in 1..Len(PP) |-> argv'[PP[k]].val]
  BY DEF Values
<1>11. Given(o)' = {k \in 1..(n + 1) : argv'[k].opt = o}
  BY <1>1 DEF Given
<1>12. \A k : k \in 1..(n + 1) <=> k \in 1..n \/ k = n + 1
  BY <1>1
<1>13. CASE a.opt = o
  <2>1. Given(o)' = Given(o) \cup {n + 1}
    <3> HIDE DEF n
    <3>1. \A k : k \in Given(o)' <=> k \in 1..(n + 1) /\ argv'[k].opt = o
      BY <1>11
    <3>2. \A k : k \in Given(o) <=> k \in 1..n /\ argv[k].opt = o
      BY DEF Given, n
    <3> QED
      BY <1>2, <1>3, <1>12, <1>13, <3>1, <3>2
  <2>2. PP = Append(P, n + 1) /\ PP \in Seq(1..(n + 1))
    <3> HIDE DEF n
    <3> QED
      BY <1>1, <1>4, <1>5, <1>6, <2>1, OrderedAppend
  <2> HIDE DEF P, PP, n
  <2>3. n + 1 \in 1..(n + 1) /\ P \in Seq(1..(n + 1))
    <3>1. n + 1 \in 1..(n + 1)
      BY <1>1
    <3>2. P \in Seq(1..(n + 1))
      BY <1>1, <1>6, WiderSeq
    <3> QED
      BY <3>1, <3>2
  <2>4. /\ Len(PP) = Len(P) + 1
        /\ \A k \in 1..Len(P) : PP[k] = P[k]
        /\ PP[Len(P) + 1] = n + 1
    BY <2>2, <2>3, AppendProperties
  <2>5. Values(o) \in Seq(Value) /\ Len(Values(o)) = Len(P)
    BY ValuesType DEF P
  <2>6. a.val \in Value
    BY DEF Arg, Value
  <2>7. /\ Append(Values(o), a.val) \in Seq(Value)
        /\ Len(Append(Values(o), a.val)) = Len(P) + 1
        /\ \A k \in 1..Len(P) : Append(Values(o), a.val)[k] = argv[P[k]].val
        /\ Append(Values(o), a.val)[Len(P) + 1] = a.val
    BY <1>9, <2>5, <2>6, AppendProperties
  <2>8. \A k \in 1..Len(P) : argv'[PP[k]].val = argv[P[k]].val
    BY <1>2, <1>8, <2>4
  <2>9. argv'[PP[Len(P) + 1]].val = a.val
    BY <1>3, <2>4
  <2>10. \A k : k \in 1..(Len(P) + 1) <=> k \in 1..Len(P) \/ k = Len(P) + 1
    BY <1>7
  <2>11. \A k \in 1..(Len(P) + 1) : argv'[PP[k]].val = Append(Values(o), a.val)[k]
    BY <2>7, <2>8, <2>9, <2>10, Zenon
  <2>12. DOMAIN Append(Values(o), a.val) = 1..(Len(P) + 1)
    BY <2>7, LenProperties
  <2>13. Append(Values(o), a.val) = [k \in 1..(Len(P) + 1) |-> Append(Values(o), a.val)[k]]
    BY <2>7, <2>12
  <2>14. Values(o)' = Append(Values(o), a.val)
    BY <1>10, <2>4, <2>11, <2>13, Zenon
  <2> QED
    BY <1>1, <1>13, <2>2, <2>14 DEF P, PP, n
<1>14. CASE a.opt # o
  <2>1. Given(o)' = Given(o)
    <3> HIDE DEF n
    <3>1. \A k : k \in Given(o)' <=> k \in 1..(n + 1) /\ argv'[k].opt = o
      BY <1>11
    <3>2. \A k : k \in Given(o) <=> k \in 1..n /\ argv[k].opt = o
      BY DEF Given, n
    <3> QED
      BY <1>2, <1>3, <1>12, <1>14, <3>1, <3>2
  <2>2. PP = P
    BY <1>5, <2>1
  <2> HIDE DEF P, PP, n
  <2>3. P \in Seq(1..(n + 1))
    BY <1>1, <1>6, WiderSeq
  <2>4. \A k \in 1..Len(P) : argv'[P[k]].val = argv[P[k]].val
    BY <1>2, <1>8
  <2>5. Values(o)' = Values(o)
    BY <1>9, <1>10, <2>2, <2>4, Zenon
  <2> QED
    BY <1>1, <1>14, <2>2, <2>3, <2>5 DEF P, PP, n
<1> QED
  BY <1>13, <1>14

LEMMA LastOfAppend ==
  ASSUME NEW S, NEW s \in Seq(S), NEW e \in S, NEW d
  PROVE  LastOf(Append(s, e), d) = e /\ Append(s, e) # <<>> /\ Last(Append(s, e)) = e
<1>1. /\ Append(s, e) \in Seq(S)
      /\ Len(Append(s, e)) = Len(s) + 1
      /\ Append(s, e)[Len(s) + 1] = e
      /\ Append(s, e) # <<>>
  BY AppendProperties
<1>2. Last(Append(s, e)) = e
  BY <1>1 DEF Last
<1> QED
  BY <1>1, <1>2 DEF LastOf

\* What does not fit is not among the first.
LEMMA FirstNProperties ==
  ASSUME NEW S, NEW s \in Seq(S)
  PROVE  /\ FirstN(s) \in Seq(S)
         /\ Len(FirstN(s)) = IF Len(s) > MAX_FILTERS_NUM THEN MAX_FILTERS_NUM ELSE Len(s)
         /\ \A k \in 1..Len(FirstN(s)) : FirstN(s)[k] = s[k]
<1> DEFINE m == IF Len(s) > MAX_FILTERS_NUM THEN MAX_FILTERS_NUM ELSE Len(s)
<1>1. Len(s) \in Nat /\ m \in Nat /\ m <= Len(s)
  BY LenProperties, ArgsAssumption
<1>2. \A k \in 1..m : s[k] \in S
  <2> TAKE k \in 1..m
  <2>1. k \in 1..Len(s)
    BY <1>1
  <2> QED
    BY <2>1, ElementOfSeq
<1>3. FirstN(s) = [k \in 1..m |-> s[k]]
  <2>1. FirstN(s) = SubSeq(s, 1, m)
    BY DEF FirstN
  <2> HIDE DEF m
  <2>2. SubSeq(s, 1, m) \in Seq(S) /\ Len(SubSeq(s, 1, m)) = m
    BY <1>1, <1>2, SubSeqProperties
  <2>3. \A k \in 1..m : SubSeq(s, 1, m)[k] = s[k]
    BY <1>1, <1>2, SubSeqProperties
  <2>4. SubSeq(s, 1, m) = [k \in 1..m |-> SubSeq(s, 1, m)[k]]
    BY <2>2, LenProperties
  <2> QED
    BY <2>1, <2>3, <2>4, Zenon
<1> HIDE DEF m
<1>4. FirstN(s) \in [1..m -> S]
  BY <1>2, <1>3
<1>5. FirstN(s) \in Seq(S) /\ Len(FirstN(s)) = m
  BY <1>1, <1>4, SeqOfFcn
<1>6. \A k \in 1..m : FirstN(s)[k] = s[k]
  BY <1>3
<1> QED
  BY <1>5, <1>6 DEF m

\* Taking the first ones is what AddFilter() does, one after the other.
LEMMA FirstNAppend ==
  ASSUME NEW S, NEW s \in Seq(S), NEW e \in S
  PROVE  FirstN(Append(s, e)) = AddFilter(FirstN(s), e)
<1> DEFINE t == Append(s, e)
<1>1. /\ t \in Seq(S) /\ Len(t) = Len(s) + 1 /\ t[Len(s) + 1] = e
      /\ \A k \in 1..Len(s) : t[k] = s[k]
  BY AppendProperties
<1> HIDE DEF t
<1>2. Len(s) \in Nat /\ MAX_FILTERS_NUM \in Nat
  BY LenProperties, ArgsAssumption
<1>3. /\ FirstN(s) \in Seq(S)
      /\ Len(FirstN(s)) = IF Len(s) > MAX_FILTERS_NUM THEN MAX_FILTERS_NUM ELSE Len(s)
      /\ \A k \in 1..Len(FirstN(s)) : FirstN(s)[k] = s[k]
  BY FirstNProperties
<1>4. /\ FirstN(t) \in Seq(S)
      /\ Len(FirstN(t)) = IF Len(t) > MAX_FILTERS_NUM THEN MAX_FILTERS_NUM ELSE Len(t)
      /\ \A k \in 1..Len(FirstN(t)) : FirstN(t)[k] = t[k]
  BY <1>1, FirstNProperties
<1>5. CASE Len(s) >= MAX_FILTERS_NUM
  <2>1. AddFilter(FirstN(s), e) = FirstN(s)
    BY <1>2, <1>3, <1>5 DEF AddFilter, Full
  <2>2. Len(FirstN(t)) = Len(FirstN(s))
    BY <1>1, <1>2, <1>3, <1>4, <1>5
  <2>3. \A k \in 1..Len(FirstN(s)) : k \in 1..Len(s)
    BY <1>2, <1>3
  <2>4. \A k \in 1..Len(FirstN(s)) : FirstN(t)[k] = FirstN(s)[k]
    BY <1>1, <1>3, <1>4, <2>2, <2>3
  <2> QED
    BY <1>3, <1>4, <2>1, <2>2, <2>4, SeqEqual DEF t
<1>6. CASE Len(s) < MAX_FILTERS_NUM
  <2>1. AddFilter(FirstN(s), e) = Append(FirstN(s), e)
    BY <1>2, <1>3, <1>6 DEF AddFilter, Full
  <2>2. Len(FirstN(s)) = Len(s) /\ Len(FirstN(t)) = Len(t)
    BY <1>1, <1>2, <1>3, <1>4, <1>6
  <2>3. FirstN(s) = s
    BY <1>3, <2>2, SeqEqual
  <2>4. FirstN(t) = t
    BY <1>1, <1>4, <2>2, SeqEqual
  <2> QED
    BY <2>1, <2>3, <2>4 DEF t
<1> QED
  BY <1>2, <1>5, <1>6

-----------------------------------------------------------------------------
(* The lists in memory.                                                    *)

LEMMA ListNamesAre ==
  ListNames = {"ftrace_event", "atrace_cat", "function_graph", "function_filter"}
<1>1. DOMAIN Lists = {1, 2, 3, 4}
  BY DEF Lists
<1>2. /\ Lists[1] = "ftrace_event" /\ Lists[2] = "atrace_cat"
      /\ Lists[3] = "function_graph" /\ Lists[4] = "function_filter"
  BY DEF Lists
<1> QED
  BY <1>1, <1>2 DEF ListNames, Range

LEMMA BaseKnown ==
  /\ Base("ftrace_event") = 0 /\ Base("atrace_cat") = MAX_FILTERS_NUM
  /\ Base("function_graph") = 2 * MAX_FILTERS_NUM /\ Base("function_filter") = 3 * MAX_FILTERS_NUM
  /\ FlagCell = 4 * MAX_FILTERS_NUM
<1>1. Len(Lists) = 4 /\ 1..4 = {1, 2, 3, 4}
  BY DEF Lists
<1>2. /\ Lists[1] = "ftrace_event" /\ Lists[2] = "atrace_cat"
      /\ Lists[3] = "function_graph" /\ Lists[4] = "function_filter"
  BY DEF Lists
<1>3. (CHOOSE k \in 1..Len(Lists) : Lists[k] = "ftrace_event") = 1
  BY <1>1, <1>2
<1>4. (CHOOSE k \in 1..Len(Lists) : Lists[k] = "atrace_cat") = 2
  BY <1>1, <1>2
<1>5. (CHOOSE k \in 1..Len(Lists) : Lists[k] = "function_graph") = 3
  BY <1>1, <1>2
<1>6. (CHOOSE k \in 1..Len(Lists) : Lists[k] = "function_filter") = 4
  BY <1>1, <1>2
<1>7. MAX_FILTERS_NUM \in Nat
  BY ArgsAssumption
<1>8. Base("ftrace_event") = MAX_FILTERS_NUM * (1 - 1) /\ Base("atrace_cat") = MAX_FILTERS_NUM * (2 - 1)
  BY <1>3, <1>4, Zenon DEF Base
<1>9. /\ Base("function_graph") = MAX_FILTERS_NUM * (3 - 1)
      /\ Base("function_filter") = MAX_FILTERS_NUM * (4 - 1)
  BY <1>5, <1>6, Zenon DEF Base
<1>10. FlagCell = MAX_FILTERS_NUM * 4
  BY <1>1, Zenon DEF FlagCell
<1>11. /\ MAX_FILTERS_NUM * (1 - 1) = 0 /\ MAX_FILTERS_NUM * (2 - 1) = MAX_FILTERS_NUM
       /\ MAX_FILTERS_NUM * (3 - 1) = 2 * MAX_FILTERS_NUM
       /\ MAX_FILTERS_NUM * (4 - 1) = 3 * MAX_FILTERS_NUM
       /\ MAX_FILTERS_NUM * 4 = 4 * MAX_FILTERS_NUM
  BY <1>7
<1> QED
  BY <1>8, <1>9, <1>10, <1>11

\* Entries that fit lie in their own list and before the flags.
LEMMA SlotsApart ==
  ASSUME NEW l \in ListNames, NEW k \in 1..MAX_FILTERS_NUM
  PROVE  /\ Base(l) + k - 1 \in 0..FlagCell
         /\ Base(l) + k - 1 # FlagCell
         /\ \A m \in ListNames, j \in 1..MAX_FILTERS_NUM :
              Base(l) + k - 1 = Base(m) + j - 1 => l = m /\ k = j
<1>1. MAX_FILTERS_NUM \in Nat /\ k \in 1..MAX_FILTERS_NUM
  BY ArgsAssumption
<1>2. l \in {"ftrace_event", "atrace_cat", "function_graph", "function_filter"}
  BY ListNamesAre
<1>3. Base(l) + k - 1 \in 0..FlagCell /\ Base(l) + k - 1 # FlagCell
  BY <1>1, <1>2, BaseKnown
<1>4. ASSUME NEW m \in ListNames, NEW j \in 1..MAX_FILTERS_NUM,
             Base(l) + k - 1 = Base(m) + j - 1
      PROVE  l = m /\ k = j
  <2>1. m \in {"ftrace_event", "atrace_cat", "function_graph", "function_filter"}
    BY ListNamesAre
  <2>2. CASE l = "ftrace_event"
    BY <1>1, <1>4, <2>1, <2>2, BaseKnown
  <2>3. CASE l = "atrace_cat"
    BY <1>1, <1>4, <2>1, <2>3, BaseKnown
  <2>4. CASE l = "function_graph"
    BY <1>1, <1>4, <2>1, <2>4, BaseKnown
  <2>5. CASE l = "function_filter"
    BY <1>1, <1>4, <2>1, <2>5, BaseKnown
  <2> QED
    BY <1>2, <2>2, <2>3, <2>4, <2>5
<1> QED
  BY <1>3, <1>4

LEMMA NoOptionTwice ==
  /\ FlagOptions \cap ListNames = {}
  /\ FlagOptions \cap OtherOptions = {}
  /\ ListNames \cap OtherOptions = {}
BY ListNamesAre DEF FlagOptions, Sets, OtherOptions

\* A list that holds what is given held what was given.
LEMMA HoldsBack ==
  ASSUME NEW a \in Arg, ArgTypeOK, argv' = Append(argv, a), Holds'
  PROVE  Holds
<1> SUFFICES ASSUME NEW l \in ListNames PROVE Len(Positions(l)) <= MAX_FILTERS_NUM
  BY DEF Holds
<1>1. l \in Options
  BY DEF Options
<1>2. argv \in Seq(Arg) /\ Positions(l) \in Seq(1..Len(argv))
  BY <1>1 DEF ArgTypeOK
<1>3. Positions(l)' = Positions(l) \/ Positions(l)' = Append(Positions(l), Len(argv) + 1)
  BY <1>1, <1>2, GivenStep
<1>4. Len(Positions(l)') <= MAX_FILTERS_NUM
  BY DEF Holds
<1>5. Len(Positions(l)) \in Nat /\ Len(Positions(l)') \in {Len(Positions(l)), Len(Positions(l)) + 1}
  <2>1. Positions(l) \in Seq(Nat)
    BY <1>2, NatSeq, LenProperties
  <2>2. Len(argv) + 1 \in Nat
    BY <1>2, LenProperties
  <2> QED
    BY <1>3, <2>1, <2>2, AppendProperties, LenProperties
<1> QED
  BY <1>4, <1>5, ArgsAssumption

-----------------------------------------------------------------------------
(* What an option leaves alone.                                            *)

LEMMA Next1Type ==
  ASSUME ArgTypeOK, NEW o \in Options, NEW n \in Value, Next1(o, n)
  PROVE  /\ [opt |-> o, val |-> n] \in Arg
         /\ phase = "parse"
         /\ argv' = Append(argv, [opt |-> o, val |-> n])
         /\ argv' \in Seq(Arg)
         /\ \A p \in Options : Positions(p)' \in Seq(1..Len(argv'))
         /\ Position \in Nat /\ Position = Len(argv) + 1
<1>1. [opt |-> o, val |-> n] \in Arg
  BY DEF Arg, Value
<1>2. phase = "parse" /\ argv' = Append(argv, [opt |-> o, val |-> n])
  BY DEF Next1
<1>3. argv \in Seq(Arg) /\ \A p \in Options : Positions(p) \in Seq(1..Len(argv))
  BY DEF ArgTypeOK
<1>4. argv' \in Seq(Arg)
  BY <1>1, <1>2, <1>3, AppendProperties
<1>5. \A p \in Options : Positions(p)' \in Seq(1..Len(argv'))
  BY <1>1, <1>2, <1>3, GivenStep
<1>6. Position \in Nat /\ Position = Len(argv) + 1
  BY <1>3, LenProperties DEF Position
<1> QED
  BY <1>1, <1>2, <1>4, <1>5, <1>6

\* Positions and values of the option that was parsed and of the others.
LEMMA GivenKept ==
  ASSUME ArgTypeOK, NEW a \in Arg, argv' = Append(argv, a)
  PROVE  /\ \A p \in Options \ {a.opt} : Positions(p)' = Positions(p) /\ Values(p)' = Values(p)
         /\ Positions(a.opt)' = Append(Positions(a.opt), Len(argv) + 1)
         /\ Values(a.opt)' = Append(Values(a.opt), a.val)
<1>1. argv \in Seq(Arg) /\ \A p \in Options : Positions(p) \in Seq(1..Len(argv))
  BY DEF ArgTypeOK
<1>2. a.opt \in Options
  BY DEF Arg
<1> QED
  BY <1>1, <1>2, GivenStep

LEMMA GivenType ==
  ASSUME ArgTypeOK, NEW p \in Options
  PROVE  /\ Positions(p) \in Seq(Nat) /\ Values(p) \in Seq(Value)
         /\ Len(Values(p)) = Len(Positions(p)) /\ Len(Positions(p)) \in Nat
<1>1. argv \in Seq(Arg) /\ Positions(p) \in Seq(1..Len(argv)) /\ Len(argv) \in Nat
  BY LenProperties DEF ArgTypeOK
<1>2. Positions(p) \in Seq(Nat)
  BY <1>1, NatSeq
<1>3. Values(p) \in Seq(Value) /\ Len(Values(p)) = Len(Positions(p))
  BY <1>1, ValuesType
<1> QED
  BY <1>2, <1>3, LenProperties

LEMMA FlagsAskedStep ==
  ASSUME NEW a \in Arg, argv \in Seq(Arg), argv' = Append(argv, a)
  PROVE  FlagsAsked' = FlagsAsked \cup (IF a.opt \in FlagOptions THEN Sets[a.opt] ELSE {})
<1> DEFINE n == Len(argv)
<1>1. n \in Nat /\ Len(argv') = n + 1 /\ argv'[n + 1] = a /\ \A k \in 1..n : argv'[k] = argv[k]
  BY AppendProperties, LenProperties
<1>2. \A k : k \in 1..(n + 1) <=> k \in 1..n \/ k = n + 1
  BY <1>1
<1>3. \A f : f \in FlagsAsked <=> \E k \in 1..n : argv[k].opt \in FlagOptions /\ f \in Sets[argv[k].opt]
  BY DEF FlagsAsked
<1>4. \A f : f \in FlagsAsked' <=>
         \E k \in 1..(n + 1) : argv'[k].opt \in FlagOptions /\ f \in Sets[argv'[k].opt]
  BY <1>1 DEF FlagsAsked
<1> HIDE DEF n
<1>5. \A f : f \in FlagsAsked' <=>
         \/ \E k \in 1..n : argv'[k].opt \in FlagOptions /\ f \in Sets[argv'[k].opt]
         \/ argv'[n + 1].opt \in FlagOptions /\ f \in Sets[argv'[n + 1].opt]
  BY <1>2, <1>4, Zenon
<1>6. \A f : f \in FlagsAsked' <=>
         f \in FlagsAsked \/ (a.opt \in FlagOptions /\ f \in Sets[a.opt])
  BY <1>1, <1>3, <1>5
<1> QED
  BY <1>6

\* An option that is neither a list nor a flag.
LEMMA ListsKept ==
  ASSUME ArgTypeOK, ListsOK, NEW a \in Arg, argv' = Append(argv, a), a.opt \in OtherOptions,
         UNCHANGED <<num, cells, flags>>
  PROVE  ListsOK'
<1> SUFFICES ASSUME Holds'
             PROVE  /\ \A l \in ListNames :
                         /\ num'[l] = Len(Positions(l)')
                         /\ \A k \in 1..num'[l] : cells'[Base(l) + k - 1] = Positions(l)'[k]
                    /\ cells'[FlagCell] = NULL
                    /\ flags' = FlagsAsked'
  BY DEF ListsOK
<1>1. Holds
  BY HoldsBack
<1>2. /\ \A l \in ListNames :
            /\ num[l] = Len(Positions(l))
            /\ \A k \in 1..num[l] : cells[Base(l) + k - 1] = Positions(l)[k]
      /\ cells[FlagCell] = NULL
      /\ flags = FlagsAsked
  BY <1>1 DEF ListsOK
<1>3. \A l \in ListNames : Positions(l)' = Positions(l)
  <2> TAKE l \in ListNames
  <2>1. l \in Options \ {a.opt}
    BY NoOptionTwice DEF Options
  <2> QED
    BY <2>1, GivenKept
<1>4. FlagsAsked' = FlagsAsked
  BY FlagsAskedStep, NoOptionTwice DEF ArgTypeOK
<1> QED
  BY <1>2, <1>3, <1>4

LEMMA ScalarsKept ==
  ASSUME ArgTypeOK, ScalarsOK, NEW a \in Arg, argv' = Append(argv, a),
         a.opt \notin {"output", "output_path", "max_size"},
         phase = "parse", phase' = "parse", UNCHANGED <<output, output_path, max_size>>
  PROVE  ScalarsOK'
<1>1. {"output", "output_path", "max_size"} \subseteq Options \ {a.opt}
  BY DEF Options, OtherOptions
<1>2. /\ Positions("output")' = Positions("output")
      /\ Positions("output_path")' = Positions("output_path")
      /\ Values("max_size")' = Values("max_size")
  BY <1>1, GivenKept
<1> QED
  BY <1>2 DEF ScalarsOK

LEMMA FiltersKept ==
  ASSUME ArgTypeOK, FiltersOK, NEW a \in Arg, argv' = Append(argv, a), a.opt \notin {"pid", "comm"},
         UNCHANGED <<pids, comms>>
  PROVE  FiltersOK'
<1>1. {"pid", "comm"} \subseteq Options \ {a.opt}
  BY DEF Options, OtherOptions
<1>2. /\ Values("pid")' = Values("pid") /\ Values("comm")' = Values("comm")
      /\ Positions("comm")' = Positions("comm")
  BY <1>1, GivenKept
<1>3. CommsGiven' = CommsGiven
  BY <1>2 DEF CommsGiven
<1> QED
  BY <1>2, <1>3 DEF FiltersOK

-----------------------------------------------------------------------------
(* What an option changes.                                                 *)

\* An entry that fits overwrites nothing that is in use.
LEMMA ListStep ==
  ASSUME ArgTypeOK, ListsOK, NEW l \in ListNames, OptList(l)
  PROVE  ListsOK'
<1> DEFINE a == [opt |-> l, val |-> 0]
           n == Len(argv) + 1
<1> SUFFICES ASSUME Holds'
             PROVE  /\ \A m \in ListNames :
                         /\ num'[m] = Len(Positions(m)')
                         /\ \A k \in 1..num'[m] : cells'[Base(m) + k - 1] = Positions(m)'[k]
                    /\ cells'[FlagCell] = NULL
                    /\ flags' = FlagsAsked'
  BY DEF ListsOK
<1>1. l \in Options /\ 0 \in Value
  BY DEF Options, Value
<1>2. /\ a \in Arg /\ argv' = Append(argv, a) /\ argv \in Seq(Arg)
      /\ Position = n /\ n \in Nat
  BY <1>1, Next1Type DEF OptList, ArgTypeOK
<1>3. Holds
  BY <1>2, HoldsBack
<1>4. /\ \A m \in ListNames :
            /\ num[m] = Len(Positions(m))
            /\ \A k \in 1..num[m] : cells[Base(m) + k - 1] = Positions(m)[k]
      /\ cells[FlagCell] = NULL
      /\ flags = FlagsAsked
  BY <1>3 DEF ListsOK
<1>5. /\ \A m \in ListNames \ {l} : Positions(m)' = Positions(m)
      /\ Positions(l)' = Append(Positions(l), n)
  <2>1. \A m \in ListNames \ {l} : m \in Options \ {a.opt}
    BY DEF Options
  <2> QED
    BY <1>2, <2>1, GivenKept
<1>6. \A m \in ListNames : Positions(m) \in Seq(Nat) /\ Len(Positions(m)) \in Nat
  <2>1. \A m \in ListNames : m \in Options
    BY DEF Options
  <2> QED
    BY <2>1, GivenType
<1>7. /\ Len(Positions(l)') = num[l] + 1
      /\ \A k \in 1..num[l] : Positions(l)'[k] = Positions(l)[k]
      /\ Positions(l)'[num[l] + 1] = n
  BY <1>2, <1>4, <1>5, <1>6, AppendProperties
<1>8. num[l] \in Nat /\ num[l] + 1 \in 1..MAX_FILTERS_NUM /\ MAX_FILTERS_NUM \in Nat
  <2>1. Len(Positions(l)') <= MAX_FILTERS_NUM
    BY DEF Holds
  <2> QED
    BY <1>4, <1>6, <1>7, <2>1, ArgsAssumption
<1>9. Slot(l) = Base(l) + (num[l] + 1) - 1
  <2>1. Base(l) \in Int
    BY BaseKnown, ListNamesAre, <1>8
  <2> QED
    BY <1>8, <2>1 DEF Slot
<1>10. /\ Slot(l) \in 0..FlagCell /\ Slot(l) # FlagCell
       /\ \A m \in ListNames, j \in 1..MAX_FILTERS_NUM : Slot(l) = Base(m) + j - 1 => l = m /\ num[l] + 1 = j
  BY <1>8, <1>9, SlotsApart
<1>11. /\ cells \in [0..FlagCell -> Int] /\ num \in [ListNames -> Nat]
       /\ cells' = [cells EXCEPT ![Slot(l)] = n]
       /\ num' = [num EXCEPT ![l] = num[l] + 1]
       /\ flags' = flags
  BY <1>2, <1>10 DEF ArgTypeOK, OptList
<1> HIDE DEF n
<1>12. cells'[Slot(l)] = n /\ \A j \in 0..FlagCell : j # Slot(l) => cells'[j] = cells[j]
  BY <1>10, <1>11
<1>13. FlagCell \in 0..FlagCell
  BY BaseKnown, <1>8
<1>14. cells'[FlagCell] = NULL
  BY <1>4, <1>10, <1>12, <1>13
<1>15. FlagsAsked' = FlagsAsked
  BY <1>2, FlagsAskedStep, NoOptionTwice
<1>16. ASSUME NEW m \in ListNames \ {l}
       PROVE  /\ num'[m] = Len(Positions(m)')
              /\ \A k \in 1..num'[m] : cells'[Base(m) + k - 1] = Positions(m)'[k]
  <2>1. num'[m] = num[m]
    BY <1>11
  <2>2. num[m] \in Nat /\ num[m] <= MAX_FILTERS_NUM
    BY <1>3, <1>4, <1>6 DEF Holds
  <2>3. ASSUME NEW k \in 1..num[m] PROVE cells'[Base(m) + k - 1] = cells[Base(m) + k - 1]
    <3>1. k \in 1..MAX_FILTERS_NUM
      BY <1>8, <2>2
    <3>2. Base(m) + k - 1 \in 0..FlagCell
      BY <3>1, SlotsApart
    <3>3. Base(m) + k - 1 # Slot(l)
      BY <1>10, <3>1
    <3> QED
      BY <1>12, <3>2, <3>3, Zenon
  <2> QED
    BY <1>4, <1>5, <2>1, <2>3
<1>17. /\ num'[l] = Len(Positions(l)')
       /\ \A k \in 1..num'[l] : cells'[Base(l) + k - 1] = Positions(l)'[k]
  <2>1. num'[l] = num[l] + 1
    BY <1>11
  <2>2. ASSUME NEW k \in 1..num[l] PROVE cells'[Base(l) + k - 1] = cells[Base(l) + k - 1]
    <3>1. k \in 1..MAX_FILTERS_NUM /\ k # num[l] + 1
      BY <1>8
    <3>2. Base(l) + k - 1 \in 0..FlagCell
      BY <3>1, SlotsApart
    <3>3. Base(l) + k - 1 # Slot(l)
      BY <1>10, <3>1
    <3> QED
      BY <1>12, <3>2, <3>3, Zenon
  <2>3. \A k \in 1..num[l] : cells'[Base(l) + k - 1] = Positions(l)'[k]
    BY <1>4, <1>7, <2>2
  <2>4. cells'[Base(l) + (num[l] + 1) - 1] = Positions(l)'[num[l] + 1]
    BY <1>7, <1>9, <1>12
  <2>5. \A k \in 1..(num[l] + 1) : k \in 1..num[l] \/ k = num[l] + 1
    BY <1>8
  <2> QED
    BY <1>7, <2>1, <2>3, <2>4, <2>5, Zenon
<1> QED
  BY <1>4, <1>11, <1>14, <1>15, <1>16, <1>17

LEMMA FlagsStep ==
  ASSUME ArgTypeOK, ListsOK, NEW o \in FlagOptions, OptFlags(o)
  PROVE  ListsOK'
<1> DEFINE a == [opt |-> o, val |-> 0]
<1> SUFFICES ASSUME Holds'
             PROVE  /\ \A m \in ListNames :
                         /\ num'[m] = Len(Positions(m)')
                         /\ \A k \in 1..num'[m] : cells'[Base(m) + k - 1] = Positions(m)'[k]
                    /\ cells'[FlagCell] = NULL
                    /\ flags' = FlagsAsked'
  BY DEF ListsOK
<1>1. o \in Options /\ 0 \in Value
  BY DEF Options, Value
<1>2. a \in Arg /\ argv' = Append(argv, a) /\ argv \in Seq(Arg)
  BY <1>1, Next1Type DEF OptFlags, ArgTypeOK
<1>3. Holds
  BY <1>2, HoldsBack
<1>4. /\ \A m \in ListNames :
            /\ num[m] = Len(Positions(m))
            /\ \A k \in 1..num[m] : cells[Base(m) + k - 1] = Positions(m)[k]
      /\ cells[FlagCell] = NULL
      /\ flags = FlagsAsked
  BY <1>3 DEF ListsOK
<1>5. \A m \in ListNames : Positions(m)' = Positions(m)
  <2>1. \A m \in ListNames : m \in Options \ {a.opt}
    BY NoOptionTwice DEF Options
  <2> QED
    BY <1>2, <2>1, GivenKept
<1>6. num' = num /\ cells' = cells /\ flags' = flags \cup Sets[o]
  BY <1>4 DEF OptFlags
<1>7. FlagsAsked' = FlagsAsked \cup Sets[o]
  BY <1>2, FlagsAskedStep
<1> QED
  BY <1>4, <1>5, <1>6, <1>7

LEMMA PidOfType ==
  ASSUME NEW n \in Value
  PROVE  PidOf(n) \in Int
<1>1. LONG_MAX \in Int /\ LONG_MIN \in Int
  BY ArgsAssumption DEF LONG_MAX, LONG_MIN
<1>2. strtol(n) \in Int
  BY <1>1, ArgsAssumption DEF strtol, Value
<1>3. INT_SPAN \in Nat \ {0} /\ INT_SPAN \div 2 \in Int
  BY ArgsAssumption
<1>4. (strtol(n) + INT_SPAN \div 2) % INT_SPAN \in Int
  BY <1>2, <1>3
<1> QED
  BY <1>3, <1>4 DEF PidOf, Wrapped

LEMMA AddFilterType ==
  ASSUME NEW S, NEW s \in Seq(S), NEW e \in S
  PROVE  AddFilter(s, e) \in Seq(S)
BY AppendProperties DEF AddFilter

\* The last output counts, the last path and the last size.
LEMMA OutputStep ==
  ASSUME ArgTypeOK, ScalarsOK, OptOutput
  PROVE  ScalarsOK'
<1> DEFINE a == [opt |-> "output", val |-> 0]
<1>1. "output" \in Options /\ 0 \in Value
  BY DEF Options, OtherOptions, Value
<1>2. /\ a \in Arg /\ argv' = Append(argv, a) /\ phase = "parse"
      /\ Position \in Nat /\ Position = Len(argv) + 1
  BY <1>1, Next1Type DEF OptOutput
<1>3. Positions("output")' = Append(Positions("output"), Position)
  BY <1>2, GivenKept
<1>4. Positions("output") \in Seq(Nat)
  BY <1>1, GivenType
<1>5. LastOf(Positions("output")', NULL) = Position
  <2>1. LastOf(Append(Positions("output"), Position), NULL) = Position
    BY <1>2, <1>4, LastOfAppend
  <2> QED
    BY <1>3, <2>1
<1>6. {"output_path", "max_size"} \subseteq Options \ {a.opt}
  BY DEF Options, OtherOptions
<1>7. Positions("output_path")' = Positions("output_path") /\ Values("max_size")' = Values("max_size")
  BY <1>2, <1>6, GivenKept
<1> QED
  BY <1>2, <1>5, <1>7 DEF ScalarsOK, OptOutput

LEMMA OutputPathStep ==
  ASSUME ArgTypeOK, ScalarsOK, OptOutputPath
  PROVE  ScalarsOK'
<1> DEFINE a == [opt |-> "output_path", val |-> 0]
<1>1. "output_path" \in Options /\ 0 \in Value
  BY DEF Options, OtherOptions, Value
<1>2. /\ a \in Arg /\ argv' = Append(argv, a) /\ phase = "parse"
      /\ Position \in Nat /\ Position = Len(argv) + 1
  BY <1>1, Next1Type DEF OptOutputPath
<1>3. Positions("output_path")' = Append(Positions("output_path"), Position)
  BY <1>2, GivenKept
<1>4. Positions("output_path") \in Seq(Nat)
  BY <1>1, GivenType
<1>5. LastOf(Positions("output_path")', NULL) = Position
  <2>1. LastOf(Append(Positions("output_path"), Position), NULL) = Position
    BY <1>2, <1>4, LastOfAppend
  <2> QED
    BY <1>3, <2>1
<1>6. {"output", "max_size"} \subseteq Options \ {a.opt}
  BY DEF Options, OtherOptions
<1>7. Positions("output")' = Positions("output") /\ Values("max_size")' = Values("max_size")
  BY <1>2, <1>6, GivenKept
<1> QED
  BY <1>2, <1>5, <1>7 DEF ScalarsOK, OptOutputPath

LEMMA MaxSizeStep ==
  ASSUME ArgTypeOK, ScalarsOK, NEW n \in Numbers, OptMaxSize(n), phase' # "exited"
  PROVE  ScalarsOK' /\ phase' = "parse"
<1> DEFINE a == [opt |-> "max_size", val |-> n]
<1>1. "max_size" \in Options /\ n \in Value
  BY ArgsAssumption DEF Options, OtherOptions, Value
<1>2. a \in Arg /\ argv' = Append(argv, a) /\ phase = "parse"
  BY <1>1, Next1Type DEF OptMaxSize
<1>3. Values("max_size")' = Append(Values("max_size"), n)
  BY <1>2, GivenKept
<1>4. Values("max_size") \in Seq(Value)
  BY <1>1, GivenType
<1>5. Values("max_size")' # <<>> /\ Last(Values("max_size")') = n
  <2>1. Append(Values("max_size"), n) # <<>> /\ Last(Append(Values("max_size"), n)) = n
    BY <1>1, <1>4, LastOfAppend
  <2> QED
    BY <1>3, <2>1
<1>6. phase' = "parse" /\ ~BadNumber(n) /\ max_size' = Bytes(n)
  BY <1>2 DEF OptMaxSize, AfterNumber
<1>7. {"output", "output_path"} \subseteq Options \ {a.opt}
  BY DEF Options, OtherOptions
<1>8. Positions("output")' = Positions("output") /\ Positions("output_path")' = Positions("output_path")
  BY <1>2, <1>7, GivenKept
<1> QED
  BY <1>2, <1>5, <1>6, <1>8 DEF ScalarsOK, OptMaxSize

\* A filter that fits is stored behind the others.
LEMMA PidStep ==
  ASSUME ArgTypeOK, FiltersOK, NEW n \in Numbers, OptPid(n), phase' # "exited"
  PROVE  FiltersOK' /\ phase' = "parse"
<1> DEFINE a == [opt |-> "pid", val |-> n]
           V == Values("pid")
           W == [k \in 1..Len(V) |-> PidOf(V[k])]
           VV == Values("pid")'
           WW == [k \in 1..Len(VV) |-> PidOf(VV[k])]
<1>1. "pid" \in Options /\ n \in Value
  BY ArgsAssumption DEF Options, OtherOptions, Value
<1>2. a \in Arg /\ argv' = Append(argv, a) /\ phase = "parse"
  BY <1>1, Next1Type DEF OptPid
<1>3. VV = Append(V, n)
  BY <1>2, GivenKept
<1>4. V \in Seq(Value) /\ Len(V) \in Nat
  BY <1>1, GivenType
<1> HIDE DEF V, VV
<1>5. /\ VV \in Seq(Value) /\ Len(VV) = Len(V) + 1 /\ VV[Len(V) + 1] = n
      /\ \A k \in 1..Len(V) : VV[k] = V[k]
  BY <1>1, <1>3, <1>4, AppendProperties
<1>6. W \in Seq(Int) /\ Len(W) = Len(V)
  <2>1. \A k \in 1..Len(V) : PidOf(V[k]) \in Int
    BY <1>4, ElementOfSeq, PidOfType
  <2>2. W \in [1..Len(V) -> Int]
    BY <2>1
  <2> QED
    BY <1>4, <2>2, SeqOfFcn
<1>7. WW = Append(W, PidOf(n))
  <2>1. PidOf(n) \in Int
    BY <1>1, PidOfType
  <2>2. /\ Append(W, PidOf(n)) \in Seq(Int) /\ Len(Append(W, PidOf(n))) = Len(V) + 1
        /\ \A k \in 1..Len(V) : Append(W, PidOf(n))[k] = W[k]
        /\ Append(W, PidOf(n))[Len(V) + 1] = PidOf(n)
    BY <1>6, <2>1, AppendProperties
  <2>3. \A k \in 1..(Len(V) + 1) : k \in 1..Len(V) \/ k = Len(V) + 1
    BY <1>4
  <2>4. \A k \in 1..Len(V) : PidOf(VV[k]) = Append(W, PidOf(n))[k]
    BY <1>5, <2>2
  <2>5. PidOf(VV[Len(V) + 1]) = Append(W, PidOf(n))[Len(V) + 1]
    BY <1>5, <2>2
  <2>6. \A k \in 1..(Len(V) + 1) : PidOf(VV[k]) = Append(W, PidOf(n))[k]
    BY <2>3, <2>4, <2>5, Zenon
  <2>7. Append(W, PidOf(n)) = [k \in 1..(Len(V) + 1) |-> Append(W, PidOf(n))[k]]
    BY <2>2, LenProperties
  <2>8. WW = [k \in 1..(Len(V) + 1) |-> PidOf(VV[k])]
    BY <1>5
  <2> HIDE DEF W, WW
  <2> QED
    BY <2>6, <2>7, <2>8, Zenon
<1>8. pids = FirstN(W) /\ comms = FirstN(CommsGiven)
  BY DEF FiltersOK, V
<1> HIDE DEF W, WW
<1>9. FirstN(WW) = AddFilter(pids, PidOf(n))
  BY <1>1, <1>6, <1>7, <1>8, FirstNAppend, PidOfType
<1>10. Len(pids) = IF Len(V) > MAX_FILTERS_NUM THEN MAX_FILTERS_NUM ELSE Len(V)
  BY <1>6, <1>8, FirstNProperties
<1>11. phase' = "parse" /\ pids' = AddFilter(pids, PidOf(n)) /\ (Full(pids) \/ ~BadNumber(n))
  BY <1>2 DEF OptPid, PidOf
<1>12. /\ Len(FirstN(V)) = IF Len(V) > MAX_FILTERS_NUM THEN MAX_FILTERS_NUM ELSE Len(V)
       /\ Len(FirstN(VV)) = IF Len(VV) > MAX_FILTERS_NUM THEN MAX_FILTERS_NUM ELSE Len(VV)
  BY <1>4, <1>5, FirstNProperties
<1>13. \A k \in 1..Len(FirstN(VV)) : ~BadNumber(VV[k])
  <2> TAKE k \in 1..Len(FirstN(VV))
  <2>1. \/ k \in 1..Len(FirstN(V)) /\ k \in 1..Len(V)
        \/ k = Len(V) + 1 /\ ~Full(pids)
    BY <1>4, <1>5, <1>10, <1>12, ArgsAssumption DEF Full
  <2>2. \A j \in 1..Len(FirstN(V)) : ~BadNumber(V[j])
    BY DEF FiltersOK, V
  <2> QED
    BY <1>5, <1>11, <2>1, <2>2
<1>14. {"comm"} \subseteq Options \ {a.opt}
  BY DEF Options, OtherOptions
<1>15. CommsGiven' = CommsGiven
  BY <1>2, <1>14, GivenKept DEF CommsGiven
<1>16. comms' = comms
  BY DEF OptPid
<1> QED
  BY <1>8, <1>9, <1>11, <1>13, <1>15, <1>16 DEF FiltersOK, V, VV, W, WW

LEMMA CommStep ==
  ASSUME ArgTypeOK, FiltersOK, NEW n \in CommLengths, OptComm(n)
  PROVE  FiltersOK'
<1> DEFINE a == [opt |-> "comm", val |-> n]
           P == Positions("comm")
           V == Values("comm")
           PP == Positions("comm")'
           VV == Values("comm")'
           e == [text |-> Position, len |-> CutComm(n)]
           Comm == [text : Nat, len : {CutComm(v) : v \in Value}]
<1>1. "comm" \in Options /\ n \in Value
  BY ArgsAssumption DEF Options, OtherOptions, Value
<1>2. /\ a \in Arg /\ argv' = Append(argv, a)
      /\ Position \in Nat /\ Position = Len(argv) + 1
  BY <1>1, Next1Type DEF OptComm
<1>3. PP = Append(P, Position) /\ VV = Append(V, n)
  BY <1>2, GivenKept
<1>4. P \in Seq(Nat) /\ V \in Seq(Value) /\ Len(V) = Len(P) /\ Len(P) \in Nat
  BY <1>1, GivenType
<1>5. CommsGiven = [k \in 1..Len(P) |-> [text |-> P[k], len |-> CutComm(V[k])]]
  BY DEF CommsGiven
<1>6. CommsGiven' = [k \in 1..Len(PP) |-> [text |-> PP[k], len |-> CutComm(VV[k])]]
  BY DEF CommsGiven
<1> HIDE DEF P, V, PP, VV
<1>7. /\ Len(PP) = Len(P) + 1 /\ PP[Len(P) + 1] = Position
      /\ \A k \in 1..Len(P) : PP[k] = P[k]
  BY <1>2, <1>3, <1>4, AppendProperties
<1>8. /\ VV[Len(P) + 1] = n
      /\ \A k \in 1..Len(P) : VV[k] = V[k]
  BY <1>1, <1>3, <1>4, AppendProperties
<1>9. CommsGiven \in Seq(Comm) /\ Len(CommsGiven) = Len(P)
  <2>1. \A k \in 1..Len(P) : P[k] \in Nat /\ V[k] \in Value
    BY <1>4, ElementOfSeq
  <2>2. \A k \in 1..Len(P) : [text |-> P[k], len |-> CutComm(V[k])] \in Comm
    BY <2>1
  <2> HIDE DEF Comm
  <2>3. CommsGiven \in [1..Len(P) -> Comm]
    BY <1>5, <2>2
  <2> QED
    BY <1>4, <2>3, SeqOfFcn
<1>10. e \in Comm
  BY <1>1, <1>2
<1> HIDE DEF Comm, e
<1>11. CommsGiven' = Append(CommsGiven, e)
  <2> DEFINE t == Append(CommsGiven, e)
  <2>1. /\ t \in Seq(Comm) /\ Len(t) = Len(P) + 1 /\ t[Len(P) + 1] = e
        /\ \A k \in 1..Len(P) : t[k] = CommsGiven[k]
    BY <1>9, <1>10, AppendProperties
  <2> HIDE DEF t
  <2>2. \A k \in 1..(Len(P) + 1) : k \in 1..Len(P) \/ k = Len(P) + 1
    BY <1>4
  <2>3. \A k \in 1..Len(P) : [text |-> PP[k], len |-> CutComm(VV[k])] = t[k]
    BY <1>5, <1>7, <1>8, <2>1
  <2>4. [text |-> PP[Len(P) + 1], len |-> CutComm(VV[Len(P) + 1])] = t[Len(P) + 1]
    BY <1>7, <1>8, <2>1 DEF e
  <2>5. \A k \in 1..(Len(P) + 1) : [text |-> PP[k], len |-> CutComm(VV[k])] = t[k]
    BY <2>2, <2>3, <2>4, Zenon
  <2>6. t = [k \in 1..(Len(P) + 1) |-> t[k]]
    BY <2>1, LenProperties
  <2>7. CommsGiven' = t
    BY <1>6, <1>7, <2>5, <2>6, Zenon
  <2> QED
    BY <2>7 DEF t
<1>12. comms' = AddFilter(comms, e)
  BY DEF OptComm, e
<1>13. FirstN(CommsGiven') = comms'
  BY <1>9, <1>10, <1>11, <1>12, FirstNAppend DEF FiltersOK
<1>14. {"pid"} \subseteq Options \ {a.opt}
  BY DEF Options, OtherOptions
<1>15. Values("pid")' = Values("pid")
  BY <1>2, <1>14, GivenKept
<1>16. pids' = pids
  BY DEF OptComm
<1> QED
  BY <1>13, <1>15, <1>16 DEF FiltersOK

-----------------------------------------------------------------------------
(* The invariant.                                                          *)

LEMMA NothingGiven ==
  ASSUME argv = <<>>, NEW o
  PROVE  Positions(o) = <<>> /\ Values(o) = <<>>
<1>1. Given(o) = {}
  BY DEF Given
<1>2. Cardinality(Given(o)) = 0
  BY <1>1, FS_EmptySet
<1>3. Positions(o) = <<>>
  BY <1>2 DEF Positions, Ordered
<1>4. Values(o) = <<>>
  BY <1>3 DEF Values
<1> QED
  BY <1>3, <1>4

LEMMA ArgInvInit == Init => ArgInv
<1> SUFFICES ASSUME Init PROVE ArgInv
  OBVIOUS
<1>1. argv = <<>> /\ phase = "parse" /\ pids = <<>> /\ comms = <<>>
  BY DEF Init
<1>2. \A o : Positions(o) = <<>> /\ Values(o) = <<>>
  BY <1>1, NothingGiven
<1>3. ArgTypeOK
  <2>1. \A o \in Options : Positions(o) \in Seq(1..Len(argv))
    BY <1>2, EmptySeq
  <2>2. num \in [ListNames -> Nat] /\ cells \in [0..FlagCell -> Int]
    BY DEF Init, NULL
  <2> QED
    BY <1>1, <2>1, <2>2 DEF ArgTypeOK
<1>4. ListsOK
  <2>1. \A l \in ListNames : num[l] = 0
    BY DEF Init
  <2>2. cells[FlagCell] = NULL
    BY BaseKnown, ArgsAssumption DEF Init
  <2>3. FlagsAsked = {}
    BY <1>1 DEF FlagsAsked
  <2> QED
    BY <1>2, <2>1, <2>2, <2>3 DEF ListsOK, Init
<1>5. ScalarsOK
  BY <1>1, <1>2 DEF ScalarsOK, LastOf, Init
<1>6. FiltersOK
  <2>1. FirstN(<<>>) = <<>>
    BY ArgsAssumption DEF FirstN
  <2>2. CommsGiven = <<>>
    BY <1>2 DEF CommsGiven
  <2>3. [k \in 1..Len(Values("pid")) |-> PidOf(Values("pid")[k])] = <<>>
    <3>1. Values("pid") = <<>>
      BY <1>2, Zenon
    <3>2. Len(Values("pid")) = 0
      BY <3>1
    <3> QED
      BY <3>2
  <2> QED
    BY <1>1, <1>2, <2>1, <2>2, <2>3 DEF FiltersOK
<1>7. TakenOK
  BY <1>1 DEF TakenOK
<1> QED
  BY <1>3, <1>4, <1>5, <1>6, <1>7 DEF ArgInv

\* An option that is no filter, list, flag or scalar, or a word that ends the
\* program: only the command line is longer.
LEMMA ArgTypeStep ==
  ASSUME ArgTypeOK, NEW o \in Options, NEW n \in Value, Next1(o, n),
         phase' \in {"parse", "exited"},
         num' \in [ListNames -> Nat], cells' \in [0..FlagCell -> Int],
         pids' \in Seq(Int), comms' \in Seq([text : Nat, len : Nat])
  PROVE  ArgTypeOK'
<1>1. argv' \in Seq(Arg) /\ \A p \in Options : Positions(p)' \in Seq(1..Len(argv'))
  BY Next1Type
<1> QED
  BY <1>1 DEF ArgTypeOK

LEMMA TakenInParse ==
  ASSUME phase' = "parse"
  PROVE  TakenOK'
BY DEF TakenOK

LEMMA BackendInv ==
  ASSUME ArgInv, NEW o \in {"system", "app"}, OptBackend(o)
  PROVE  ArgInv'
<1> DEFINE a == [opt |-> o, val |-> 0]
<1>1. o \in Options /\ 0 \in Value /\ ArgTypeOK /\ Next1(o, 0)
  BY DEF Options, OtherOptions, Value, ArgInv, OptBackend
<1>2. a \in Arg /\ phase = "parse" /\ argv' = Append(argv, a)
  BY <1>1, Next1Type
<1>3. UNCHANGED <<phase, output, output_path, max_size, num, cells, flags, pids, comms>>
  BY DEF OptBackend, numVars
<1>4. ListsOK /\ ScalarsOK /\ FiltersOK
  BY <1>2 DEF ArgInv
<1>5. ArgTypeOK'
  BY <1>1, <1>2, <1>3, ArgTypeStep DEF ArgTypeOK
<1>6. a.opt \in OtherOptions
  BY DEF OtherOptions
<1>7. ListsOK'
  BY <1>1, <1>2, <1>3, <1>4, <1>6, ListsKept
<1>8. ScalarsOK'
  BY <1>1, <1>2, <1>3, <1>4, ScalarsKept
<1>9. FiltersOK'
  BY <1>1, <1>2, <1>3, <1>4, FiltersKept
<1> QED
  BY <1>2, <1>3, <1>5, <1>7, <1>8, <1>9, TakenInParse DEF ArgInv

LEMMA OutputInv ==
  ASSUME ArgInv, OptOutput
  PROVE  ArgInv'
<1> DEFINE a == [opt |-> "output", val |-> 0]
<1>1. "output" \in Options /\ 0 \in Value /\ ArgTypeOK /\ Next1("output", 0)
  BY DEF Options, OtherOptions, Value, ArgInv, OptOutput
<1>2. a \in Arg /\ phase = "parse" /\ argv' = Append(argv, a)
  BY <1>1, Next1Type
<1>3. UNCHANGED <<phase, num, cells, flags, pids, comms>>
  BY DEF OptOutput, numVars
<1>4. ListsOK /\ ScalarsOK /\ FiltersOK
  BY <1>2 DEF ArgInv
<1>5. ArgTypeOK'
  BY <1>1, <1>2, <1>3, ArgTypeStep DEF ArgTypeOK
<1>6. a.opt \in OtherOptions
  BY DEF OtherOptions
<1>7. ListsOK'
  BY <1>1, <1>2, <1>3, <1>4, <1>6, ListsKept
<1>8. ScalarsOK'
  BY <1>1, <1>4, OutputStep
<1>9. FiltersOK'
  BY <1>1, <1>2, <1>3, <1>4, FiltersKept
<1> QED
  BY <1>2, <1>3, <1>5, <1>7, <1>8, <1>9, TakenInParse DEF ArgInv

LEMMA OutputPathInv ==
  ASSUME ArgInv, OptOutputPath
  PROVE  ArgInv'
<1> DEFINE a == [opt |-> "output_path", val |-> 0]
<1>1. "output_path" \in Options /\ 0 \in Value /\ ArgTypeOK /\ Next1("output_path", 0)
  BY DEF Options, OtherOptions, Value, ArgInv, OptOutputPath
<1>2. a \in Arg /\ phase = "parse" /\ argv' = Append(argv, a)
  BY <1>1, Next1Type
<1>3. UNCHANGED <<phase, num, cells, flags, pids, comms>>
  BY DEF OptOutputPath, numVars
<1>4. ListsOK /\ ScalarsOK /\ FiltersOK
  BY <1>2 DEF ArgInv
<1>5. ArgTypeOK'
  BY <1>1, <1>2, <1>3, ArgTypeStep DEF ArgTypeOK
<1>6. a.opt \in OtherOptions
  BY DEF OtherOptions
<1>7. ListsOK'
  BY <1>1, <1>2, <1>3, <1>4, <1>6, ListsKept
<1>8. ScalarsOK'
  BY <1>1, <1>4, OutputPathStep
<1>9. FiltersOK'
  BY <1>1, <1>2, <1>3, <1>4, FiltersKept
<1> QED
  BY <1>2, <1>3, <1>5, <1>7, <1>8, <1>9, TakenInParse DEF ArgInv

LEMMA MaxSizeInv ==
  ASSUME ArgInv, NEW n \in Numbers, OptMaxSize(n)
  PROVE  ArgInv'
<1> DEFINE a == [opt |-> "max_size", val |-> n]
<1>1. "max_size" \in Options /\ n \in Value /\ ArgTypeOK /\ Next1("max_size", n)
  BY ArgsAssumption DEF Options, OtherOptions, Value, ArgInv, OptMaxSize
<1>2. a \in Arg /\ phase = "parse" /\ argv' = Append(argv, a)
  BY <1>1, Next1Type
<1>3. UNCHANGED <<num, cells, flags, pids, comms>> /\ phase' \in {"parse", "exited"}
  BY <1>2 DEF OptMaxSize, numVars, AfterNumber
<1>4. ListsOK /\ ScalarsOK /\ FiltersOK
  BY <1>2 DEF ArgInv
<1>5. ArgTypeOK'
  BY <1>1, <1>2, <1>3, ArgTypeStep DEF ArgTypeOK
<1>6. a.opt \in OtherOptions
  BY DEF OtherOptions
<1>7. ListsOK'
  BY <1>1, <1>2, <1>3, <1>4, <1>6, ListsKept
<1>8. phase' # "exited" => ScalarsOK' /\ phase' = "parse"
  BY <1>1, <1>4, MaxSizeStep
<1>9. FiltersOK'
  BY <1>1, <1>2, <1>3, <1>4, FiltersKept
<1> QED
  BY <1>5, <1>7, <1>8, <1>9, TakenInParse DEF ArgInv

LEMMA PidInv ==
  ASSUME ArgInv, NEW n \in Numbers, OptPid(n)
  PROVE  ArgInv'
<1> DEFINE a == [opt |-> "pid", val |-> n]
<1>1. "pid" \in Options /\ n \in Value /\ ArgTypeOK /\ Next1("pid", n)
  BY ArgsAssumption DEF Options, OtherOptions, Value, ArgInv, OptPid
<1>2. a \in Arg /\ phase = "parse" /\ argv' = Append(argv, a)
  BY <1>1, Next1Type
<1>3. /\ UNCHANGED <<output, output_path, max_size, num, cells, flags, comms>>
      /\ phase' \in {"parse", "exited"} /\ pids' \in Seq(Int)
  <2>1. AddFilter(pids, PidOf(n)) \in Seq(Int)
    BY <1>1, PidOfType, AddFilterType DEF ArgTypeOK
  <2> QED
    BY <1>1, <1>2, <2>1 DEF OptPid, numVars, PidOf, ArgTypeOK
<1>4. ListsOK /\ ScalarsOK /\ FiltersOK
  BY <1>2 DEF ArgInv
<1>5. ArgTypeOK'
  BY <1>1, <1>3, ArgTypeStep DEF ArgTypeOK
<1>6. a.opt \in OtherOptions
  BY DEF OtherOptions
<1>7. ListsOK'
  BY <1>1, <1>2, <1>3, <1>4, <1>6, ListsKept
<1>8. phase' # "exited" => FiltersOK' /\ phase' = "parse"
  BY <1>1, <1>4, PidStep
<1>9. phase' = "parse" => ScalarsOK'
  BY <1>1, <1>2, <1>3, <1>4, ScalarsKept
<1> QED
  BY <1>5, <1>7, <1>8, <1>9, TakenInParse DEF ArgInv

LEMMA CommInv ==
  ASSUME ArgInv, NEW n \in CommLengths, OptComm(n)
  PROVE  ArgInv'
<1> DEFINE a == [opt |-> "comm", val |-> n]
<1>1. "comm" \in Options /\ n \in Value /\ ArgTypeOK /\ Next1("comm", n)
  BY ArgsAssumption DEF Options, OtherOptions, Value, ArgInv, OptComm
<1>2. a \in Arg /\ phase = "parse" /\ argv' = Append(argv, a) /\ Position \in Nat
  BY <1>1, Next1Type
<1>3. UNCHANGED <<phase, output, output_path, max_size, num, cells, flags, pids>>
  BY DEF OptComm, numVars
<1>4. ListsOK /\ ScalarsOK /\ FiltersOK
  BY <1>2 DEF ArgInv
<1>5. ArgTypeOK'
  <2>1. CutComm(n) \in Nat
    BY ArgsAssumption DEF CutComm
  <2>2. [text |-> Position, len |-> CutComm(n)] \in [text : Nat, len : Nat]
    BY <1>2, <2>1
  <2>3. comms' \in Seq([text : Nat, len : Nat])
    BY <1>1, <2>2, AddFilterType DEF OptComm, ArgTypeOK
  <2> QED
    BY <1>1, <1>2, <1>3, <2>3, ArgTypeStep DEF ArgTypeOK
<1>6. a.opt \in OtherOptions
  BY DEF OtherOptions
<1>7. ListsOK'
  BY <1>1, <1>2, <1>3, <1>4, <1>6, ListsKept
<1>8. ScalarsOK'
  BY <1>1, <1>2, <1>3, <1>4, ScalarsKept
<1>9. FiltersOK'
  BY <1>1, <1>4, CommStep
<1> QED
  BY <1>2, <1>3, <1>5, <1>7, <1>8, <1>9, TakenInParse DEF ArgInv

LEMMA ListInv ==
  ASSUME ArgInv, NEW l \in ListNames, OptList(l)
  PROVE  ArgInv'
<1> DEFINE a == [opt |-> l, val |-> 0]
<1>1. l \in Options /\ 0 \in Value /\ ArgTypeOK /\ Next1(l, 0)
  BY DEF Options, Value, ArgInv, OptList
<1>2. a \in Arg /\ phase = "parse" /\ argv' = Append(argv, a) /\ Position \in Nat
  BY <1>1, Next1Type
<1>3. UNCHANGED <<phase, output, output_path, max_size, pids, comms>>
  BY DEF OptList
<1>4. ListsOK /\ ScalarsOK /\ FiltersOK
  BY <1>2 DEF ArgInv
<1>5. ArgTypeOK'
  <2>1. num' \in [ListNames -> Nat] /\ cells' \in [0..FlagCell -> Int]
    <3>1. num \in [ListNames -> Nat] /\ cells \in [0..FlagCell -> Int] /\ Position \in Int
      BY <1>1, <1>2 DEF ArgTypeOK
    <3>2. cells' = [cells EXCEPT ![Slot(l)] = Position] /\ num' = [num EXCEPT ![l] = @ + 1]
      BY DEF OptList
    <3>3. num[l] + 1 \in Nat
      BY <3>1
    <3> QED
      BY <3>1, <3>2, <3>3
  <2> QED
    BY <1>1, <1>2, <1>3, <2>1, ArgTypeStep DEF ArgTypeOK
<1>6. a.opt \notin {"output", "output_path", "max_size", "pid", "comm"}
  BY NoOptionTwice DEF OtherOptions
<1>7. ListsOK'
  BY <1>1, <1>4, ListStep
<1>8. ScalarsOK'
  BY <1>1, <1>2, <1>3, <1>4, <1>6, ScalarsKept
<1>9. FiltersOK'
  BY <1>1, <1>2, <1>3, <1>4, <1>6, FiltersKept
<1> QED
  BY <1>2, <1>3, <1>5, <1>7, <1>8, <1>9, TakenInParse DEF ArgInv

LEMMA FlagsInv ==
  ASSUME ArgInv, NEW o \in FlagOptions, OptFlags(o)
  PROVE  ArgInv'
<1> DEFINE a == [opt |-> o, val |-> 0]
<1>1. o \in Options /\ 0 \in Value /\ ArgTypeOK /\ Next1(o, 0)
  BY DEF Options, Value, ArgInv, OptFlags
<1>2. a \in Arg /\ phase = "parse" /\ argv' = Append(argv, a)
  BY <1>1, Next1Type
<1>3. UNCHANGED <<phase, output, output_path, max_size, num, pids, comms>>
  BY DEF OptFlags
<1>4. ListsOK /\ ScalarsOK /\ FiltersOK
  BY <1>2 DEF ArgInv
<1>5. ArgTypeOK'
  <2>1. num' \in [ListNames -> Nat] /\ cells' \in [0..FlagCell -> Int]
    <3>1. num' \in [ListNames -> Nat] /\ cells \in [0..FlagCell -> Int] /\ Garbled \in Int
      BY <1>1, <1>3 DEF ArgTypeOK, Garbled
    <3>2. cells' = [cells EXCEPT ![FlagCell] = Garbled] \/ cells' = cells
      BY DEF OptFlags
    <3> QED
      BY <3>1, <3>2
  <2> QED
    BY <1>1, <1>2, <1>3, <2>1, ArgTypeStep DEF ArgTypeOK
<1>6. a.opt \notin {"output", "output_path", "max_size", "pid", "comm"}
  BY NoOptionTwice DEF OtherOptions
<1>7. ListsOK'
  BY <1>1, <1>4, FlagsStep
<1>8. ScalarsOK'
  BY <1>1, <1>2, <1>3, <1>4, <1>6, ScalarsKept
<1>9. FiltersOK'
  BY <1>1, <1>2, <1>3, <1>4, <1>6, FiltersKept
<1> QED
  BY <1>2, <1>3, <1>5, <1>7, <1>8, <1>9, TakenInParse DEF ArgInv

\* main() parses no more: what was given stays what it is.
LEMMA ArgvKept ==
  ASSUME argv' = argv
  PROVE  /\ \A o : Positions(o)' = Positions(o) /\ Values(o)' = Values(o)
         /\ Holds' <=> Holds
         /\ FlagsAsked' = FlagsAsked /\ CommsGiven' = CommsGiven
<1>1. \A o : Given(o)' = Given(o)
  BY DEF Given
<1>2. \A o : Positions(o)' = Positions(o)
  BY <1>1 DEF Positions
<1>3. \A o : Values(o)' = Values(o)
  BY <1>2 DEF Values
<1> QED
  BY <1>2, <1>3 DEF Holds, FlagsAsked, CommsGiven

LEMMA MainInv ==
  ASSUME ArgInv, SetAutoload \/ StartTrace
  PROVE  ArgInv'
<1>1. /\ UNCHANGED <<argv, backend, output, max_size, num, cells, flags, pids, comms>>
      /\ phase \in {"parse", "opened"} /\ phase' \in {"opened", "started"}
      /\ phase' = "opened" <=> SetAutoload
  BY DEF SetAutoload, StartTrace, numVars
<1>2. ArgTypeOK /\ ListsOK /\ ScalarsOK /\ FiltersOK /\ TakenOK
  BY <1>1 DEF ArgInv
<1>3. ArgTypeOK'
  BY <1>1, <1>2, ArgvKept DEF ArgTypeOK
<1>4. ListsOK'
  BY <1>1, <1>2, ArgvKept DEF ListsOK
<1>5. ScalarsOK'
  <2>1. CASE SetAutoload
    BY <1>1, <1>2, <2>1, ArgvKept DEF ScalarsOK, SetAutoload
  <2>2. CASE StartTrace
    <3>1. Positions("output_path") \in Seq(Nat)
      BY <1>2, GivenType DEF Options, OtherOptions
    <3>2. output_path = LastOf(Positions("output_path"), NULL)
      BY <1>2, <2>2 DEF ScalarsOK, StartTrace
    <3>3. output_path' = LastOf(Positions("output_path"), DefaultPath)
      <4>1. CASE Positions("output_path") = <<>>
        BY <2>2, <3>2, <4>1 DEF LastOf, StartTrace
      <4>2. CASE Positions("output_path") # <<>>
        <5>1. Last(Positions("output_path")) # NULL
          <6> DEFINE P == Positions("output_path")
          <6>1. P \in Seq(1..Len(argv))
            BY <1>2 DEF ArgTypeOK, Options, OtherOptions
          <6>2. Len(P) \in 1..Len(P)
            BY <4>2, <6>1, EmptySeq, LenProperties
          <6>3. P[Len(P)] \in 1..Len(argv)
            BY <6>1, <6>2, ElementOfSeq
          <6> QED
            BY <6>3 DEF Last, NULL
        <5> QED
          BY <2>2, <3>2, <4>2, <5>1 DEF LastOf, StartTrace
      <4> QED
        BY <4>1, <4>2
    <3>4. phase' = "started"
      BY <2>2 DEF StartTrace
    <3> QED
      BY <1>1, <1>2, <3>3, <3>4, ArgvKept DEF ScalarsOK
  <2> QED
    BY <2>1, <2>2
<1>6. FiltersOK'
  BY <1>1, <1>2, ArgvKept DEF FiltersOK
<1>7. TakenOK'
  <2>1. CASE SetAutoload
    BY <1>1, <2>1 DEF TakenOK, SetAutoload, ProgramsWanted
  <2>2. CASE StartTrace
    <3>1. loaded = ProgramsWanted
      BY <1>2, <2>2 DEF TakenOK, StartTrace
    <3>2. loaded' = ProgramsWanted'
      BY <1>1, <2>2, <3>1 DEF StartTrace, ProgramsWanted
    <3>3. \A l \in ListNames : Entries(l)' = Entries(l)
      BY <1>1 DEF Entries
    <3>4. Functions' = Functions
      BY <1>1 DEF Functions
    <3> QED
      BY <1>1, <2>2, <3>2, <3>3, <3>4, ListNamesAre DEF TakenOK, StartTrace
  <2> QED
    BY <2>1, <2>2
<1> QED
  BY <1>1, <1>3, <1>4, <1>5, <1>6, <1>7 DEF ArgInv

LEMMA NoneInv ==
  ASSUME ArgInv, OptNone
  PROVE  ArgInv'
<1>1. "none" \in Options /\ 0 \in Value /\ ArgTypeOK /\ Next1("none", 0)
  BY DEF Options, OtherOptions, Value, ArgInv, OptNone
<1>2. phase' = "exited" /\ UNCHANGED <<num, cells, pids, comms>>
  BY DEF OptNone, numVars
<1>3. ArgTypeOK'
  BY <1>1, <1>2, ArgTypeStep DEF ArgTypeOK
<1> QED
  BY <1>2, <1>3 DEF ArgInv

LEMMA ArgInvStutter ==
  ASSUME ArgInv, UNCHANGED vars
  PROVE  ArgInv'
<1>1. UNCHANGED <<phase, argv, backend, output, output_path, max_size, num, cells, flags,
                  pids, comms, loaded, config>>
  BY DEF vars, numVars
<1>2. ArgTypeOK'
  BY <1>1, ArgvKept DEF ArgInv, ArgTypeOK
<1>3. ASSUME phase # "exited" PROVE ListsOK' /\ ScalarsOK' /\ FiltersOK' /\ TakenOK'
  <2>1. ListsOK /\ ScalarsOK /\ FiltersOK /\ TakenOK
    BY <1>3 DEF ArgInv
  <2>2. ListsOK'
    BY <1>1, <2>1, ArgvKept DEF ListsOK
  <2>3. ScalarsOK'
    BY <1>1, <2>1, ArgvKept DEF ScalarsOK
  <2>4. FiltersOK'
    BY <1>1, <2>1, ArgvKept DEF FiltersOK
  <2>5. TakenOK'
    BY <1>1, <2>1 DEF TakenOK, ProgramsWanted, Entries, Functions
  <2> QED
    BY <2>2, <2>3, <2>4, <2>5
<1> QED
  BY <1>1, <1>2, <1>3 DEF ArgInv

LEMMA ArgInvInductive == ArgInv /\ [Next]_vars => ArgInv'
<1> SUFFICES ASSUME ArgInv, [Next]_vars PROVE ArgInv'
  OBVIOUS
<1>1. CASE \E o \in {"system", "app"} : OptBackend(o)
  BY <1>1, BackendInv
<1>2. CASE OptOutput
  BY <1>2, OutputInv
<1>3. CASE OptOutputPath
  BY <1>3, OutputPathInv
<1>4. CASE \E n \in Numbers : OptMaxSize(n)
  BY <1>4, MaxSizeInv
<1>5. CASE \E n \in Numbers : OptPid(n)
  BY <1>5, PidInv
<1>6. CASE \E l \in ListNames : OptList(l)
  BY <1>6, ListInv
<1>7. CASE \E o \in FlagOptions : OptFlags(o)
  BY <1>7, FlagsInv
<1>8. CASE \E len \in CommLengths : OptComm(len)
  BY <1>8, CommInv
<1>9. CASE OptNone
  BY <1>9, NoneInv
<1>10. CASE SetAutoload \/ StartTrace
  BY <1>10, MainInv
<1>11. CASE UNCHANGED vars
  BY <1>11, ArgInvStutter
<1> QED
  BY <1>1, <1>2, <1>3, <1>4, <1>5, <1>6, <1>7, <1>8, <1>9, <1>10, <1>11 DEF Next

\* On every reachable state the members of sa_opts are what the options make
\* of them: parse_arg(), main() and start_perfetto_trace().
THEOREM ArgsTaken == Spec => []ArgInv
<1>1. Init => ArgInv
  BY ArgInvInit
<1>2. ArgInv /\ [Next]_vars => ArgInv'
  BY ArgInvInductive
<1> QED
  BY <1>1, <1>2, PTL DEF Spec

-----------------------------------------------------------------------------
(* The properties.                                                         *)

\* A flag a program waits for is set by the options whose help text asks for
\* what the program reports, and by no other.
LEMMA OptionsOfPrograms ==
  ASSUME NEW p \in Programs, NEW o \in FlagOptions
  PROVE  /\ Sets[o] \cap Wants[p] # {} <=> o \in AsksFor[p]
         /\ AsksFor[p] \subseteq FlagOptions
<1>1. p \in {"pelt_cfs", "pelt_se", "pelt_rt", "pelt_dl", "pelt_irq", "pelt_thermal", "util_est_cfs", "util_est_se", "nr_running", "cpu_idle", "balance", "ipi_send_cpu", "process_free"}
  BY DEF Programs, Wants
<1>2. CASE p = "pelt_cfs"
  <2>1. Wants[p] = {"load_avg_cpu", "runnable_avg_cpu", "util_avg_cpu"}
    BY <1>2 DEF Wants, PeltTask
  <2> QED
    BY <1>2, <2>1 DEF AsksFor, FlagOptions, Sets
<1>3. CASE p = "pelt_se"
  <2>1. Wants[p] = {"load_avg_task", "runnable_avg_task", "util_avg_task"}
    BY <1>3 DEF Wants, PeltTask
  <2> QED
    BY <1>3, <2>1 DEF AsksFor, FlagOptions, Sets
<1>4. CASE p = "pelt_rt"
  <2>1. Wants[p] = {"util_avg_rt"}
    BY <1>4 DEF Wants, PeltTask
  <2> QED
    BY <1>4, <2>1 DEF AsksFor, FlagOptions, Sets
<1>5. CASE p = "pelt_dl"
  <2>1. Wants[p] = {"util_avg_dl"}
    BY <1>5 DEF Wants, PeltTask
  <2> QED
    BY <1>5, <2>1 DEF AsksFor, FlagOptions, Sets
<1>6. CASE p = "pelt_irq"
  <2>1. Wants[p] = {"util_avg_irq"}
    BY <1>6 DEF Wants, PeltTask
  <2> QED
    BY <1>6, <2>1 DEF AsksFor, FlagOptions, Sets
<1>7. CASE p = "pelt_thermal"
  <2>1. Wants[p] = {"load_avg_thermal"}
    BY <1>7 DEF Wants, PeltTask
  <2> QED
    BY <1>7, <2>1 DEF AsksFor, FlagOptions, Sets
<1>8. CASE p = "util_est_cfs"
  <2>1. Wants[p] = {"util_est_cpu"}
    BY <1>8 DEF Wants, PeltTask
  <2> QED
    BY <1>8, <2>1 DEF AsksFor, FlagOptions, Sets
<1>9. CASE p = "util_est_se"
  <2>1. Wants[p] = {"util_est_task"}
    BY <1>9 DEF Wants, PeltTask
  <2> QED
    BY <1>9, <2>1 DEF AsksFor, FlagOptions, Sets
<1>10. CASE p = "nr_running"
  <2>1. Wants[p] = {"cpu_nr_running"}
    BY <1>10 DEF Wants, PeltTask
  <2> QED
    BY <1>10, <2>1 DEF AsksFor, FlagOptions, Sets
<1>11. CASE p = "cpu_idle"
  <2>1. Wants[p] = {"cpu_idle"}
    BY <1>11 DEF Wants, PeltTask
  <2> QED
    BY <1>11, <2>1 DEF AsksFor, FlagOptions, Sets
<1>12. CASE p = "balance"
  <2>1. Wants[p] = {"load_balance"}
    BY <1>12 DEF Wants, PeltTask
  <2> QED
    BY <1>12, <2>1 DEF AsksFor, FlagOptions, Sets
<1>13. CASE p = "ipi_send_cpu"
  <2>1. Wants[p] = {"ipi"}
    BY <1>13 DEF Wants, PeltTask
  <2> QED
    BY <1>13, <2>1 DEF AsksFor, FlagOptions, Sets
<1>14. CASE p = "process_free"
  <2>1. Wants[p] = {"load_avg_task", "runnable_avg_task", "util_avg_task", "util_est_task"}
    BY <1>14 DEF Wants, PeltTask
  <2> QED
    BY <1>14, <2>1 DEF AsksFor, FlagOptions, Sets
<1> QED
  BY <1>1, <1>2, <1>3, <1>4, <1>5, <1>6, <1>7, <1>8, <1>9, <1>10, <1>11, <1>12, <1>13, <1>14

\* Whatever is asked for and nothing else is loaded.
LEMMA ProgramsFromInv == ArgInv => ProgramsAsAsked
<1> SUFFICES ASSUME ArgInv, phase = "opened", Holds
             PROVE  loaded = {p \in Programs : AnyGiven(AsksFor[p])}
  BY DEF ProgramsAsAsked
<1>1. loaded = {p \in Programs : FlagsAsked \cap Wants[p] # {}}
  BY DEF ArgInv, ListsOK, TakenOK, ProgramsWanted
<1>2. ASSUME NEW p \in Programs
      PROVE  FlagsAsked \cap Wants[p] # {} <=> AnyGiven(AsksFor[p])
  <2>1. FlagsAsked \cap Wants[p] # {} <=>
          \E k \in 1..Len(argv) : argv[k].opt \in FlagOptions /\ Sets[argv[k].opt] \cap Wants[p] # {}
    BY DEF FlagsAsked
  <2>2. FlagsAsked \cap Wants[p] # {} <=>
          \E k \in 1..Len(argv) : argv[k].opt \in FlagOptions /\ argv[k].opt \in AsksFor[p]
    BY <2>1, OptionsOfPrograms
  <2>3. AsksFor[p] \subseteq FlagOptions
    <3>1. "ipi" \in FlagOptions
      BY DEF FlagOptions, Sets
    <3> QED
      BY <3>1, OptionsOfPrograms
  <2> QED
    BY <2>2, <2>3 DEF AnyGiven
<1> QED
  BY <1>1, <1>2

LEMMA WrappedInRange ==
  ASSUME NEW span \in Nat \ {0}, NEW v \in (-(span \div 2))..(span - span \div 2 - 1)
  PROVE  Wrapped(v, span) = v
<1>1. span \div 2 \in Int /\ v + span \div 2 \in 0..(span - 1)
  OBVIOUS
<1>2. (v + span \div 2) % span = v + span \div 2
  <2> DEFINE w == v + span \div 2
  <2>1. w \in Int /\ 0 <= w /\ w < span
    BY <1>1
  <2> HIDE DEF w
  <2>2. w % span = w
    BY <2>1
  <2> QED
    BY <2>2 DEF w
<1> QED
  BY <1>1, <1>2 DEF Wrapped

\* Neither the text nor the product is cut.
LEMMA BytesExact ==
  ASSUME NEW n \in Value, ~BadNumber(n), n * MIB \in LONG_MIN..LONG_MAX
  PROVE  Bytes(n) = n * MIB
<1>1. n \in Int /\ n \in LONG_MIN..LONG_MAX
  BY DEF BadNumber, Value
<1>2. LONG_MIN \in Int /\ LONG_MAX \in Int /\ LONG_SPAN \in Nat \ {0}
  BY ArgsAssumption DEF LONG_MIN, LONG_MAX
<1>3. strtol(n) = n
  BY <1>1, <1>2, ArgsAssumption DEF strtol
<1> DEFINE v == n * MIB
<1> HIDE DEF v
<1>4. v \in (-(LONG_SPAN \div 2))..(LONG_SPAN - LONG_SPAN \div 2 - 1)
  <2>1. v \in (-(LONG_SPAN \div 2))..(LONG_SPAN \div 2 - 1)
    BY DEF v, LONG_MIN, LONG_MAX
  <2> QED
    BY <1>2, <2>1
<1>5. Wrapped(v, LONG_SPAN) = v
  BY <1>2, <1>4, WrappedInRange
<1> QED
  BY <1>3, <1>5 DEF Bytes, v

LEMMA PidExact ==
  ASSUME NEW n \in Value, ~BadNumber(n), n \in IntRange
  PROVE  PidOf(n) = n
<1>1. n \in Int /\ n \in LONG_MIN..LONG_MAX
  BY DEF BadNumber, Value
<1>2. LONG_MIN \in Int /\ LONG_MAX \in Int /\ INT_SPAN \in Nat \ {0}
  BY ArgsAssumption DEF LONG_MIN, LONG_MAX
<1>3. strtol(n) = n
  BY <1>1, <1>2, ArgsAssumption DEF strtol
<1>4. n \in (-(INT_SPAN \div 2))..(INT_SPAN - INT_SPAN \div 2 - 1)
  BY <1>1, <1>2 DEF IntRange
<1> QED
  BY <1>2, <1>3, <1>4, WrappedInRange DEF PidOf

LEMMA FiltersFromInv == ArgInv => FiltersAsAsked
<1> DEFINE V == Values("pid")
           W == [k \in 1..Len(V) |-> PidOf(V[k])]
<1> SUFFICES ASSUME ArgInv, phase = "started", \A k \in 1..Len(FirstN(V)) : V[k] \in IntRange
             PROVE  pids = FirstN(V) /\ comms = FirstN(CommsGiven)
  BY DEF FiltersAsAsked, CommsGiven
<1>1. /\ pids = FirstN(W) /\ comms = FirstN(CommsGiven)
      /\ \A k \in 1..Len(FirstN(V)) : ~BadNumber(V[k])
  BY DEF ArgInv, FiltersOK
<1>2. V \in Seq(Value) /\ Len(V) \in Nat
  <2>1. "pid" \in Options /\ ArgTypeOK
    BY DEF Options, OtherOptions, ArgInv
  <2> QED
    BY <2>1, GivenType
<1> HIDE DEF V
<1>3. W \in Seq(Int) /\ Len(W) = Len(V)
  <2>1. \A k \in 1..Len(V) : PidOf(V[k]) \in Int
    BY <1>2, ElementOfSeq, PidOfType
  <2>2. W \in [1..Len(V) -> Int]
    BY <2>1
  <2> QED
    BY <1>2, <2>2, SeqOfFcn
<1>4. \A k \in 1..Len(V) : W[k] = PidOf(V[k])
  OBVIOUS
<1> HIDE DEF W
<1>5. /\ FirstN(V) \in Seq(Value)
      /\ Len(FirstN(V)) = IF Len(V) > MAX_FILTERS_NUM THEN MAX_FILTERS_NUM ELSE Len(V)
      /\ \A k \in 1..Len(FirstN(V)) : FirstN(V)[k] = V[k]
  BY <1>2, FirstNProperties
<1>6. /\ FirstN(W) \in Seq(Int)
      /\ Len(FirstN(W)) = Len(FirstN(V))
      /\ \A k \in 1..Len(FirstN(W)) : FirstN(W)[k] = W[k]
  BY <1>3, <1>5, FirstNProperties
<1>7. \A k \in 1..Len(FirstN(V)) : FirstN(W)[k] = FirstN(V)[k]
  <2> TAKE k \in 1..Len(FirstN(V))
  <2>1. k \in 1..Len(V)
    BY <1>2, <1>5, ArgsAssumption
  <2>2. V[k] \in Value /\ ~BadNumber(V[k]) /\ V[k] \in IntRange
    BY <1>1, <1>2, <2>1, ElementOfSeq
  <2>3. PidOf(V[k]) = V[k]
    BY <2>2, PidExact
  <2> QED
    BY <1>4, <1>5, <1>6, <2>1, <2>3
<1>8. FirstN(W) = FirstN(V)
  BY <1>5, <1>6, <1>7, SeqEqual
<1> QED
  BY <1>1, <1>8

LEMMA EntriesArePositions ==
  ASSUME ArgInv, phase # "exited", Holds, NEW l \in ListNames
  PROVE  Entries(l) = Positions(l)
<1>1. num[l] = Len(Positions(l)) /\ \A k \in 1..num[l] : cells[Base(l) + k - 1] = Positions(l)[k]
  BY DEF ArgInv, ListsOK
<1>2. Positions(l) \in Seq(Nat)
  BY GivenType DEF ArgInv, Options
<1>3. Positions(l) = [k \in 1..num[l] |-> Positions(l)[k]]
  BY <1>1, <1>2, LenProperties
<1>4. Entries(l) = [k \in 1..num[l] |-> cells[Base(l) + k - 1]]
  BY DEF Entries
<1> QED
  BY <1>1, <1>3, <1>4, Zenon

\* An option was given when it has a position.
LEMMA GivenHasPosition ==
  ASSUME ArgTypeOK, NEW o \in Options
  PROVE  AnyGiven({o}) <=> Len(Positions(o)) > 0
<1>1. IsFiniteSet(Given(o)) /\ Cardinality(Given(o)) \in Nat
  <2>1. Len(argv) \in Nat /\ Given(o) \subseteq 1..Len(argv)
    BY LenProperties DEF ArgTypeOK, Given
  <2>2. IsFiniteSet(1..Len(argv))
    BY <2>1, FS_Interval
  <2> QED
    BY <2>1, <2>2, FS_Subset, FS_CardinalityType
<1>2. Len(Positions(o)) = Cardinality(Given(o))
  <2>1. DOMAIN Positions(o) = 1..Cardinality(Given(o))
    BY DEF Positions, Ordered
  <2>2. Positions(o) \in Seq(Nat)
    BY GivenType
  <2> QED
    BY <1>1, <2>1, <2>2, LenProperties
<1>3. Cardinality(Given(o)) = 0 <=> Given(o) = {}
  BY <1>1, FS_EmptySet
<1>4. Given(o) # {} <=> AnyGiven({o})
  BY DEF Given, AnyGiven
<1> QED
  BY <1>1, <1>2, <1>3, <1>4

LEMMA ConfigFromInv == ArgInv => ConfigAsAsked
<1> SUFFICES ASSUME ArgInv, phase = "started", Holds
             PROVE  /\ config.events = Positions("ftrace_event")
                    /\ config.cats = (IF AnyGiven({"irq"}) THEN <<IrqCategory>> ELSE <<>>)
                                      \o Positions("atrace_cat")
                    /\ config.roots = Positions("function_graph")
                    /\ config.filters = Positions("function_filter")
                    /\ config.graph <=> AnyGiven({"function_graph", "function_filter"})
                    /\ output = LastOf(Positions("output"), NULL)
                    /\ output_path = LastOf(Positions("output_path"), DefaultPath)
                    /\ LET size == LastOf(Values("max_size"), 0) * MIB
                       IN  size \in LONG_MIN..LONG_MAX => max_size = size
  BY DEF ConfigAsAsked
<1>1. ArgTypeOK /\ ListsOK /\ ScalarsOK /\ TakenOK
  BY DEF ArgInv
<1>2. /\ "ftrace_event" \in ListNames /\ "atrace_cat" \in ListNames
      /\ "function_graph" \in ListNames /\ "function_filter" \in ListNames
  BY ListNamesAre
<1>3. /\ Entries("ftrace_event") = Positions("ftrace_event")
      /\ Entries("atrace_cat") = Positions("atrace_cat")
      /\ Entries("function_graph") = Positions("function_graph")
      /\ Entries("function_filter") = Positions("function_filter")
  BY <1>2, EntriesArePositions
<1>4. config = [events  |-> Entries("ftrace_event"),
                cats    |-> IF "irq" \in flags THEN <<IrqCategory>> \o Entries("atrace_cat")
                                               ELSE Entries("atrace_cat"),
                graph   |-> Functions,
                roots   |-> Entries("function_graph"),
                filters |-> Entries("function_filter")]
  BY <1>1 DEF TakenOK
<1>5. "irq" \in flags <=> AnyGiven({"irq"})
  <2>1. flags = FlagsAsked
    BY <1>1 DEF ListsOK
  <2>2. \A o \in FlagOptions : "irq" \in Sets[o] <=> o = "irq"
    BY DEF FlagOptions, Sets
  <2>3. "irq" \in FlagOptions
    BY DEF FlagOptions, Sets
  <2>4. "irq" \in FlagsAsked <=> \E k \in 1..Len(argv) : argv[k].opt \in FlagOptions /\ "irq" \in Sets[argv[k].opt]
    BY DEF FlagsAsked
  <2>5. "irq" \in FlagsAsked <=> \E k \in 1..Len(argv) : argv[k].opt = "irq"
    BY <2>2, <2>3, <2>4
  <2> QED
    BY <2>1, <2>5 DEF AnyGiven
<1>6. config.cats = (IF AnyGiven({"irq"}) THEN <<IrqCategory>> ELSE <<>>) \o Positions("atrace_cat")
  <2>1. Positions("atrace_cat") \in Seq(Nat)
    BY <1>1, <1>2, GivenType DEF Options
  <2>2. <<>> \o Positions("atrace_cat") = Positions("atrace_cat")
    BY <2>1, ConcatEmptySeq
  <2>3. config.cats = IF "irq" \in flags THEN <<IrqCategory>> \o Entries("atrace_cat") ELSE Entries("atrace_cat")
    BY <1>4
  <2> QED
    BY <1>3, <1>5, <2>2, <2>3
<1>7. config.graph <=> AnyGiven({"function_graph", "function_filter"})
  <2>1. config.graph = (num["function_graph"] > 0 \/ num["function_filter"] > 0)
    BY <1>4 DEF Functions
  <2>2. /\ num["function_graph"] = Len(Positions("function_graph"))
        /\ num["function_filter"] = Len(Positions("function_filter"))
    BY <1>1, <1>2 DEF ListsOK
  <2>3. /\ AnyGiven({"function_graph"}) <=> Len(Positions("function_graph")) > 0
        /\ AnyGiven({"function_filter"}) <=> Len(Positions("function_filter")) > 0
    BY <1>1, <1>2, GivenHasPosition DEF Options
  <2>4. AnyGiven({"function_graph", "function_filter"}) <=>
          AnyGiven({"function_graph"}) \/ AnyGiven({"function_filter"})
    BY DEF AnyGiven
  <2> QED
    BY <2>1, <2>2, <2>3, <2>4
<1>8. /\ output = LastOf(Positions("output"), NULL)
      /\ output_path = LastOf(Positions("output_path"), DefaultPath)
  BY <1>1 DEF ScalarsOK
<1>9. ASSUME LastOf(Values("max_size"), 0) * MIB \in LONG_MIN..LONG_MAX
      PROVE  max_size = LastOf(Values("max_size"), 0) * MIB
  <2> DEFINE V == Values("max_size")
  <2>1. V \in Seq(Value) /\ Len(V) \in Nat
    BY <1>1, GivenType DEF Options, OtherOptions
  <2>2. CASE V = <<>>
    <3>1. max_size = NULL /\ LastOf(V, 0) = 0
      BY <1>1, <2>2 DEF ScalarsOK, LastOf
    <3> QED
      BY <3>1, ArgsAssumption DEF NULL
  <2>3. CASE V # <<>>
    <3>1. ~BadNumber(Last(V)) /\ max_size = Bytes(Last(V))
      BY <1>1, <2>3 DEF ScalarsOK
    <3>2. LastOf(V, 0) = Last(V)
      BY <2>3 DEF LastOf
    <3>3. Last(V) \in Value
      <4>1. Len(V) \in 1..Len(V)
        BY <2>1, <2>3, EmptySeq
      <4> QED
        BY <2>1, <4>1, ElementOfSeq DEF Last
    <3> QED
      BY <1>9, <3>1, <3>2, <3>3, BytesExact
  <2> QED
    BY <2>2, <2>3
<1> QED
  BY <1>3, <1>4, <1>6, <1>7, <1>8, <1>9

\* SetAutoload in main(): the programs loaded are those that were asked for.
THEOREM ProgramsLoadedAsAsked == Spec => []ProgramsAsAsked
BY ArgsTaken, ProgramsFromInv, PTL

\* parse_arg() for --pid and --comm: the filters are the first ones given, as
\* long as no list overflows.
THEOREM FiltersTakenAsAsked == Spec => []FiltersAsAsked
BY ArgsTaken, FiltersFromInv, PTL

\* start_perfetto_trace(): the trace is configured with what was asked for.
THEOREM TraceConfiguredAsAsked == Spec => []ConfigAsAsked
BY ArgsTaken, ConfigFromInv, PTL
=============================================================================
