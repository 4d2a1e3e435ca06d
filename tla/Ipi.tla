-------------------------------- MODULE Ipi --------------------------------
(***************************************************************************)
(* IPI tracing: the program on ipi_send_cpu, ipi_rb, and the handler that  *)
(* looks up two addresses of each record, one after the other, before it   *)
(* puts a slice on the track of the sending CPU.  Composes Kallsyms: the   *)
(* handler's calls of find_kallsyms() are searches of that module, and     *)
(* CPUs go on sending while a search runs.                                 *)
(***************************************************************************)
EXTENDS Kallsyms

CONSTANTS
  Cpus,
  Sends,     \* callsite and callback of the IPIs that are sent
  RB_SIZE,   \* capacity of ipi_rb, in records
  MaxSent    \* bound: IPIs sent

ASSUME IpiAssumption ==
  /\ Sends \subseteq Addresses \X Addresses
  /\ RB_SIZE \in Nat \ {0}
  /\ MaxSent \in Nat

VARIABLES
  ring,    \* the records in ipi_rb
  stage,   \* how far handle_ipi_event() is: none, callsite or callback
  site,    \* what the first lookup returned
  slices,  \* slices[c]: the slices on the track of CPU c
  sent,    \* sent[c]: the IPIs CPU c sent and the ring took, in order
  nsent    \* IPIs sent so far

ipiVars == <<ring, stage, site, slices, sent, nsent>>

NULL == -1          \* no symbol

IpiInit ==
  /\ Init
  /\ ring = <<>>
  /\ stage = "none"
  /\ site = NULL
  /\ slices = [c \in Cpus |-> <<>>]
  /\ sent = [c \in Cpus |-> <<>>]
  /\ nsent = 0

-----------------------------------------------------------------------------
(* Mutated forms: plausible slips in this code.                            *)

\* The answer of the first lookup is used for both.
ArgOfFirst(k, label, tag, addr) ==
  IF site # NULL THEN [label |-> symbols[site].name, val |-> tag] ELSE [label |-> label, val |-> addr]

\* The handler returns after the first lookup when it finds no name.
TakeCallsiteGivesUp ==
  /\ stage = "callsite"
  /\ phase \in {"found", "null"}
  /\ phase' = "idle"
  /\ site' = IF phase = "found" THEN result ELSE NULL
  /\ stage' = IF phase = "found" THEN "callback" ELSE "none"
  /\ ring' = IF phase = "found" THEN ring ELSE Tail(ring)
  /\ UNCHANGED <<tableVars, findVars, slices, sent, nsent>>

-----------------------------------------------------------------------------
IpiRecord(c, target, callsite, callback) ==
  [from |-> c, target |-> target, callsite |-> callsite, callback |-> callback]

Room == Len(ring) < RB_SIZE

\* handle_ipi_send_cpu() on CPU c.  main() attaches it once the symbols are
\* parsed.
IpiSendCpu(c, target, callsite, callback) ==
  /\ phase \notin {"kptr", "open", "read", "sort"}
  /\ nsent < MaxSent
  /\ nsent' = nsent + 1
  /\ LET e == IpiRecord(c, target, callsite, callback) IN
       IF Room
       THEN /\ ring' = Append(ring, e)
            /\ sent' = [sent EXCEPT ![c] = Append(@, e)]
       ELSE UNCHANGED <<ring, sent>>
  /\ UNCHANGED <<vars, stage, site, slices>>

\* handle_ipi_event(): find_kallsyms(e->callsite) ...  (C leaves the order of
\* the two calls open; neither depends on the other.)
LookUpCallsite ==
  /\ stage = "none"
  /\ ring # <<>>
  /\ Find(Head(ring).callsite)
  /\ stage' = "callsite"
  /\ UNCHANGED <<ring, site, slices, sent, nsent>>

Answer == IF phase = "found" THEN result ELSE NULL

TakeCallsite ==
  /\ stage = "callsite"
  /\ Return
  /\ site' = Answer
  /\ stage' = "callback"
  /\ UNCHANGED <<ring, slices, sent, nsent>>

\* ... find_kallsyms(e->callback) ...
LookUpCallback ==
  /\ stage = "callback"
  /\ Find(Head(ring).callback)
  /\ UNCHANGED ipiVars

\* trace_ipi_send_cpu(): an address with a name shows the name and a tag, one
\* without shows itself under a fixed label.
Arg(k, label, tag, addr) ==
  IF k # NULL THEN [label |-> symbols[k].name, val |-> tag] ELSE [label |-> label, val |-> addr]

\* ... and the slice.
TraceIpi ==
  /\ stage = "callback"
  /\ Return
  /\ LET e == Head(ring) IN
       slices' = [slices EXCEPT ![e.from] = Append(@,
         [target |-> e.target, callsite |-> Arg(site, "CALLSITE", 1, e.callsite),
          callback |-> Arg(Answer, "CALLBACK", 2, e.callback)])]
  /\ ring' = Tail(ring)
  /\ stage' = "none"
  /\ UNCHANGED <<site, sent, nsent>>

IpiNext ==
  \/ (Parse \/ FindStep) /\ UNCHANGED ipiVars
  \/ \E c, target \in Cpus, s \in Sends : IpiSendCpu(c, target, s[1], s[2])
  \/ LookUpCallsite \/ TakeCallsite \/ LookUpCallback \/ TraceIpi

IpiSpec == IpiInit /\ [][IpiNext]_<<vars, ipiVars>>
HandlerFair == WF_<<vars, ipiVars>>(FindStep /\ UNCHANGED ipiVars)
               /\ WF_<<vars, ipiVars>>(LookUpCallsite \/ TakeCallsite \/ LookUpCallback \/ TraceIpi)
               /\ WF_<<vars, ipiVars>>(Parse /\ UNCHANGED ipiVars)
IpiFairSpec == IpiSpec /\ HandlerFair

-----------------------------------------------------------------------------
(* Properties.                                                             *)

\* What may stand for an address: a symbol at it or the last one before it;
\* the address itself when there is no table, when it lies outside of it, or
\* where the search can go the wrong way.
Stands(arg, label, tag, addr) ==
  \/ /\ arg.val = tag
     /\ \E k \in Index :
          /\ symbols[k].name = arg.label
          /\ symbols[k].addr <= addr
          /\ \A x \in TableAddrs : x < addr => x <= symbols[k].addr
  \/ /\ arg.label = label /\ arg.val = addr
     /\ ~ready \/ addr = 0 \/ Outside(addr) \/ ~Ascending

\* The slices on the track of a CPU are the IPIs that CPU sent, in order and
\* none twice, each with its own target, although the ring takes more
\* records of other CPUs while one is looked up.  And each with its own
\* callsite and callback, although the two lookups share one search: for a
\* table that cmp() sorts, rotated or not.
SlicesOfSender ==
  \A c \in Cpus : \A k \in 1..Len(slices[c]) :
    LET s == slices[c][k]
        e == sent[c][k]
    IN  /\ k <= Len(sent[c])
        /\ s.target = e.target
        /\ (ready => Orderly) =>
             /\ Stands(s.callsite, "CALLSITE", 1, e.callsite)
             /\ Stands(s.callback, "CALLBACK", 2, e.callback)

\* Every IPI the ring took is shown in the end.
AllShown == \A c \in Cpus : \A k \in 1..MaxSent :
              Len(sent[c]) >= k ~> Len(slices[c]) >= k
=============================================================================
