------------------------------ MODULE BrokerMirror ------------------------------
(***************************************************************************)
(* What the execution sandbox promises about broker events (docs/adr/0003):*)
(* however often and in whatever order they are delivered, an account      *)
(* holds exactly the fills of a prefix of each order's event log.          *)
(***************************************************************************)
EXTENDS Integers, Sequences, SequencesExt, FiniteSetsExt

CONSTANT Orders

VARIABLES side,       \* per order: +1 buys, -1 sells, 0 not placed yet
          sent,       \* per order: the events the broker has recorded
          mirrored,   \* per order: how many of them the account reflects
          holding     \* shares held, in lots

mirrorVars == <<side, sent, mirrored, holding>>

Final(e)      == e.kind \in {"CANCELLED", "REJECTED"}
Filled(log)   == FoldSeq(LAMBDA e, sum : e.lots + sum, 0, log)
Net(s, n)     == MapThenSumSet(LAMBDA o : s[o] * Filled(SubSeq(sent[o], 1, n[o])), Orders)

Start ==
    /\ side = [o \in Orders |-> 0]
    /\ sent = [o \in Orders |-> <<>>]
    /\ mirrored = [o \in Orders |-> 0]
    /\ holding = 0

\* An order is placed; its side never changes.
Place(o) ==
    /\ side[o] = 0
    /\ side' \in {[side EXCEPT ![o] = 1], [side EXCEPT ![o] = -1]}
    /\ UNCHANGED <<sent, mirrored, holding>>

\* The broker adds an event to the log of an order it has not closed.
Record(o) ==
    /\ side[o] # 0
    /\ sent[o] # <<>> => ~Final(Last(sent[o]))
    /\ sent'[o] # <<>> /\ Front(sent'[o]) = sent[o]
    /\ \A p \in Orders \ {o} : sent'[p] = sent[p]
    /\ UNCHANGED <<side, mirrored, holding>>

\* The account takes in everything the broker has recorded for an order.
Reflect(o) ==
    /\ mirrored[o] < Len(sent[o])
    /\ mirrored' = [mirrored EXCEPT ![o] = Len(sent[o])]
    /\ holding' = Net(side, mirrored')
    /\ UNCHANGED <<side, sent>>

Change == \E o \in Orders : Place(o) \/ Record(o) \/ Reflect(o)

Mirroring == Start /\ [][Change]_mirrorVars
=============================================================================
