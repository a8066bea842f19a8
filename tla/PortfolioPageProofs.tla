-------------------------- MODULE PortfolioPageProofs --------------------------
(***************************************************************************)
(* Proofs about PortfolioPage, for any number of portfolios, trades,       *)
(* strategy changes and forms.                                             *)
(*                                                                         *)
(* Only the selected portfolio's load and the reads of the forms bring     *)
(* parts, and only the forms change them.  A part that nothing is to be    *)
(* read for, and that no form has written to without having asked for it   *)
(* since, is shown as it is, unless its last answer is excused: that is    *)
(* stronger than what the page promises of itself at rest, and inductive.  *)
(***************************************************************************)
EXTENDS PortfolioPage, FiniteSetTheorems, WellFoundedInduction, TLAPS

-----------------------------------------------------------------------------
(* The inductive invariant.                                                *)

\* A form that was sent may still write, and the two forms of the strategy take turns.
JobsOK ==
    /\ \A f \in {"rule", "thesis"} : job[f] # None /\ job[f].step = "sent" => plans[job[f].of] < MaxSaves
    /\ job["rule"] = None \/ job["thesis"] = None
    /\ job["trade"] # None => job["trade"].what \in Trades

\* What was asked for is answered by no older revision than there was then.
ReadsOK ==
    /\ \A r \in reads : r.part \in Parts => r.since <= Revision(r.part, r.of)
    /\ load # None => Effective # None /\ \A part \in Parts : load[part] <= Revision(part, Effective)

\* Nothing is on its way for a part, and no form is about to ask for it.
Settled(part) ==
    /\ load = None
    /\ \A r \in reads : r.part # part
    /\ \A f \in Forms : part \in PartsOf(f) => job[f] = None \/ job[f].step # "done"

ShownOK ==
    \A part \in Parts \ excused : Settled(part) /\ Effective # None =>
        /\ shown[part] # None
        /\ shown[part].of = Effective /\ shown[part].rev = Revision(part, Effective)

IInv == TypeOK /\ JobsOK /\ ReadsOK /\ ShownOK /\ LimitIsItsOwn

-----------------------------------------------------------------------------
(* Values.                                                                 *)

LEMMA Numbers ==
    /\ Existing \in Nat /\ MaxCreated \in Nat /\ MaxTrades \in Nat /\ MaxSaves \in Nat
    /\ Portfolios \subseteq Nat \ {0} /\ None \notin Portfolios
    /\ None \notin Forms /\ None \notin Jobs /\ None \notin Loads /\ None \notin Copies
BY PortfolioAssumption DEF Portfolios

\* By default the first portfolio is selected, and there is a first.
LEMMA FirstIs ==
    ASSUME NEW ps \in SUBSET Portfolios, ps # {}
    PROVE  First(ps) \in ps
<1>1. ps \subseteq Nat BY Numbers
<1>2. PICK less : less = OpToRel(<, Nat) OBVIOUS
<1>3. IsWellFoundedOn(less, Nat) BY <1>2, NatLessThanWellFounded
<1>4. \A p, q \in Nat : q < p => <<q, p>> \in less BY <1>2 DEF OpToRel
<1>5. \E p \in ps : \A q \in ps : ~(<<q, p>> \in less) BY <1>1, <1>3, WFMin
<1>6. PICK p \in ps : \A q \in ps : ~(<<q, p>> \in less) BY <1>5
<1>7. ASSUME NEW q \in ps PROVE p <= q
  <2>1. p \in Nat /\ q \in Nat /\ ~(q < p) BY <1>1, <1>4, <1>6
  <2>2. QED BY <2>1
<1>8. QED BY <1>6, <1>7 DEF First

LEMMA EffectiveTyped ==
    /\ selected \in Portfolios \cup {None} /\ list \in (SUBSET Portfolios) \cup {None}
          => Effective \in Portfolios \cup {None}
    /\ selected' \in Portfolios \cup {None} /\ list' \in (SUBSET Portfolios) \cup {None}
          => Effective' \in Portfolios \cup {None}
<1>1. ASSUME NEW s \in Portfolios \cup {None}, NEW ps \in (SUBSET Portfolios) \cup {None}
      PROVE  (IF s # None THEN s ELSE IF ps \in {None, {}} THEN None ELSE First(ps)) \in Portfolios \cup {None}
  <2>1. CASE s # None \/ ps \in {None, {}} BY <2>1
  <2>2. CASE s = None /\ ps \notin {None, {}}
    <3>1. First(ps) \in Portfolios BY <2>2, FirstIs
    <3>2. QED BY <2>2, <3>1
  <2>3. QED BY <2>1, <2>2
<1>2. QED BY <1>1 DEF Effective

LEMMA RevisionTyped ==
    ASSUME NEW part \in Parts, NEW p \in Portfolios
    PROVE  /\ TypeOK => Revision(part, p) \in Revisions /\ Revision(part, p) \in Nat
           /\ TypeOK' => Revision(part, p)' \in Revisions /\ Revision(part, p)' \in Nat
<1>1. IsFiniteSet(Trades) /\ Cardinality(Trades) = MaxTrades
  <2>1. MaxTrades \in Nat BY Numbers
  <2>2. QED BY <2>1, FS_Interval DEF Trades
<1>2. ASSUME NEW book \in SUBSET Trades, NEW n \in 0..MaxSaves
      PROVE  Cardinality(book) \in Revisions /\ Cardinality(book) \in Nat /\ n \in Revisions /\ n \in Nat
  <2>1. Cardinality(book) \in Nat /\ Cardinality(book) <= MaxTrades
    BY <1>1, FS_Subset, FS_CardinalityType
  <2>2. QED BY <2>1, Numbers DEF Revisions
<1>3. TypeOK => plans[p] \in 0..MaxSaves /\ books[p] \in SUBSET Trades BY DEF TypeOK
<1>4. TypeOK' => plans'[p] \in 0..MaxSaves /\ books'[p] \in SUBSET Trades BY DEF TypeOK
<1>5. QED BY <1>2, <1>3, <1>4 DEF Revision

\* Single values of the state.
LEMMA Typed ==
    ASSUME TypeOK
    PROVE  /\ Effective \in Portfolios \cup {None}
           /\ \A f \in Forms : job[f] # None => job[f] \in Jobs /\ job[f].of \in Portfolios
                                                /\ job[f].step \in {"sent", "done", "reading"}
           /\ Len(roster) \in Nat \ {0} /\ \A i \in 1..Len(roster) : roster[i] \subseteq Portfolios
           /\ Current \subseteq Portfolios
           /\ \A r \in reads : /\ r.part \in Parts => r \in PartReads /\ r.of \in Portfolios /\ r.since \in Nat
                               /\ r.part \notin Parts => r \in ListReads /\ r.part = "list" /\ r.since \in Nat \ {0}
           /\ load # None => load \in Loads /\ \A part \in Parts : load[part] \in Nat
<1>1. Effective \in Portfolios \cup {None} BY EffectiveTyped DEF TypeOK
<1>2. ASSUME NEW f \in Forms, job[f] # None
      PROVE  job[f] \in Jobs /\ job[f].of \in Portfolios /\ job[f].step \in {"sent", "done", "reading"}
  <2>1. job[f] \in Jobs BY <1>2 DEF TypeOK
  <2>2. QED BY <2>1 DEF Jobs
<1>3. Len(roster) \in Nat \ {0} /\ \A i \in 1..Len(roster) : roster[i] \subseteq Portfolios
  <2>1. PICK sets : sets = SUBSET Portfolios OBVIOUS
  <2>2. roster \in Seq(sets) /\ roster # <<>> BY <2>1 DEF TypeOK
  <2>3. Len(roster) \in Nat \ {0} /\ \A i \in 1..Len(roster) : roster[i] \in sets BY <2>2
  <2>4. QED BY <2>1, <2>3
<1>4. Current \subseteq Portfolios BY <1>3 DEF Current
<1>5. Revisions \subseteq Nat BY Numbers DEF Revisions
<1>6. ASSUME NEW r \in reads
      PROVE  /\ r.part \in Parts => r \in PartReads /\ r.of \in Portfolios /\ r.since \in Nat
             /\ r.part \notin Parts => r \in ListReads /\ r.part = "list" /\ r.since \in Nat \ {0}
  <2>1. r \in PartReads \cup ListReads BY DEF TypeOK
  <2>2. CASE r \in PartReads BY <1>5, <2>2 DEF PartReads
  <2>3. CASE r \in ListReads BY <2>3 DEF ListReads, Parts
  <2>4. QED BY <2>1, <2>2, <2>3
<1>7. ASSUME load # None PROVE load \in Loads /\ \A part \in Parts : load[part] \in Nat
  BY <1>5, <1>7 DEF TypeOK, Loads
<1>8. QED BY <1>1, <1>2, <1>3, <1>4, <1>6, <1>7

-----------------------------------------------------------------------------
(* What a step leaves as it is.                                            *)

PageTypes ==
    /\ uses \subseteq Forms
    /\ list \in (SUBSET Portfolios) \cup {None}
    /\ listFailed \in BOOLEAN
    /\ selected \in Portfolios \cup {None} /\ limit \in Portfolios \cup {None}
    /\ editing \in Portfolios \cup {None} /\ asked \in Portfolios \cup {None}
    /\ named \in Portfolios \cup {None}
    /\ form \in 0..MaxTrades /\ filled \in 0..MaxTrades
    /\ excused \subseteq Parts

LoadTypes == load \in Loads \cup {None} /\ shown \in [Parts -> Copies \cup {None}]

WorkTypes ==
    /\ job \in [Forms -> Jobs \cup {None}]
    /\ \A r \in reads : r \in PartReads \cup ListReads
    /\ \A r \in reads : r.by \in Awaiting => job[r.by] # None /\ job[r.by].step = "reading"

ServerTypes ==
    /\ roster \in Seq(SUBSET Portfolios) \ {<<>>}
    /\ books \in [Portfolios -> SUBSET Trades]
    /\ plans \in [Portfolios -> 0..MaxSaves]

LEMMA Groups ==
    /\ TypeOK <=> PageTypes /\ LoadTypes /\ WorkTypes /\ ServerTypes
    /\ TypeOK' <=> PageTypes' /\ LoadTypes' /\ WorkTypes' /\ ServerTypes'
BY DEF TypeOK, PageTypes, LoadTypes, WorkTypes, ServerTypes

LEMMA ServerStays == ServerTypes /\ UNCHANGED server => ServerTypes'
BY DEF ServerTypes, server

\* Where nothing is shown or written and nothing comes to rest, what is shown stays right.
LEMMA ShownStays ==
    ASSUME IInv, UNCHANGED <<load, shown, books, plans>>, Effective' = Effective, excused \subseteq excused',
           \A part \in Parts \ excused' : Settled(part)' => Settled(part)
    PROVE  ShownOK'
<1> SUFFICES ASSUME NEW part \in Parts \ excused', Settled(part)', Effective' # None
             PROVE  /\ shown'[part] # None
                    /\ shown'[part].of = Effective' /\ shown'[part].rev = Revision(part, Effective)'
  BY DEF ShownOK
<1>1. /\ shown[part] # None
      /\ shown[part].of = Effective /\ shown[part].rev = Revision(part, Effective)
  BY DEF IInv, ShownOK
<1>2. QED BY <1>1 DEF Revision

LEMMA LoadStays ==
    ASSUME IInv, UNCHANGED <<load, books, plans>>, Effective' = Effective
    PROVE  load' # None => Effective' # None /\ \A part \in Parts : load'[part] <= Revision(part, Effective)'
BY DEF IInv, ReadsOK, Revision

LEMMA LimitStays ==
    ASSUME IInv, UNCHANGED load, Effective' = Effective, limit' = limit \/ limit' = Effective, excused \subseteq excused'
    PROVE  LimitIsItsOwn'
BY DEF IInv, LimitIsItsOwn

LEMMA JobsStay ==
    ASSUME IInv, UNCHANGED plans, job' \in [Forms -> Jobs \cup {None}],
           \A f \in Forms : job'[f] = job[f] \/ job'[f] = None
    PROVE  JobsOK'
BY DEF IInv, JobsOK, Forms

\* Another portfolio is loaded anew, so that nothing of the last one counts.
LEMMA ReloadKeeps ==
    ASSUME IInv, Reload, UNCHANGED <<shown, limit, server, excused>>,
           selected' \in Portfolios \cup {None}, list' \in (SUBSET Portfolios) \cup {None},
           \A part \in Parts \ excused : Settled(part)' /\ load' = load => Settled(part)
    PROVE  /\ LoadTypes' /\ ShownOK' /\ LimitIsItsOwn'
           /\ load' # None => Effective' # None /\ \A part \in Parts : load'[part] <= Revision(part, Effective)'
<1>1. Effective' \in Portfolios \cup {None} BY EffectiveTyped
<1>2. LoadTypes BY Groups DEF IInv
<1>3. UNCHANGED <<books, plans>> BY DEF server
<1>4. CASE Effective' = Effective
  <2>1. load' = load BY <1>4 DEF Reload
  <2>2. ShownOK' BY <1>3, <1>4, <2>1, ShownStays
  <2>3. QED BY <1>2, <1>3, <1>4, <2>1, <2>2, LoadStays, LimitStays DEF LoadTypes
<1>5. CASE Effective' # Effective /\ Effective' = None
  <2>1. load' = None BY <1>5 DEF Reload, StartLoad
  <2>2. QED BY <1>2, <1>5, <2>1 DEF LoadTypes, ShownOK, LimitIsItsOwn
<1>6. CASE Effective' # Effective /\ Effective' # None
  <2>1. PICK p \in Portfolios : p = Effective' BY <1>1, <1>6
  <2>2. load' = [part \in Parts |-> Revision(part, p)'] BY <1>3, <1>6, <2>1, Numbers DEF Reload, StartLoad, Revision
  <2>3. \A part \in Parts : Revision(part, p) \in Revisions /\ Revision(part, p) \in Nat
    BY RevisionTyped DEF IInv
  <2>4. \A part \in Parts : Revision(part, p)' = Revision(part, p) BY <1>3 DEF Revision
  <2>5. load' \in Loads /\ load' # None BY <2>2, <2>3, <2>4, Numbers DEF Loads
  <2>6. \A part \in Parts : load'[part] = Revision(part, p) /\ load'[part] <= Revision(part, p)
    BY <2>2, <2>3, <2>4
  <2>7. \A part \in Parts : load'[part] <= Revision(part, Effective)' BY <1>3, <2>1, <2>6 DEF Revision
  <2>8. QED BY <1>2, <1>6, <2>5, <2>7 DEF LoadTypes, ShownOK, LimitIsItsOwn, Settled
<1>7. QED BY <1>4, <1>5, <1>6

-----------------------------------------------------------------------------
(* What the user does.                                                     *)

LEMMA SelectKeeps ==
    ASSUME IInv, NEW p \in Portfolios, Select(p)
    PROVE  IInv'
<1>1. PageTypes /\ LoadTypes /\ WorkTypes /\ ServerTypes BY Groups DEF IInv
<1>2. /\ selected' = p /\ Reload
      /\ UNCHANGED <<uses, list, listFailed, shown, limit, editing, form, filled, asked, named, job, reads,
                     roster, books, plans, excused>>
  BY DEF Select, inputs, server
<1>3. PageTypes' BY <1>1, <1>2 DEF PageTypes
<1>4. WorkTypes' /\ ServerTypes' BY <1>1, <1>2 DEF WorkTypes, ServerTypes
<1>5. \A part \in Parts \ excused : Settled(part)' /\ load' = load => Settled(part) BY <1>2 DEF Settled
<1>6. /\ LoadTypes' /\ ShownOK' /\ LimitIsItsOwn'
      /\ load' # None => Effective' # None /\ \A part \in Parts : load'[part] <= Revision(part, Effective)'
  BY <1>2, <1>3, <1>5, ReloadKeeps DEF PageTypes, server
<1>7. ReadsOK' BY <1>2, <1>6 DEF IInv, ReadsOK, Revision
<1>8. JobsOK' BY <1>2 DEF IInv, JobsOK
<1>9. QED BY <1>3, <1>4, <1>6, <1>7, <1>8, Groups DEF IInv

\* Forms and the dialog.
LEMMA FillingKeeps ==
    ASSUME IInv, FillTrade \/ TypeLimit \/ EditThesis \/ AskDelete \/ CancelDelete
    PROVE  IInv'
<1>1. PageTypes /\ LoadTypes /\ WorkTypes /\ ServerTypes BY Groups DEF IInv
<1>2. /\ UNCHANGED <<uses, list, listFailed, selected, load, shown, named, job, reads, roster, books, plans, excused>>
      /\ limit' = limit \/ limit' = Effective
      /\ editing' \in {editing, Effective, None} /\ asked' \in {asked, Effective, None}
  BY DEF FillTrade, TypeLimit, EditThesis, AskDelete, CancelDelete, server
<1>3. form' \in 0..MaxTrades /\ filled' \in 0..MaxTrades
  <2>1. CASE FillTrade BY <1>1, <2>1, Numbers DEF FillTrade, PageTypes
  <2>2. CASE TypeLimit \/ EditThesis \/ AskDelete \/ CancelDelete
    BY <1>1, <2>2 DEF TypeLimit, EditThesis, AskDelete, CancelDelete, PageTypes
  <2>3. QED BY <2>1, <2>2
<1>4. Effective \in Portfolios \cup {None} BY Typed DEF IInv
<1>5. PageTypes' BY <1>1, <1>2, <1>3, <1>4 DEF PageTypes
<1>6. LoadTypes' /\ WorkTypes' /\ ServerTypes' BY <1>1, <1>2 DEF LoadTypes, WorkTypes, ServerTypes
<1>7. Effective' = Effective BY <1>2 DEF Effective
<1>8. ReadsOK' BY <1>2, <1>7, LoadStays DEF IInv, ReadsOK, Revision
<1>9. \A part \in Parts : Settled(part)' => Settled(part) BY <1>2 DEF Settled
<1>10. ShownOK' /\ LimitIsItsOwn' BY <1>2, <1>7, <1>9, ShownStays, LimitStays
<1>11. JobsOK' BY <1>2 DEF IInv, JobsOK
<1>12. QED BY <1>5, <1>6, <1>8, <1>10, <1>11, Groups DEF IInv

\* A form is sent when it is idle, so no read is its.
LEMMA SendKeeps ==
    ASSUME IInv, NEW f \in Forms, NEW p \in Portfolios, NEW what \in 0..MaxTrades \cup Portfolios,
           Send(f, p, what),
           f = "trade" => what \in Trades,
           f \in {"rule", "thesis"} => plans[p] < MaxSaves
    PROVE  IInv'
<1>1. PageTypes /\ LoadTypes /\ WorkTypes /\ ServerTypes BY Groups DEF IInv
<1>2. PICK j : j = [of |-> p, step |-> "sent", what |-> what] OBVIOUS
<1>3. j \in Jobs /\ j.of = p /\ j.step = "sent" /\ j.what = what BY <1>2 DEF Jobs
<1>4. /\ job' = [job EXCEPT ![f] = j] /\ ~Busy(f)
      /\ UNCHANGED <<uses, list, listFailed, selected, load, shown, limit, editing, form, filled, asked, named, reads,
                     roster, books, plans, excused>>
  BY <1>2 DEF Send, inputs, server
<1>5. job[f] = None /\ (f = "rule" => job["thesis"] = None) /\ (f = "thesis" => job["rule"] = None)
  BY <1>4 DEF Busy, Forms
<1>6. job' \in [Forms -> Jobs \cup {None}] /\ job'[f] = j /\ \A g \in Forms : g # f => job'[g] = job[g]
  BY <1>1, <1>3, <1>4 DEF WorkTypes
<1>7. ASSUME NEW r \in reads, r.by \in Awaiting PROVE job'[r.by] # None /\ job'[r.by].step = "reading"
  <2>1. job[r.by] # None /\ job[r.by].step = "reading" /\ r.by \in Forms BY <1>1, <1>7 DEF WorkTypes, Awaiting
  <2>2. r.by # f BY <1>5, <2>1
  <2>3. QED BY <1>6, <2>1, <2>2
<1>8. WorkTypes' BY <1>1, <1>4, <1>6, <1>7 DEF WorkTypes
<1>9. PageTypes' /\ LoadTypes' /\ ServerTypes' BY <1>1, <1>4 DEF PageTypes, LoadTypes, ServerTypes
<1>10. Effective' = Effective BY <1>4 DEF Effective
<1>11. ReadsOK' BY <1>4, <1>10, LoadStays DEF IInv, ReadsOK, Revision
<1>12. ASSUME NEW part \in Parts, Settled(part)' PROVE Settled(part)
  <2>1. ASSUME NEW g \in Forms, part \in PartsOf(g) PROVE job[g] = None \/ job[g].step # "done"
    BY <1>5, <1>6, <1>12, <2>1 DEF Settled
  <2>2. QED BY <1>4, <1>12, <2>1 DEF Settled
<1>13. ShownOK' /\ LimitIsItsOwn' BY <1>4, <1>10, <1>12, ShownStays, LimitStays
<1>14. JobsOK'
  <2>1. JobsOK BY DEF IInv
  <2>2. ASSUME NEW g \in {"rule", "thesis"}, job'[g] # None, job'[g].step = "sent"
        PROVE  plans'[job'[g].of] < MaxSaves
    <3>1. CASE g = f BY <1>3, <1>4, <1>6, <2>2, <3>1
    <3>2. CASE g # f BY <1>4, <1>6, <2>1, <2>2, <3>2 DEF JobsOK, Forms
    <3>3. QED BY <3>1, <3>2
  <2>3. job'["rule"] = None \/ job'["thesis"] = None BY <1>5, <1>6, <2>1 DEF JobsOK, Forms
  <2>4. job'["trade"] # None => job'["trade"].what \in Trades BY <1>3, <1>6, <2>1 DEF JobsOK, Forms
  <2>5. QED BY <2>2, <2>3, <2>4 DEF JobsOK
<1>15. QED BY <1>8, <1>9, <1>11, <1>13, <1>14, Groups DEF IInv

LEMMA SendsKeep ==
    ASSUME IInv, RecordTrade \/ SaveWeightRule \/ SaveThesis \/ CreatePortfolio \/ ConfirmDelete
    PROVE  IInv'
<1>1. PageTypes BY Groups DEF IInv
<1>2. FormsShown => Effective \in Portfolios
  <2>1. FormsShown => Effective \in list /\ list # None BY DEF FormsShown
  <2>2. QED BY <1>1, <2>1 DEF PageTypes
<1>3. 0 \in 0..MaxTrades BY Numbers
<1>4. {"trade", "rule", "thesis", "create", "delete"} = Forms BY DEF Forms
<1>5. CASE RecordTrade
  <2>1. form \in Trades /\ form \in 0..MaxTrades BY <1>1, <1>5, Numbers DEF RecordTrade, PageTypes, Trades
  <2>2. QED BY <1>2, <1>4, <1>5, <2>1, SendKeeps DEF RecordTrade
<1>6. CASE SaveWeightRule BY <1>2, <1>3, <1>4, <1>6, SendKeeps DEF SaveWeightRule
<1>7. CASE SaveThesis
  <2>1. PICK what : what = IF editing = None THEN 0 ELSE editing OBVIOUS
  <2>2. what \in 0..MaxTrades \cup Portfolios BY <1>1, <1>3, <2>1 DEF PageTypes
  <2>3. Send("thesis", Effective, what) BY <1>7, <2>1 DEF SaveThesis
  <2>4. QED BY <1>2, <1>4, <1>7, <2>2, <2>3, SendKeeps DEF SaveThesis
<1>8. CASE CreatePortfolio
  <2>1. PICK p \in Portfolios : Send("create", p, 0) BY <1>8 DEF CreatePortfolio
  <2>2. QED BY <1>3, <1>4, <2>1, SendKeeps
<1>9. CASE ConfirmDelete
  <2>1. asked \in Portfolios /\ Send("delete", asked, 0) BY <1>1, <1>9 DEF ConfirmDelete, PageTypes
  <2>2. QED BY <1>3, <1>4, <2>1, SendKeeps
<1>10. QED BY <1>5, <1>6, <1>7, <1>8, <1>9

-----------------------------------------------------------------------------
(* What the server does.                                                   *)

\* A write of a form: it makes no revision smaller, and changes the form's own parts only.
LEMMA WriteKeeps ==
    ASSUME IInv, NEW f \in Forms, job[f] # None, job[f].step = "sent", Write(f)
    PROVE  /\ ServerTypes' /\ named' \in Portfolios \cup {None}
           /\ \A part \in Parts, p \in Portfolios :
                 /\ Revision(part, p) <= Revision(part, p)'
                 /\ part \notin PartsOf(f) => Revision(part, p)' = Revision(part, p)
           /\ f \notin {"rule", "thesis"} => plans' = plans
<1>1. PageTypes /\ ServerTypes BY Groups DEF IInv
<1>2. job[f] \in Jobs /\ job[f].of \in Portfolios BY Typed DEF IInv
<1>3. PICK p \in Portfolios : p = job[f].of BY <1>2
<1>4. \A part \in Parts, q \in Portfolios : Revision(part, q) \in Nat BY RevisionTyped DEF IInv
<1>5. Current \subseteq Portfolios BY Typed DEF IInv
<1>6. CASE f = "trade"
  <2>1. PICK what : what = job[f].what OBVIOUS
  <2>2. what \in Trades BY <1>6, <2>1 DEF IInv, JobsOK
  <2>3. books' = [books EXCEPT ![p] = @ \cup {what}] /\ UNCHANGED <<roster, plans, named>>
    BY <1>3, <1>6, <2>1 DEF Write, RecordsTrade
  <2>4. books' \in [Portfolios -> SUBSET Trades] BY <1>1, <2>2, <2>3 DEF ServerTypes
  <2>5. ServerTypes' BY <1>1, <2>3, <2>4 DEF ServerTypes
  <2>6. ASSUME NEW part \in Parts, NEW q \in Portfolios
        PROVE  /\ Revision(part, q) <= Revision(part, q)'
               /\ part \notin PartsOf(f) => Revision(part, q)' = Revision(part, q)
    <3>1. CASE part = "strategy" \/ q # p
      <4>1. Revision(part, q)' = Revision(part, q) BY <1>1, <2>3, <3>1 DEF Revision, ServerTypes
      <4>2. QED BY <1>4, <4>1
    <3>2. CASE part # "strategy" /\ q = p
      <4>1. books[q] \subseteq books'[q] /\ books'[q] \subseteq Trades BY <1>1, <2>2, <2>3, <3>2 DEF ServerTypes
      <4>2. IsFiniteSet(Trades) BY Numbers, FS_Interval DEF Trades
      <4>3. IsFiniteSet(books'[q]) BY <4>1, <4>2, FS_Subset
      <4>4. Cardinality(books[q]) <= Cardinality(books'[q]) BY <4>1, <4>3, FS_Subset
      <4>5. part \in PartsOf(f) BY <1>6, <3>2 DEF PartsOf, Parts
      <4>6. QED BY <3>2, <4>4, <4>5 DEF Revision
    <3>3. QED BY <3>1, <3>2
  <2>7. QED BY <1>1, <2>3, <2>5, <2>6 DEF PageTypes
<1>7. CASE f \in {"rule", "thesis"}
  <2>1. plans' = [plans EXCEPT ![p] = @ + 1] /\ UNCHANGED <<roster, books, named>>
    BY <1>3, <1>7 DEF Write, PutsRule, SavesThesis
  <2>2. plans[p] < MaxSaves BY <1>3, <1>7 DEF IInv, JobsOK
  <2>3. plans[p] \in Nat /\ plans[p] + 1 \in 0..MaxSaves BY <1>1, <2>2, Numbers DEF ServerTypes
  <2>4. plans' \in [Portfolios -> 0..MaxSaves] BY <1>1, <2>1, <2>3 DEF ServerTypes
  <2>5. ServerTypes' BY <1>1, <2>1, <2>4 DEF ServerTypes
  <2>6. ASSUME NEW part \in Parts, NEW q \in Portfolios
        PROVE  /\ Revision(part, q) <= Revision(part, q)'
               /\ part \notin PartsOf(f) => Revision(part, q)' = Revision(part, q)
    <3>1. CASE part # "strategy" \/ q # p
      <4>1. Revision(part, q)' = Revision(part, q) BY <1>1, <2>1, <3>1 DEF Revision, ServerTypes
      <4>2. QED BY <1>4, <4>1
    <3>2. CASE part = "strategy" /\ q = p
      <4>1. plans'[q] = plans[q] + 1 BY <1>1, <2>1, <3>2 DEF ServerTypes
      <4>2. part \in PartsOf(f) BY <1>7, <3>2 DEF PartsOf
      <4>3. QED BY <2>3, <3>2, <4>1, <4>2 DEF Revision
    <3>3. QED BY <3>1, <3>2
  <2>7. QED BY <1>1, <1>7, <2>1, <2>5, <2>6 DEF PageTypes
<1>8. CASE f \in {"create", "delete"}
  <2>1. UNCHANGED <<books, plans>> BY <1>8 DEF Write, CreatesPortfolio, DeletesPortfolio
  <2>2. \A part \in Parts, q \in Portfolios : Revision(part, q)' = Revision(part, q) BY <2>1 DEF Revision
  <2>3. PICK sets : sets = SUBSET Portfolios OBVIOUS
  <2>4. roster \in Seq(sets) /\ roster # <<>> BY <1>1, <2>3 DEF ServerTypes
  <2>5. \A set \in sets : Append(roster, set) \in Seq(sets) /\ Append(roster, set) # <<>> BY <2>4
  <2>6. CASE f = "create"
    <3>1. (roster' = roster \/ roster' = Append(roster, Current \cup {p})) /\ named' = p
      BY <1>3, <2>6 DEF Write, CreatesPortfolio
    <3>2. roster' \in Seq(sets) \ {<<>>} BY <1>5, <2>3, <2>4, <2>5, <3>1
    <3>3. QED BY <1>1, <1>4, <2>1, <2>2, <2>3, <3>1, <3>2 DEF ServerTypes
  <2>7. CASE f = "delete"
    <3>1. roster' = Append(roster, Current \ {p}) /\ named' = named
      BY <1>3, <2>7 DEF Write, DeletesPortfolio
    <3>2. roster' \in Seq(sets) \ {<<>>} BY <1>5, <2>3, <2>5, <3>1
    <3>3. QED BY <1>1, <1>4, <2>1, <2>2, <2>3, <3>1, <3>2 DEF ServerTypes, PageTypes
  <2>8. QED BY <1>8, <2>6, <2>7
<1>9. QED BY <1>6, <1>7, <1>8 DEF Forms

LEMMA ServeKeeps ==
    ASSUME IInv, NEW f \in Forms, Serve(f)
    PROVE  IInv'
<1>1. PageTypes /\ LoadTypes /\ WorkTypes /\ ServerTypes BY Groups DEF IInv
<1>2. /\ job[f] # None /\ job[f].step = "sent" /\ Write(f)
      /\ job' = [job EXCEPT ![f].step = "done"]
      /\ UNCHANGED <<uses, list, listFailed, selected, load, shown, limit, editing, form, filled, asked,
                     reads, excused>>
  BY DEF Serve
<1>3. /\ ServerTypes' /\ named' \in Portfolios \cup {None}
      /\ \A part \in Parts, p \in Portfolios :
            /\ Revision(part, p) <= Revision(part, p)'
            /\ part \notin PartsOf(f) => Revision(part, p)' = Revision(part, p)
      /\ f \notin {"rule", "thesis"} => plans' = plans
  BY <1>2, WriteKeeps
<1>4. job[f] \in Jobs BY <1>2, Typed DEF IInv
<1>5. PICK j : j = [job[f] EXCEPT !.step = "done"] OBVIOUS
<1>6. j \in Jobs /\ j.step = "done" /\ j.of = job[f].of /\ j.what = job[f].what BY <1>4, <1>5 DEF Jobs
<1>7. /\ job' \in [Forms -> Jobs \cup {None}] /\ job'[f] = j /\ j # None
      /\ \A g \in Forms : g # f => job'[g] = job[g]
  BY <1>1, <1>2, <1>5, <1>6, Numbers DEF WorkTypes
<1>8. ASSUME NEW r \in reads, r.by \in Awaiting PROVE job'[r.by] # None /\ job'[r.by].step = "reading"
  <2>1. job[r.by] # None /\ job[r.by].step = "reading" /\ r.by \in Forms BY <1>1, <1>8 DEF WorkTypes, Awaiting
  <2>2. r.by # f BY <1>2, <2>1
  <2>3. QED BY <1>7, <2>1, <2>2
<1>9. WorkTypes' BY <1>1, <1>2, <1>7, <1>8 DEF WorkTypes
<1>10. PageTypes' /\ LoadTypes' BY <1>1, <1>2, <1>3 DEF PageTypes, LoadTypes
<1>11. Effective' = Effective /\ Effective \in Portfolios \cup {None} BY <1>2, Typed DEF Effective, IInv
<1>12. \A part \in Parts, p \in Portfolios : Revision(part, p) \in Nat BY RevisionTyped DEF IInv
<1>13. \A part \in Parts, p \in Portfolios : Revision(part, p)' \in Nat
  BY <1>3, <1>9, <1>10, Groups, RevisionTyped
<1>14. ReadsOK'
  <2>1. ASSUME NEW r \in reads, r.part \in Parts PROVE r.since <= Revision(r.part, r.of)'
    <3>1. PICK part \in Parts, p \in Portfolios, n \in Nat : part = r.part /\ p = r.of /\ n = r.since
      BY <2>1, Typed DEF IInv
    <3>2. n <= Revision(part, p) BY <2>1, <3>1 DEF IInv, ReadsOK
    <3>3. n <= Revision(part, p)' BY <1>3, <1>12, <1>13, <3>2
    <3>4. QED BY <3>1, <3>3
  <2>2. ASSUME load # None PROVE Effective # None /\ \A part \in Parts : load[part] <= Revision(part, Effective)'
    <3>1. PICK p \in Portfolios : p = Effective BY <1>11, <2>2 DEF IInv, ReadsOK
    <3>2. ASSUME NEW part \in Parts PROVE load[part] <= Revision(part, p)'
      <4>1. load[part] \in Nat /\ load[part] <= Revision(part, p)
        BY <2>2, <3>1, Typed DEF IInv, ReadsOK
      <4>2. QED BY <1>3, <1>12, <1>13, <4>1
    <3>3. QED BY <1>11, <3>1, <3>2, Numbers DEF Revision
  <2>3. QED BY <1>2, <1>11, <2>1, <2>2 DEF ReadsOK, Revision
<1>15. ShownOK'
  <2> SUFFICES ASSUME NEW part \in Parts \ excused, Settled(part)', Effective # None
               PROVE  /\ shown[part] # None /\ shown[part].of = Effective
                      /\ shown[part].rev = Revision(part, Effective)'
    BY <1>2, <1>11 DEF ShownOK
  <2>1. part \notin PartsOf(f) BY <1>6, <1>7 DEF Settled
  <2>2. \A g \in Forms : part \in PartsOf(g) => job[g] = None \/ job[g].step # "done"
    BY <1>7, <2>1 DEF Settled
  <2>3. Settled(part) BY <1>2, <2>2 DEF Settled
  <2>4. shown[part] # None /\ shown[part].of = Effective /\ shown[part].rev = Revision(part, Effective)
    BY <2>3 DEF IInv, ShownOK
  <2>5. PICK p \in Portfolios : p = Effective BY <1>11
  <2>6. Revision(part, p)' = Revision(part, p) BY <1>3, <2>1
  <2>7. QED BY <1>11, <2>4, <2>5, <2>6 DEF Revision
<1>16. LimitIsItsOwn' BY <1>2, <1>11, LimitStays
<1>17. JobsOK'
  <2>1. JobsOK BY DEF IInv
  <2>2. ASSUME NEW g \in {"rule", "thesis"}, job'[g] # None, job'[g].step = "sent"
        PROVE  plans'[job'[g].of] < MaxSaves
    <3>1. g # f BY <1>6, <1>7, <2>2
    <3>2. job'[g] = job[g] BY <1>7, <3>1 DEF Forms
    <3>3. f \notin {"rule", "thesis"} BY <1>2, <2>1, <2>2, <3>1, <3>2 DEF JobsOK
    <3>4. QED BY <1>3, <2>1, <2>2, <3>2, <3>3 DEF JobsOK
  <2>3. job'["rule"] = None \/ job'["thesis"] = None BY <1>2, <1>7, <2>1 DEF JobsOK, Forms
  <2>4. job'["trade"] # None => job'["trade"].what \in Trades
    <3>1. CASE f = "trade" BY <1>2, <1>6, <1>7, <2>1, <3>1 DEF JobsOK
    <3>2. CASE f # "trade" BY <1>7, <2>1, <3>2 DEF JobsOK, Forms
    <3>3. QED BY <3>1, <3>2
  <2>5. QED BY <2>2, <2>3, <2>4 DEF JobsOK
<1>18. QED BY <1>3, <1>9, <1>10, <1>14, <1>15, <1>16, <1>17, Groups DEF IInv

-----------------------------------------------------------------------------
(* What the page does with the answers.                                     *)

\* The reads of a form that has written cover what it wrote.
LEMMA ReadsAfter ==
    ASSUME IInv, NEW f \in Forms, job[f] # None
    PROVE  /\ \A r \in ReadAfter(f) : r \in PartReads \cup ListReads /\ r.by = f
           /\ \A r \in ReadAfter(f) : r.part \in Parts => r.since = Revision(r.part, r.of)
           /\ \A part \in PartsOf(f) : \E r \in ReadAfter(f) : r.part = part
<1>1. PICK p \in Portfolios : p = job[f].of BY Typed DEF IInv
<1>2. PICK last : last = ListRead(f) OBVIOUS
<1>3. last \in ListReads /\ last.by = f /\ last.part = "list"
  <2>1. Len(roster) \in Nat \ {0} BY Typed DEF IInv
  <2>2. QED BY <1>2, <2>1 DEF ListRead, ListReads
<1>4. ASSUME NEW part \in Parts
      PROVE  \E r \in PartReads : /\ r = PartRead(part, p, f)
                                  /\ r.by = f /\ r.part = part /\ r.of = p /\ r.since = Revision(part, p)
  <2>1. Revision(part, p) \in Revisions BY RevisionTyped DEF IInv
  <2>2. PICK r : r = PartRead(part, p, f) OBVIOUS
  <2>3. r \in PartReads /\ r.by = f /\ r.part = part /\ r.of = p /\ r.since = Revision(part, p)
    BY <2>1, <2>2 DEF PartRead, PartReads
  <2>4. QED BY <2>2, <2>3
<1>5. {"positions", "ledger", "strategy"} = Parts /\ "list" \notin Parts BY DEF Parts
<1>6. CASE f = "trade"
  <2>1. PICK r1 \in PartReads : /\ r1 = PartRead("positions", p, f) /\ r1.by = f /\ r1.part = "positions"
                                /\ r1.of = p /\ r1.since = Revision("positions", p)
    BY <1>4, <1>5
  <2>2. PICK r2 \in PartReads : /\ r2 = PartRead("ledger", p, f) /\ r2.by = f /\ r2.part = "ledger"
                                /\ r2.of = p /\ r2.since = Revision("ledger", p)
    BY <1>4, <1>5
  <2>3. ReadAfter(f) = {r1, r2, last} BY <1>1, <1>2, <1>6, <2>1, <2>2 DEF ReadAfter
  <2>4. PartsOf(f) = {"positions", "ledger"} BY <1>6 DEF PartsOf
  <2>5. QED BY <1>3, <1>5, <2>1, <2>2, <2>3, <2>4
<1>7. CASE f \in {"rule", "thesis"}
  <2>1. PICK r1 \in PartReads : /\ r1 = PartRead("strategy", p, f) /\ r1.by = f /\ r1.part = "strategy"
                                /\ r1.of = p /\ r1.since = Revision("strategy", p)
    BY <1>4, <1>5
  <2>2. ReadAfter(f) = {r1} BY <1>1, <1>7, <2>1 DEF ReadAfter
  <2>3. PartsOf(f) = {"strategy"} BY <1>7 DEF PartsOf
  <2>4. QED BY <2>1, <2>2, <2>3
<1>8. CASE f \in {"create", "delete"}
  <2>1. ReadAfter(f) = {last} /\ PartsOf(f) = {} BY <1>2, <1>8 DEF ReadAfter, PartsOf
  <2>2. QED BY <1>3, <1>5, <2>1
<1>9. QED BY <1>6, <1>7, <1>8 DEF Forms

LEMMA AnsweredKeeps ==
    ASSUME IInv, NEW f \in Forms, Answered(f)
    PROVE  IInv'
<1>1. PageTypes /\ LoadTypes /\ WorkTypes /\ ServerTypes BY Groups DEF IInv
<1>2. /\ job[f] # None /\ job[f].step = "done" /\ Reload
      /\ job' = IF f \in Awaiting THEN [job EXCEPT ![f].step = "reading"] ELSE [job EXCEPT ![f] = None]
      /\ reads' = reads \cup ReadAfter(f)
      /\ form' \in {0, form} /\ editing' \in {None, editing} /\ named' \in {None, named}
      /\ selected' \in {job[f].of, selected}
      /\ UNCHANGED <<uses, list, listFailed, shown, limit, filled, asked, roster, books, plans, excused>>
  BY DEF Answered, server
<1>3. job[f] \in Jobs /\ job[f].of \in Portfolios BY <1>2, Typed DEF IInv
<1>4. PICK j : j = [job[f] EXCEPT !.step = "reading"] OBVIOUS
<1>5. j \in Jobs /\ j.step = "reading" /\ j.of = job[f].of /\ j.what = job[f].what /\ j # None
  BY <1>3, <1>4, Numbers DEF Jobs
<1>6. /\ job' \in [Forms -> Jobs \cup {None}]
      /\ \A g \in Forms : g # f => job'[g] = job[g]
      /\ job'[f] = IF f \in Awaiting THEN j ELSE None
  <2>1. CASE f \in Awaiting
    <3>1. job' = [job EXCEPT ![f] = j] BY <1>2, <1>4, <2>1
    <3>2. QED BY <1>1, <1>5, <2>1, <3>1 DEF WorkTypes
  <2>2. CASE f \notin Awaiting
    <3>1. job' = [job EXCEPT ![f] = None] BY <1>2, <2>2
    <3>2. QED BY <1>1, <2>2, <3>1 DEF WorkTypes
  <2>3. QED BY <2>1, <2>2
<1>7. /\ \A r \in ReadAfter(f) : r \in PartReads \cup ListReads /\ r.by = f
      /\ \A r \in ReadAfter(f) : r.part \in Parts => r.since = Revision(r.part, r.of)
      /\ \A part \in PartsOf(f) : \E r \in ReadAfter(f) : r.part = part
  BY <1>2, ReadsAfter
<1>8. ASSUME NEW r \in reads', r.by \in Awaiting PROVE job'[r.by] # None /\ job'[r.by].step = "reading"
  <2>1. CASE r \in ReadAfter(f) BY <1>5, <1>6, <1>7, <1>8, <2>1
  <2>2. CASE r \in reads
    <3>1. job[r.by] # None /\ job[r.by].step = "reading" /\ r.by \in Forms
      BY <1>1, <1>8, <2>2 DEF WorkTypes, Awaiting
    <3>2. r.by # f BY <1>2, <3>1
    <3>3. QED BY <1>6, <3>1, <3>2
  <2>3. QED BY <1>2, <2>1, <2>2
<1>9. WorkTypes' BY <1>1, <1>2, <1>6, <1>7, <1>8 DEF WorkTypes
<1>10. PageTypes' BY <1>1, <1>2, <1>3, Numbers DEF PageTypes
<1>11. ServerTypes' BY <1>1, <1>2 DEF ServerTypes
<1>12. ASSUME NEW part \in Parts, Settled(part)', load' = load PROVE Settled(part)
  <2>1. \A r \in reads : r.part # part BY <1>2, <1>12 DEF Settled
  <2>2. part \notin PartsOf(f) BY <1>2, <1>7, <1>12 DEF Settled
  <2>3. \A g \in Forms : part \in PartsOf(g) => job[g] = None \/ job[g].step # "done"
    BY <1>6, <1>12, <2>2 DEF Settled
  <2>4. QED BY <1>12, <2>1, <2>3 DEF Settled
<1>13. /\ LoadTypes' /\ ShownOK' /\ LimitIsItsOwn'
       /\ load' # None => Effective' # None /\ \A part \in Parts : load'[part] <= Revision(part, Effective)'
  BY <1>2, <1>10, <1>12, ReloadKeeps DEF PageTypes, server
<1>14. ReadsOK'
  <2>1. ASSUME NEW r \in reads', r.part \in Parts PROVE r.since <= Revision(r.part, r.of)'
    <3>1. r \in PartReads BY <1>9, <2>1 DEF WorkTypes, ListReads, Parts
    <3>2. PICK part \in Parts, p \in Portfolios : part = r.part /\ p = r.of BY <3>1 DEF PartReads
    <3>3. Revision(part, p) \in Nat BY RevisionTyped DEF IInv
    <3>4. CASE r \in reads
      <4>1. r.since <= Revision(part, p) BY <2>1, <3>2, <3>4 DEF IInv, ReadsOK
      <4>2. QED BY <1>2, <3>2, <4>1 DEF Revision
    <3>5. CASE r \in ReadAfter(f)
      <4>1. r.since = Revision(part, p) BY <1>7, <2>1, <3>2, <3>5
      <4>2. r.since <= Revision(part, p) BY <3>3, <4>1
      <4>3. QED BY <1>2, <3>2, <4>2 DEF Revision
    <3>6. QED BY <1>2, <3>4, <3>5
  <2>2. QED BY <1>13, <2>1 DEF ReadsOK, Revision
<1>15. JobsOK'
  <2>1. JobsOK BY DEF IInv
  <2>2. ASSUME NEW g \in {"rule", "thesis"}, job'[g] # None, job'[g].step = "sent"
        PROVE  plans'[job'[g].of] < MaxSaves
    <3>1. g # f BY <1>5, <1>6, <2>2
    <3>2. job'[g] = job[g] BY <1>6, <3>1 DEF Forms
    <3>3. QED BY <1>2, <2>1, <2>2, <3>2 DEF JobsOK
  <2>3. job'["rule"] = None \/ job'["thesis"] = None BY <1>2, <1>6, <2>1 DEF JobsOK, Forms
  <2>4. job'["trade"] # None => job'["trade"].what \in Trades
    <3>1. CASE f = "trade" BY <1>2, <1>5, <1>6, <2>1, <3>1 DEF JobsOK
    <3>2. CASE f # "trade" BY <1>6, <2>1, <3>2 DEF JobsOK, Forms
    <3>3. QED BY <3>1, <3>2
  <2>5. QED BY <2>2, <2>3, <2>4 DEF JobsOK
<1>16. QED BY <1>9, <1>10, <1>11, <1>13, <1>14, <1>15, Groups DEF IInv

LEMMA FailsKeeps ==
    ASSUME IInv, NEW f \in Forms, Fails(f)
    PROVE  IInv'
<1>1. PageTypes /\ LoadTypes /\ WorkTypes /\ ServerTypes BY Groups DEF IInv
<1>2. /\ job[f] # None /\ job[f].step # "reading" /\ job' = [job EXCEPT ![f] = None]
      /\ excused' = IF job[f].step = "done" THEN excused \cup PartsOf(f) ELSE excused
      /\ asked' \in {None, asked}
      /\ UNCHANGED <<uses, list, listFailed, selected, load, shown, limit, editing, form, filled, named,
                     reads, roster, books, plans>>
  BY DEF Fails, server
<1>3. job' \in [Forms -> Jobs \cup {None}] /\ job'[f] = None /\ \A g \in Forms : g # f => job'[g] = job[g]
  BY <1>1, <1>2 DEF WorkTypes
<1>4. ASSUME NEW r \in reads, r.by \in Awaiting PROVE job'[r.by] # None /\ job'[r.by].step = "reading"
  <2>1. job[r.by] # None /\ job[r.by].step = "reading" /\ r.by \in Forms BY <1>1, <1>4 DEF WorkTypes, Awaiting
  <2>2. r.by # f BY <1>2, <2>1
  <2>3. QED BY <1>3, <2>1, <2>2
<1>5. WorkTypes' BY <1>1, <1>2, <1>3, <1>4 DEF WorkTypes
<1>6. PartsOf(f) \subseteq Parts BY DEF PartsOf, Parts
<1>7. excused \subseteq excused' /\ excused' \subseteq Parts BY <1>1, <1>2, <1>6 DEF PageTypes
<1>8. PageTypes' BY <1>1, <1>2, <1>7 DEF PageTypes
<1>9. LoadTypes' /\ ServerTypes' BY <1>1, <1>2 DEF LoadTypes, ServerTypes
<1>10. Effective' = Effective BY <1>2 DEF Effective
<1>11. ReadsOK' BY <1>2, <1>10, LoadStays DEF IInv, ReadsOK, Revision
<1>12. ASSUME NEW part \in Parts \ excused', Settled(part)' PROVE Settled(part)
  <2>1. part \in PartsOf(f) => job[f].step # "done" BY <1>2, <1>12
  <2>2. \A g \in Forms : part \in PartsOf(g) => job[g] = None \/ job[g].step # "done"
    BY <1>3, <1>12, <2>1 DEF Settled
  <2>3. QED BY <1>2, <1>12, <2>2 DEF Settled
<1>13. ShownOK' BY <1>2, <1>7, <1>10, <1>12, ShownStays
<1>14. LimitIsItsOwn' BY <1>2, <1>7, <1>10, LimitStays
<1>15. JobsOK' BY <1>2, <1>3, JobsStay
<1>16. QED BY <1>5, <1>8, <1>9, <1>11, <1>13, <1>14, <1>15, Groups DEF IInv

\* Taking an answer ends a form only when it was its last, and no form that is to read.
LEMMA TakeReadKeeps ==
    ASSUME IInv, NEW r, TakeRead(r)
    PROVE  /\ r \in reads /\ reads' = reads \ {r} /\ WorkTypes'
           /\ \A f \in Forms : job'[f] = job[f] \/ job'[f] = None
           /\ \A f \in Forms : job[f] # None /\ job[f].step = "done" => job'[f] = job[f]
<1>1. WorkTypes BY Groups DEF IInv
<1>2. /\ r \in reads /\ reads' = reads \ {r}
      /\ job' = [f \in Forms |-> IF f = r.by /\ f \in Awaiting /\ {q \in reads \ {r} : q.by = f} = {}
                               THEN None ELSE job[f]]
  BY DEF TakeRead
<1>3. \A f \in Forms : job'[f] = job[f] \/ job'[f] = None BY <1>2
<1>4. job' \in [Forms -> Jobs \cup {None}]
  <2>1. \A f \in Forms : job'[f] \in Jobs \cup {None} BY <1>1, <1>3 DEF WorkTypes
  <2>2. job' = [f \in Forms |-> job'[f]] BY <1>2
  <2>3. QED BY <2>1, <2>2
<1>5. ASSUME NEW f \in Forms, job[f] # None, job[f].step = "done" PROVE job'[f] = job[f]
  <2>1. ~(f = r.by /\ f \in Awaiting) BY <1>1, <1>2, <1>5 DEF WorkTypes
  <2>2. QED BY <1>2, <2>1
<1>6. ASSUME NEW q \in reads', q.by \in Awaiting PROVE job'[q.by] # None /\ job'[q.by].step = "reading"
  <2>1. job[q.by] # None /\ job[q.by].step = "reading" /\ q.by \in Forms
    BY <1>1, <1>2, <1>6 DEF WorkTypes, Awaiting
  <2>2. {p \in reads \ {r} : p.by = q.by} # {} BY <1>2, <1>6
  <2>3. job'[q.by] = job[q.by] BY <1>2, <2>1, <2>2
  <2>4. QED BY <2>1, <2>3
<1>7. WorkTypes' BY <1>1, <1>2, <1>4, <1>6 DEF WorkTypes
<1>8. QED BY <1>2, <1>3, <1>5, <1>7

\* An answer that is excused unless it speaks for the selected portfolio as it is.
LEMMA AnswerIs ==
    ASSUME TypeOK, NEW part \in Parts, NEW p \in Portfolios, NEW since \in Nat,
           since <= Revision(part, p), NEW a \in Answers(part, p, since)
    PROVE  /\ a \in Copies /\ a # None /\ a.of = p
           /\ since = Revision(part, p) => a.rev = Revision(part, p)
<1>1. PICK rev \in since..Revision(part, p) : a = [of |-> p, rev |-> rev] BY DEF Answers
<1>2. PICK now : now = Revision(part, p) OBVIOUS
<1>3. now \in Revisions /\ now \in Nat BY <1>2, RevisionTyped
<1>4. rev \in Revisions /\ (since = now => rev = now) BY <1>1, <1>2, <1>3, Numbers DEF Revisions
<1>5. a \in Copies /\ a.of = p /\ a.rev = rev BY <1>1, <1>4 DEF Copies
<1>6. QED BY <1>2, <1>4, <1>5, Numbers

LEMMA PartArrivesKeeps ==
    ASSUME IInv, PartArrives
    PROVE  IInv'
<1>1. PageTypes /\ LoadTypes /\ WorkTypes /\ ServerTypes BY Groups DEF IInv
<1>2. PICK r \in reads :
          /\ r.part \in Parts /\ TakeRead(r)
          /\ \E a \in Answers(r.part, r.of, r.since) : shown' = [shown EXCEPT ![r.part] = a]
          /\ limit' = IF r.part = "strategy" THEN r.of ELSE limit
          /\ Excuse(r.part, r.of, r.since)
          /\ UNCHANGED <<uses, list, listFailed, selected, load, editing, form, filled, asked, named, server>>
  BY DEF PartArrives
<1>3. PICK part \in Parts, p \in Portfolios, since \in Nat : part = r.part /\ p = r.of /\ since = r.since
  BY <1>2, Typed DEF IInv
<1>4. since <= Revision(part, p) BY <1>3 DEF IInv, ReadsOK
<1>5. PICK a \in Answers(part, p, since) : shown' = [shown EXCEPT ![part] = a] BY <1>2, <1>3
<1>6. /\ a \in Copies /\ a # None /\ a.of = p
      /\ since = Revision(part, p) => a.rev = Revision(part, p)
  BY <1>4, AnswerIs DEF IInv
<1>7. shown' \in [Parts -> Copies \cup {None}] /\ shown'[part] = a
      /\ \A other \in Parts : other # part => shown'[other] = shown[other]
  BY <1>1, <1>5, <1>6 DEF LoadTypes
<1>8. /\ reads' = reads \ {r} /\ WorkTypes'
      /\ \A f \in Forms : job'[f] = job[f] \/ job'[f] = None
      /\ \A f \in Forms : job[f] # None /\ job[f].step = "done" => job'[f] = job[f]
  BY <1>2, TakeReadKeeps
<1>9. UNCHANGED <<uses, list, listFailed, selected, load, editing, form, filled, asked, named, roster, books, plans>>
  BY <1>2 DEF server
<1>10. excused' = IF p = Effective /\ since = Revision(part, p) THEN excused \ {part} ELSE excused \cup {part}
  BY <1>2, <1>3 DEF Excuse
<1>11. limit' = IF part = "strategy" THEN p ELSE limit BY <1>2, <1>3
<1>12. PageTypes' BY <1>1, <1>9, <1>10, <1>11 DEF PageTypes
<1>13. LoadTypes' /\ ServerTypes' BY <1>1, <1>7, <1>9 DEF LoadTypes, ServerTypes
<1>14. Effective' = Effective BY <1>9 DEF Effective
<1>15. ReadsOK' BY <1>8, <1>9, <1>14, LoadStays DEF IInv, ReadsOK, Revision
<1>16. ASSUME NEW other \in Parts, other # part, Settled(other)' PROVE Settled(other)
  <2>1. \A q \in reads : q.part # other BY <1>3, <1>8, <1>16 DEF Settled
  <2>2. \A f \in Forms : other \in PartsOf(f) => job[f] = None \/ job[f].step # "done"
    BY <1>8, <1>16 DEF Settled
  <2>3. QED BY <1>9, <1>16, <2>1, <2>2 DEF Settled
<1>17. ShownOK'
  <2> SUFFICES ASSUME NEW other \in Parts \ excused', Settled(other)', Effective # None
               PROVE  /\ shown'[other] # None /\ shown'[other].of = Effective
                      /\ shown'[other].rev = Revision(other, Effective)'
    BY <1>14 DEF ShownOK
  <2>1. CASE other = part
    <3>1. p = Effective /\ since = Revision(part, p) BY <1>10, <2>1
    <3>2. a.rev = Revision(part, p) BY <1>6, <3>1
    <3>3. QED BY <1>6, <1>7, <1>9, <1>14, <2>1, <3>1, <3>2 DEF Revision
  <2>2. CASE other # part
    <3>1. other \notin excused /\ Settled(other) BY <1>10, <1>16, <2>2
    <3>2. shown[other] # None /\ shown[other].of = Effective /\ shown[other].rev = Revision(other, Effective)
      BY <3>1 DEF IInv, ShownOK
    <3>3. QED BY <1>7, <1>9, <1>14, <2>2, <3>2 DEF Revision
  <2>3. QED BY <2>1, <2>2
<1>18. LimitIsItsOwn'
  <2>1. CASE part = "strategy" BY <1>9, <1>10, <1>11, <1>14, <2>1 DEF LimitIsItsOwn
  <2>2. CASE part # "strategy"
    <3>1. limit' = limit /\ ("strategy" \notin excused' => "strategy" \notin excused) BY <1>10, <1>11, <2>2
    <3>2. QED BY <1>9, <1>14, <3>1 DEF IInv, LimitIsItsOwn
  <2>3. QED BY <2>1, <2>2
<1>19. JobsOK' BY <1>8, <1>9, JobsStay DEF WorkTypes
<1>20. QED BY <1>8, <1>12, <1>13, <1>15, <1>17, <1>18, <1>19, Groups DEF IInv

LEMMA ListArrivesKeeps ==
    ASSUME IInv, ListArrives
    PROVE  IInv'
<1>1. PageTypes /\ LoadTypes /\ WorkTypes /\ ServerTypes BY Groups DEF IInv
<1>2. PICK r \in reads :
          /\ r.part = "list" /\ TakeRead(r)
          /\ \E i \in r.since..Len(roster) : list' = roster[i]
          /\ listFailed' = FALSE
          /\ IF r.by = "delete"
             THEN /\ selected' = IF list' = {} THEN None ELSE First(list')
                  /\ asked' = None
             ELSE UNCHANGED <<selected, asked>>
          /\ Reload
          /\ UNCHANGED <<uses, shown, limit, editing, form, filled, named, server, excused>>
  BY DEF ListArrives
<1>3. PICK set \in SUBSET Portfolios : list' = set
  <2>1. PICK i \in r.since..Len(roster) : list' = roster[i] BY <1>2
  <2>2. r.since \in Nat \ {0} BY <1>2, Typed DEF IInv, Parts
  <2>3. Len(roster) \in Nat BY Typed DEF IInv
  <2>4. i \in 1..Len(roster) BY <2>2, <2>3
  <2>5. roster[i] \subseteq Portfolios BY <2>4, Typed DEF IInv
  <2>6. QED BY <2>1, <2>5
<1>4. selected' \in Portfolios \cup {None} /\ asked' \in Portfolios \cup {None}
  <2>1. CASE r.by = "delete"
    <3>1. set # {} => First(set) \in Portfolios BY FirstIs
    <3>2. QED BY <1>2, <1>3, <2>1, <3>1
  <2>2. CASE r.by # "delete" BY <1>1, <1>2, <2>2 DEF PageTypes
  <2>3. QED BY <2>1, <2>2
<1>5. /\ reads' = reads \ {r} /\ WorkTypes'
      /\ \A f \in Forms : job'[f] = job[f] \/ job'[f] = None
      /\ \A f \in Forms : job[f] # None /\ job[f].step = "done" => job'[f] = job[f]
  BY <1>2, TakeReadKeeps
<1>6. UNCHANGED <<uses, shown, limit, editing, form, filled, named, roster, books, plans, excused>>
  BY <1>2 DEF server
<1>7. PageTypes' BY <1>1, <1>2, <1>3, <1>4, <1>6 DEF PageTypes
<1>8. ServerTypes' BY <1>1, <1>6 DEF ServerTypes
<1>9. ASSUME NEW part \in Parts, Settled(part)', load' = load PROVE Settled(part)
  <2>1. \A q \in reads : q.part # part BY <1>2, <1>5, <1>9 DEF Settled, Parts
  <2>2. \A f \in Forms : part \in PartsOf(f) => job[f] = None \/ job[f].step # "done"
    BY <1>5, <1>9 DEF Settled
  <2>3. QED BY <1>9, <2>1, <2>2 DEF Settled
<1>10. /\ LoadTypes' /\ ShownOK' /\ LimitIsItsOwn'
       /\ load' # None => Effective' # None /\ \A part \in Parts : load'[part] <= Revision(part, Effective)'
  BY <1>2, <1>3, <1>4, <1>6, <1>9, ReloadKeeps
<1>11. ReadsOK' BY <1>5, <1>6, <1>10 DEF IInv, ReadsOK, Revision
<1>12. JobsOK' BY <1>5, <1>6, JobsStay DEF WorkTypes
<1>13. QED BY <1>5, <1>7, <1>8, <1>10, <1>11, <1>12, Groups DEF IInv

LEMMA ReadFailsKeeps ==
    ASSUME IInv, ReadFails
    PROVE  IInv'
<1>1. PageTypes /\ LoadTypes /\ WorkTypes /\ ServerTypes BY Groups DEF IInv
<1>2. PICK r \in reads :
          /\ reads' = {IF q.by = r.by THEN [q EXCEPT !.by = None] ELSE q : q \in reads \ {r}}
          /\ job' = [f \in Forms |-> IF f = r.by /\ f \in Awaiting THEN None ELSE job[f]]
          /\ listFailed' = (listFailed \/ r.by \in {"mount", "create"})
          /\ asked' = IF r.by = "delete" THEN None ELSE asked
          /\ excused' = excused \cup ({r.part} \cap Parts)
          /\ UNCHANGED <<uses, list, selected, load, shown, limit, editing, form, filled, named, server>>
  BY DEF ReadFails
<1>3. UNCHANGED <<uses, list, selected, load, shown, limit, editing, form, filled, named, roster, books, plans>>
  BY <1>2 DEF server
<1>4. ASSUME NEW q \in reads \ {r}
      PROVE  LET new == IF q.by = r.by THEN [q EXCEPT !.by = None] ELSE q
             IN /\ new \in PartReads \cup ListReads
                /\ new.part = q.part /\ new.of = q.of /\ new.since = q.since
                /\ new.by = IF q.by = r.by THEN None ELSE q.by
  <2>1. q \in PartReads \cup ListReads BY <1>1 DEF WorkTypes
  <2>2. CASE q \in PartReads BY <2>2 DEF PartReads
  <2>3. CASE q \in ListReads BY <2>3 DEF ListReads
  <2>4. QED BY <2>1, <2>2, <2>3
<1>5. ASSUME NEW new \in reads'
      PROVE  /\ new \in PartReads \cup ListReads
             /\ \E q \in reads \ {r} : /\ new.part = q.part /\ new.of = q.of /\ new.since = q.since
                                       /\ new.by = IF q.by = r.by THEN None ELSE q.by
  BY <1>2, <1>4
<1>6. \A q \in reads \ {r} : \E new \in reads' : new.part = q.part BY <1>2, <1>4
<1>7. job' \in [Forms -> Jobs \cup {None}] BY <1>1, <1>2 DEF WorkTypes
<1>8. ASSUME NEW f \in Forms PROVE job'[f] = job[f] \/ job'[f] = None BY <1>2
<1>9. ASSUME NEW f \in Forms, job[f] # None, job[f].step = "done" PROVE job'[f] = job[f]
  <2>1. ~(f = r.by /\ f \in Awaiting) BY <1>1, <1>9 DEF WorkTypes
  <2>2. QED BY <1>2, <2>1
<1>10. ASSUME NEW new \in reads', new.by \in Awaiting
       PROVE  job'[new.by] # None /\ job'[new.by].step = "reading"
  <2>1. PICK q \in reads \ {r} : new.by = IF q.by = r.by THEN None ELSE q.by BY <1>5
  <2>2. q.by # r.by /\ new.by = q.by BY <1>10, <2>1, Numbers DEF Awaiting
  <2>3. job[q.by] # None /\ job[q.by].step = "reading" /\ q.by \in Forms
    BY <1>1, <1>10, <2>2 DEF WorkTypes, Awaiting
  <2>4. QED BY <1>2, <2>2, <2>3
<1>11. WorkTypes' BY <1>5, <1>7, <1>10 DEF WorkTypes
<1>12. PageTypes' BY <1>1, <1>2, <1>3 DEF PageTypes
<1>13. LoadTypes' /\ ServerTypes' BY <1>1, <1>3 DEF LoadTypes, ServerTypes
<1>14. Effective' = Effective BY <1>3 DEF Effective
<1>15. ReadsOK'
  <2>1. ASSUME NEW new \in reads', new.part \in Parts PROVE new.since <= Revision(new.part, new.of)'
    <3>1. PICK q \in reads : new.part = q.part /\ new.of = q.of /\ new.since = q.since BY <1>5
    <3>2. q.since <= Revision(q.part, q.of) BY <2>1, <3>1 DEF IInv, ReadsOK
    <3>3. QED BY <1>3, <3>1, <3>2 DEF Revision
  <2>2. QED BY <1>3, <1>14, <2>1, LoadStays DEF ReadsOK, Revision
<1>16. ASSUME NEW part \in Parts \ excused', Settled(part)' PROVE Settled(part)
  <2>1. part # r.part BY <1>2, <1>16
  <2>2. \A q \in reads : q.part # part BY <1>6, <1>16, <2>1 DEF Settled
  <2>3. \A f \in Forms : part \in PartsOf(f) => job[f] = None \/ job[f].step # "done"
    BY <1>9, <1>16 DEF Settled
  <2>4. QED BY <1>3, <1>16, <2>2, <2>3 DEF Settled
<1>17. ShownOK' BY <1>2, <1>3, <1>14, <1>16, ShownStays
<1>18. LimitIsItsOwn' BY <1>2, <1>3, <1>14, LimitStays
<1>19. JobsOK' BY <1>3, <1>7, <1>8, JobsStay
<1>20. QED BY <1>11, <1>12, <1>13, <1>15, <1>17, <1>18, <1>19, Groups DEF IInv

LEMMA LoadEnds ==
    ASSUME IInv, LoadArrives \/ LoadFails
    PROVE  IInv'
<1>1. PageTypes /\ LoadTypes /\ WorkTypes /\ ServerTypes BY Groups DEF IInv
<1>2. /\ load # None /\ load' = None
      /\ UNCHANGED <<uses, list, listFailed, selected, editing, form, filled, asked, named, job, reads,
                     roster, books, plans>>
  BY DEF LoadArrives, LoadFails, inputs, server
<1>3. PICK p \in Portfolios : p = Effective BY <1>2, Typed DEF IInv, ReadsOK
<1>4. Effective' = Effective BY <1>2 DEF Effective
<1>5. WorkTypes' /\ ServerTypes' BY <1>1, <1>2 DEF WorkTypes, ServerTypes
<1>6. ReadsOK' BY <1>2 DEF IInv, ReadsOK, Revision
<1>7. JobsOK' BY <1>2 DEF IInv, JobsOK
<1>8. /\ PageTypes' /\ LoadTypes' /\ LimitIsItsOwn'
      /\ \A part \in Parts \ excused' : shown'[part] # None /\ shown'[part].of = p
                                        /\ shown'[part].rev = Revision(part, p)
  <2>1. CASE LoadArrives
    <3>1. PICK a \in Answers("positions", p, load["positions"]), b \in Answers("ledger", p, load["ledger"]),
               c \in Answers("strategy", p, load["strategy"]) :
               shown' = [positions |-> a, ledger |-> b, strategy |-> c]
      BY <1>3, <2>1 DEF LoadArrives
    <3>2. limit' = p /\ excused' = {part \in Parts : load[part] # Revision(part, p)}
      BY <1>3, <2>1 DEF LoadArrives
    <3>3. \A part \in Parts : load[part] \in Nat /\ load[part] <= Revision(part, p)
      BY <1>2, <1>3, Typed DEF IInv, ReadsOK
    <3>4. Parts = {"positions", "ledger", "strategy"} BY DEF Parts
    <3>5. /\ a \in Copies /\ a # None /\ a.of = p
          /\ load["positions"] = Revision("positions", p) => a.rev = Revision("positions", p)
      BY <3>3, <3>4, AnswerIs DEF IInv
    <3>6. /\ b \in Copies /\ b # None /\ b.of = p
          /\ load["ledger"] = Revision("ledger", p) => b.rev = Revision("ledger", p)
      BY <3>3, <3>4, AnswerIs DEF IInv
    <3>7. /\ c \in Copies /\ c # None /\ c.of = p
          /\ load["strategy"] = Revision("strategy", p) => c.rev = Revision("strategy", p)
      BY <3>3, <3>4, AnswerIs DEF IInv
    <3>8. shown' \in [Parts -> Copies \cup {None}] BY <3>1, <3>4, <3>5, <3>6, <3>7
    <3>9. shown'["positions"] = a /\ shown'["ledger"] = b /\ shown'["strategy"] = c BY <3>1
    <3>10. \A part \in Parts \ excused' : shown'[part] # None /\ shown'[part].of = p
                                          /\ shown'[part].rev = Revision(part, p)
      BY <3>2, <3>4, <3>5, <3>6, <3>7, <3>9
    <3>11. PageTypes' BY <1>1, <1>2, <3>2 DEF PageTypes
    <3>12. LimitIsItsOwn' BY <1>3, <1>4, <3>2 DEF LimitIsItsOwn
    <3>13. QED BY <1>2, <3>8, <3>10, <3>11, <3>12 DEF LoadTypes
  <2>2. CASE LoadFails
    <3>1. excused' = Parts /\ UNCHANGED <<shown, limit>> BY <2>2 DEF LoadFails, inputs
    <3>2. PageTypes' /\ LoadTypes' BY <1>1, <1>2, <3>1 DEF PageTypes, LoadTypes
    <3>3. LimitIsItsOwn' BY <3>1 DEF LimitIsItsOwn, Parts
    <3>4. QED BY <3>1, <3>2, <3>3
  <2>3. QED BY <2>1, <2>2
<1>9. ShownOK' BY <1>2, <1>3, <1>4, <1>8 DEF ShownOK, Revision
<1>10. QED BY <1>5, <1>6, <1>7, <1>8, <1>9, Groups DEF IInv

-----------------------------------------------------------------------------
(* The invariant.                                                          *)

LEMMA InitHolds == Init => IInv
<1> SUFFICES ASSUME Init PROVE IInv OBVIOUS
<1>1. PageTypes
  <2>1. uses \subseteq Forms BY DEF Init
  <2>2. 0 \in 0..MaxTrades BY Numbers
  <2>3. QED BY <2>1, <2>2 DEF Init, PageTypes
<1>2. LoadTypes BY DEF Init, LoadTypes
<1>3. PICK r : r = ListRead("mount") OBVIOUS
<1>4. Len(roster) = 1 /\ roster \in Seq(SUBSET Portfolios) \ {<<>>}
  <2>1. PICK set : set = 1..Existing OBVIOUS
  <2>2. set \in SUBSET Portfolios BY <2>1, Numbers DEF Portfolios
  <2>3. roster = <<set>> BY <2>1 DEF Init
  <2>4. QED BY <2>2, <2>3
<1>5. r \in ListReads /\ r.by = "mount" /\ r.part = "list" BY <1>3, <1>4 DEF ListRead, ListReads
<1>6. reads = {r} /\ job = [f \in Forms |-> None] BY <1>3 DEF Init
<1>7. WorkTypes BY <1>5, <1>6 DEF WorkTypes, Awaiting, Forms
<1>8. ServerTypes
  <2>1. 0 \in 0..MaxSaves BY Numbers
  <2>2. books \in [Portfolios -> SUBSET Trades] /\ plans \in [Portfolios -> 0..MaxSaves] BY <2>1 DEF Init
  <2>3. QED BY <1>4, <2>2 DEF ServerTypes
<1>9. JobsOK BY <1>6 DEF JobsOK, Forms
<1>10. ReadsOK BY <1>5, <1>6 DEF Init, ReadsOK, Parts
<1>11. Effective = None BY DEF Init, Effective
<1>12. QED BY <1>1, <1>2, <1>7, <1>8, <1>9, <1>10, <1>11, Groups DEF IInv, ShownOK, LimitIsItsOwn

LEMMA NextKeeps == IInv /\ [Next]_vars => IInv'
<1> SUFFICES ASSUME IInv, [Next]_vars PROVE IInv' OBVIOUS
<1>1. CASE \E p \in Portfolios : Select(p) BY <1>1, SelectKeeps
<1>2. CASE FillTrade \/ TypeLimit \/ EditThesis \/ AskDelete \/ CancelDelete BY <1>2, FillingKeeps
<1>3. CASE RecordTrade \/ SaveWeightRule \/ SaveThesis \/ CreatePortfolio \/ ConfirmDelete BY <1>3, SendsKeep
<1>4. CASE \E f \in Forms : Serve(f) \/ Answered(f) \/ Fails(f)
  BY <1>4, ServeKeeps, AnsweredKeeps, FailsKeeps
<1>5. CASE PartArrives \/ ListArrives \/ ReadFails BY <1>5, PartArrivesKeeps, ListArrivesKeeps, ReadFailsKeeps
<1>6. CASE LoadArrives \/ LoadFails BY <1>6, LoadEnds
<1>7. CASE UNCHANGED vars
  <2>1. UNCHANGED <<uses, list, listFailed, selected, load, shown, limit, editing, form, filled, asked, named,
                    job, reads, roster, books, plans, excused>>
    BY <1>7 DEF vars, inputs, server
  <2>2. PageTypes' /\ LoadTypes' /\ WorkTypes' /\ ServerTypes'
    BY <2>1, Groups DEF IInv, PageTypes, LoadTypes, WorkTypes, ServerTypes
  <2>3. Effective' = Effective BY <2>1 DEF Effective
  <2>4. ReadsOK' BY <2>1, <2>3, LoadStays DEF IInv, ReadsOK, Revision
  <2>5. \A part \in Parts : Settled(part)' => Settled(part) BY <2>1 DEF Settled
  <2>6. ShownOK' /\ LimitIsItsOwn' BY <2>1, <2>3, <2>5, ShownStays, LimitStays
  <2>7. JobsOK' BY <2>1 DEF IInv, JobsOK
  <2>8. QED BY <2>2, <2>4, <2>6, <2>7, Groups DEF IInv
<1>8. QED BY <1>1, <1>2, <1>3, <1>4, <1>5, <1>6, <1>7 DEF Next

-----------------------------------------------------------------------------
(* Theorems.                                                               *)

\* The invariant holds of every state the page and the user's portfolios can be in.
THEOREM Invariance == Spec => []IInv
<1>1. Init => IInv BY InitHolds
<1>2. IInv /\ [Next]_vars => IInv' BY NextKeeps
<1>3. QED BY <1>1, <1>2, PTL DEF Spec

\* What the variables hold is of its type; in particular no form saves a strategy more
\* often than its bound, however sending and failing alternate.
THEOREM TypesHold == Spec => []TypeOK
<1>1. IInv => TypeOK BY DEF IInv
<1>2. QED BY <1>1, Invariance, PTL

\* Whatever the user selects and whichever answers come late or fail: once the requests for
\* a part are over, the page shows that part of the selected portfolio as the server has it,
\* and the limit in the form is the selected portfolio's, unless the last answer is excused.
THEOREM PageIsOfSelected == Spec => []PageOfSelected
<1>1. IInv => PageOfSelected
  <2> SUFFICES ASSUME IInv PROVE PartsAreCurrent /\ LimitIsItsOwn BY DEF PageOfSelected
  <2>1. ASSUME NEW part \in Parts \ excused, AtRest(part), Effective # None
        PROVE  RowsShown(part) = Revision(part, Effective)
    <3>1. Settled(part) BY <2>1 DEF AtRest, Settled
    <3>2. /\ shown[part] # None
          /\ shown[part].of = Effective /\ shown[part].rev = Revision(part, Effective)
      BY <2>1, <3>1 DEF IInv, ShownOK
    <3>3. QED BY <3>2 DEF RowsShown
  <2>2. QED BY <2>1 DEF PartsAreCurrent, IInv
<1>2. QED BY <1>1, Invariance, PTL
================================================================================
