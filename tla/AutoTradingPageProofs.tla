------------------------ MODULE AutoTradingPageProofs ------------------------
(***************************************************************************)
(* Proofs about AutoTradingPage, for any number of runs, revisions, keys   *)
(* and commands.                                                           *)
(*                                                                         *)
(* The argument: a key that a form keeps is that of the wish it was drawn  *)
(* for (KeysOK).  A poll that is still of the current generation was asked *)
(* after everything shown, and no command of the page is on its way then   *)
(* (PollOK); every command or new run makes the polls before it stale.  So *)
(* what a poll brings is the newest, and between two commands nothing but  *)
(* the workbench's new run can come in between (AnswerOK, JournalOK).      *)
(***************************************************************************)
EXTENDS AutoTradingPage, FiniteSetTheorems, TLAPS

-----------------------------------------------------------------------------
(* The inductive invariant.                                                *)

\* Runs are numbered in the order of their creation.
RunsAreFirst(n) == \A r \in Runs : rev[r] # 0 <=> r <= n

Exists(r) == r \in Runs /\ rev[r] # 0

\* Page and workbench send their own commands, a control is of a run that exists.
CommandOK(p) ==
    command[p] # None =>
        /\ command[p].form \in Forms => PartOf(command[p].form) = p /\ command[p].key \in Keys
        /\ command[p].form = "control" => p = "page" /\ Exists(command[p].id)
        /\ command[p].form = "save" => command[p].answer \notin RunStates
        /\ command[p].answer \in RunStates =>
              /\ command[p].answer.rev <= rev[command[p].answer.id]
              /\ command[p].form = "control" => command[p].answer.id = command[p].id

CommandsOK ==
    /\ Numbered <= MaxCommands
    /\ \A p \in Parts : CommandOK(p)

\* A form keeps the key of its wish, and only keys drawn can have an effect.
KeysOK ==
    /\ \A f \in Forms : pending[f] = wish[f]
    /\ \A k \in Keys : wishOf[k] \in {0, k}
    /\ \A k \in Keys : runOf[k] # 0 \/ k \in saved => wishOf[k] # 0
    /\ \A s \in stray : wishOf[s[2]] # 0
    /\ \A p \in Parts : command[p] # None /\ command[p].form \in Forms => wishOf[command[p].key] # 0

ServerOK ==
    /\ \E n \in 0..MaxRuns : RunsAreFirst(n)
    /\ \A k \in Keys : runOf[k] # 0 => Exists(runOf[k])

\* What the page shows exists, and in no later state than the server has.
ViewOK ==
    /\ \A r \in listed : Exists(r)
    /\ selected # None => Exists(selected)
    /\ polled # None => Exists(polled)
    /\ detail # None => detail.rev <= rev[detail.id]

\* A poll that will be taken was asked after all that is shown; none is while the page
\* has a command on its way.
PollOK ==
    poll # None =>
        /\ poll.stamp <= generation
        /\ poll.list # None => \A r \in 1..poll.list : Exists(r)
        /\ poll.rev # None => poll.list # None /\ polled # None /\ poll.rev <= rev[polled]
        /\ poll.stamp = generation =>
              /\ ~Busy("page")
              /\ poll.list # None => listed \subseteq 1..poll.list
              /\ poll.rev # None /\ detail # None /\ detail.id = polled => detail.rev <= poll.rev

\* The answer to the page's command is the newest, unless it was crossed.
AnswerOK ==
    /\ crossed => Busy("page")
    /\ Busy("page") /\ command["page"].answer \in RunStates /\ ~crossed
       /\ detail # None /\ detail.id = command["page"].answer.id
       => detail.rev <= command["page"].answer.rev

\* A control leaves the journal of the run selected.
JournalOK ==
    /\ JournalOfShownRun
    /\ Busy("page") /\ command["page"].form = "control" /\ detail # None =>
          detail.journalOf = selected

IInv == /\ TypeOK /\ CommandsOK /\ KeysOK /\ ServerOK
        /\ ViewOK /\ PollOK /\ AnswerOK /\ JournalOK

-----------------------------------------------------------------------------
(* What the steps do.                                                      *)

\* What the types say of single values.
LEMMA Typed ==
    ASSUME IInv
    PROVE  /\ generation \in Nat /\ MaxCommands \in Nat /\ MaxRuns \in Nat \ {0} /\ MaxRev \in Nat \ {0}
           /\ \A r \in Runs : r \in Nat \ {0} /\ rev[r] \in 0..MaxRev /\ rev[r] \in Nat
           /\ \A p \in Parts : command[p] # None => command[p] \in Commands
           /\ poll # None => poll \in Polls /\ poll.stamp \in Nat
           /\ detail # None => detail \in Details /\ detail.id \in Runs /\ detail.rev \in Nat \ {0}
           /\ \A a \in RunStates : a.id \in Runs /\ a.rev \in 1..MaxRev /\ a.rev \in Nat
           /\ None \notin Runs /\ None \notin Details /\ None \notin Polls /\ None \notin Commands
           /\ None \notin RunStates /\ Saved \notin RunStates /\ Refused \notin RunStates
<1>1. \A r \in Runs : r \in Nat \ {0} BY PageAssumption DEF Runs
<1>2. \A r \in Runs : rev[r] \in 0..MaxRev /\ rev[r] \in Nat BY PageAssumption DEF IInv, TypeOK
<1>3. generation \in Nat /\ MaxCommands \in Nat /\ MaxRuns \in Nat \ {0} /\ MaxRev \in Nat \ {0}
  BY PageAssumption DEF IInv, TypeOK
<1>4. None \notin Runs /\ None \notin Details /\ None \notin Polls /\ None \notin Commands
  BY <1>1, PageAssumption
<1>5. None \notin RunStates /\ Saved \notin RunStates /\ Refused \notin RunStates
  BY PageAssumption
<1>6. \A p \in Parts : command[p] # None => command[p] \in Commands BY DEF IInv, TypeOK
<1>7. poll # None => poll \in Polls /\ poll.stamp \in Nat
  BY <1>3 DEF IInv, TypeOK, Polls
<1>8. detail # None => detail \in Details /\ detail.id \in Runs /\ detail.rev \in Nat \ {0}
  BY <1>3 DEF IInv, TypeOK, Details
<1>9. \A a \in RunStates : a.id \in Runs /\ a.rev \in 1..MaxRev /\ a.rev \in Nat
  BY <1>3 DEF RunStates
<1>10. QED BY <1>1, <1>2, <1>3, <1>4, <1>5, <1>6, <1>7, <1>8, <1>9

\* The number of runs is the number of the last.
LEMMA ExistingIs ==
    ASSUME IInv, NEW n \in 0..MaxRuns, RunsAreFirst(n)
    PROVE  Existing = n
<1>1. {r \in Runs : rev[r] # 0} = 1..n
  BY PageAssumption DEF RunsAreFirst, Runs
<1>2. IsFiniteSet(1..n) /\ Cardinality(1..n) = n
  BY FS_Interval
<1>3. QED BY <1>1, <1>2 DEF Existing

\* The server only adds runs and states; keys in used may have had an effect.
Grows(used) ==
    /\ rev' \in [Runs -> 0..MaxRev]
    /\ runOf' \in [Keys -> 0..MaxRuns]
    /\ saved' \subseteq Keys
    /\ \A r \in Runs : rev[r] <= rev'[r]
    /\ \E n \in 0..MaxRuns : \A r \in Runs : rev'[r] # 0 <=> r <= n
    /\ \A k \in Keys : runOf'[k] # 0 => runOf'[k] \in Runs /\ rev'[runOf'[k]] # 0
    /\ \A k \in Keys : runOf'[k] # 0 \/ k \in saved' => runOf[k] # 0 \/ k \in saved \/ k \in used

\* A request that is not refused makes its run or strategy, or finds it made.
LEMMA MakeGrows ==
    ASSUME IInv, NEW form \in Forms, NEW k \in Keys, NEW a, Make(form, k, a)
    PROVE  /\ Grows({k})
           /\ \/ form = "save" /\ a = Saved
              \/ form # "save" /\ a \in RunStates /\ a.rev = rev'[a.id]
<1>1. /\ rev \in [Runs -> 0..MaxRev] /\ runOf \in [Keys -> 0..MaxRuns] /\ saved \subseteq Keys
      /\ \A r \in Runs : rev[r] \in Nat
  BY Typed DEF IInv, TypeOK
<1>2. PICK n \in 0..MaxRuns : \A r \in Runs : rev[r] # 0 <=> r <= n
  BY DEF IInv, ServerOK, RunsAreFirst
<1>3. \A j \in Keys : runOf[j] # 0 => runOf[j] \in Runs /\ rev[runOf[j]] # 0
  BY DEF IInv, ServerOK, Exists
<1>4. CASE form = "save" /\ saved' = saved \cup {k} /\ a = Saved /\ UNCHANGED <<rev, runOf>>
  BY <1>1, <1>2, <1>3, <1>4 DEF Grows
<1>5. CASE /\ form # "save" /\ runOf[k] # 0
           /\ a = [id |-> runOf[k], rev |-> rev[runOf[k]]] /\ UNCHANGED <<rev, runOf, saved>>
  <2>1. Grows({k}) BY <1>1, <1>2, <1>3, <1>5 DEF Grows
  <2>2. PICK r \in Runs : r = runOf[k] BY <1>3, <1>5
  <2>3. rev[r] \in 1..MaxRev BY <1>1, <1>3, <1>5, <2>2
  <2>4. a = [id |-> r, rev |-> rev[r]] /\ rev' = rev BY <1>5, <2>2
  <2>5. a \in RunStates /\ a.rev = rev'[a.id] BY <2>3, <2>4 DEF RunStates
  <2>6. QED BY <1>5, <2>1, <2>5
<1>6. CASE /\ form # "save" /\ runOf[k] = 0 /\ Existing < MaxRuns
           /\ runOf' = [runOf EXCEPT ![k] = Existing + 1]
           /\ rev' = [rev EXCEPT ![Existing + 1] = 1]
           /\ a = [id |-> Existing + 1, rev |-> 1]
           /\ UNCHANGED saved
  <2>1. Existing = n BY <1>2, ExistingIs DEF RunsAreFirst
  <2>2. n + 1 \in Runs /\ n + 1 \in 0..MaxRuns BY <1>6, <2>1, Typed DEF Runs
  <2>3. PICK m \in Runs : m = n + 1 BY <2>2
  <2>4. rev' = [rev EXCEPT ![m] = 1] /\ runOf' = [runOf EXCEPT ![k] = m] /\ a = [id |-> m, rev |-> 1]
    BY <1>6, <2>1, <2>3
  <2>5. 1 \in 0..MaxRev /\ 1 \in 1..MaxRev /\ m \in 0..MaxRuns /\ m \in Nat \ {0} /\ n \in Nat
    BY PageAssumption, <2>2, <2>3 DEF Runs
  <2>6. rev' \in [Runs -> 0..MaxRev] /\ runOf' \in [Keys -> 0..MaxRuns] BY <1>1, <2>4, <2>5
  <2>7. \A r \in Runs : rev'[r] = IF r = m THEN 1 ELSE rev[r] BY <1>1, <2>4
  <2>8. \A j \in Keys : runOf'[j] = IF j = k THEN m ELSE runOf[j] BY <1>1, <2>4
  <2>9. rev[m] = 0 BY <1>1, <1>2, <2>3, <2>5
  <2>10. \A r \in Runs : rev[r] <= rev'[r] BY <1>1, <2>7, <2>9
  <2>11. \A r \in Runs : r \in Nat BY DEF Runs
  <2>12. \A r \in Runs : rev'[r] # 0 <=> r <= m
    BY <1>2, <2>3, <2>5, <2>7, <2>11
  <2>13. \A j \in Keys : runOf'[j] # 0 => runOf'[j] \in Runs /\ rev'[runOf'[j]] # 0
    BY <1>3, <2>7, <2>8
  <2>14. Grows({k})
    BY <1>1, <1>6, <2>5, <2>6, <2>8, <2>10, <2>12, <2>13 DEF Grows
  <2>15. a \in RunStates /\ a.rev = rev'[a.id] BY <2>4, <2>5, <2>7 DEF RunStates
  <2>16. QED BY <1>6, <2>14, <2>15
<1>7. QED BY <1>4, <1>5, <1>6 DEF Make

\* A run goes on to its next state.
LEMMA NextStateGrows ==
    ASSUME IInv, NEW r \in Runs, rev[r] # 0, rev[r] < MaxRev,
           rev' = [rev EXCEPT ![r] = @ + 1], UNCHANGED <<runOf, saved>>
    PROVE  Grows({}) /\ rev[r] + 1 \in 1..MaxRev /\ rev'[r] = rev[r] + 1
<1>1. /\ rev \in [Runs -> 0..MaxRev] /\ runOf \in [Keys -> 0..MaxRuns] /\ saved \subseteq Keys
      /\ \A q \in Runs : rev[q] \in Nat
  BY Typed DEF IInv, TypeOK
<1>2. rev[r] + 1 \in 1..MaxRev /\ rev[r] + 1 \in 0..MaxRev BY <1>1, Typed
<1>3. \A q \in Runs : rev'[q] = IF q = r THEN rev[r] + 1 ELSE rev[q] BY <1>1
<1>4. rev' \in [Runs -> 0..MaxRev] BY <1>1, <1>2
<1>5. \A q \in Runs : rev[q] <= rev'[q] /\ (rev'[q] # 0 <=> rev[q] # 0) BY <1>1, <1>3
<1>6. PICK n \in 0..MaxRuns : \A q \in Runs : rev[q] # 0 <=> q <= n
  BY DEF IInv, ServerOK, RunsAreFirst
<1>7. \A k \in Keys : runOf[k] # 0 => runOf[k] \in Runs /\ rev[runOf[k]] # 0
  BY DEF IInv, ServerOK, Exists
<1>8. QED BY <1>1, <1>2, <1>3, <1>4, <1>5, <1>6, <1>7 DEF Grows

\* What serving a command does.
LEMMA ServeEffect ==
    ASSUME IInv, NEW p \in Parts, Serve(p)
    PROVE  /\ command[p] # None /\ command[p] \in Commands
           /\ \E a \in Answers, d \in Commands :
                 /\ a # None
                 /\ d.form = command[p].form /\ d.key = command[p].key /\ d.id = command[p].id
                 /\ d.answer = a /\ command' = [command EXCEPT ![p] = d]
                 /\ Grows(IF command[p].form \in Forms THEN {command[p].key} ELSE {})
                 /\ a \in RunStates => /\ a.rev = rev'[a.id] /\ d.form # "save"
                                       /\ d.form = "control" => a.id = d.id
           /\ UNCHANGED <<view, poll, generation, pending, stray, history>>
<1>1. PICK c : c = command[p] OBVIOUS
<1>2. c # None /\ c \in Commands BY <1>1, Typed DEF Serve
<1>3. PICK a \in NewAnswers :
        /\ \/ c.form \in Forms /\ a # Refused /\ Make(c.form, c.key, a)
           \/ /\ c.form \in Forms
              /\ a = Refused
              /\ UNCHANGED <<rev, runOf, saved>>
           \/ /\ c.form = "control"
              /\ rev[c.id] < MaxRev
              /\ rev' = [rev EXCEPT ![c.id] = @ + 1]
              /\ a = [id |-> c.id, rev |-> rev[c.id] + 1]
              /\ UNCHANGED <<runOf, saved>>
           \/ c.form = "control" /\ a = Refused /\ UNCHANGED <<rev, runOf, saved>>
        /\ command' = [command EXCEPT ![p].answer = a]
  BY <1>1 DEF Serve
<1>4. PICK d : d = [c EXCEPT !.answer = a] OBVIOUS
<1>5. /\ d \in Commands /\ d.answer = a
      /\ d.form = c.form /\ d.key = c.key /\ d.id = c.id
  BY <1>2, <1>4 DEF Commands, NewAnswers
<1>6. command' = [command EXCEPT ![p] = d] BY <1>1, <1>3, <1>4
<1>7. ASSUME UNCHANGED <<rev, runOf, saved>>, NEW used PROVE Grows(used)
  <2>1. rev \in [Runs -> 0..MaxRev] /\ runOf \in [Keys -> 0..MaxRuns] /\ saved \subseteq Keys
        /\ \A r \in Runs : rev[r] \in Nat
    BY Typed DEF IInv, TypeOK
  <2>2. /\ \E n \in 0..MaxRuns : \A r \in Runs : rev[r] # 0 <=> r <= n
        /\ \A k \in Keys : runOf[k] # 0 => runOf[k] \in Runs /\ rev[runOf[k]] # 0
    BY DEF IInv, ServerOK, RunsAreFirst, Exists
  <2>3. QED BY <1>7, <2>1, <2>2 DEF Grows
<1>8. /\ Grows(IF c.form \in Forms THEN {c.key} ELSE {})
      /\ a \in RunStates => /\ a.rev = rev'[a.id] /\ d.form # "save"
                            /\ d.form = "control" => a.id = d.id
  <2>1. CASE c.form \in Forms /\ Make(c.form, c.key, a)
    <3>1. c.key \in Keys BY <1>1, <1>2, <2>1 DEF IInv, CommandsOK, CommandOK
    <3>2. Grows({c.key}) /\ (\/ c.form = "save" /\ a = Saved
                             \/ c.form # "save" /\ a \in RunStates /\ a.rev = rev'[a.id])
      BY <2>1, <3>1, MakeGrows
    <3>3. c.form # "control" BY <2>1 DEF Forms
    <3>4. QED BY <1>5, <2>1, <3>2, <3>3, Typed
  <2>2. CASE a = Refused /\ UNCHANGED <<rev, runOf, saved>>
    BY <1>7, <2>2, Typed
  <2>3. CASE /\ c.form = "control"
             /\ rev[c.id] < MaxRev
             /\ rev' = [rev EXCEPT ![c.id] = @ + 1]
             /\ a = [id |-> c.id, rev |-> rev[c.id] + 1]
             /\ UNCHANGED <<runOf, saved>>
    <3>1. PICK r \in Runs : r = c.id BY <1>1, <1>2, <2>3 DEF IInv, CommandsOK, CommandOK, Exists
    <3>2. rev[r] # 0 BY <1>1, <1>2, <2>3, <3>1 DEF IInv, CommandsOK, CommandOK, Exists
    <3>3. rev' = [rev EXCEPT ![r] = @ + 1] /\ rev[r] < MaxRev BY <2>3, <3>1
    <3>4. Grows({}) /\ rev'[r] = rev[r] + 1 BY <2>3, <3>2, <3>3, NextStateGrows
    <3>5. a.id = r /\ a.rev = rev[r] + 1 BY <2>3, <3>1
    <3>6. c.form \notin Forms /\ c.form # "save" BY <2>3 DEF Forms
    <3>7. QED BY <1>5, <3>1, <3>4, <3>5, <3>6
  <2>4. QED BY <1>3, <2>1, <2>2, <2>3
<1>9. UNCHANGED <<view, poll, generation, pending, stray, history>> BY DEF Serve, history
<1>10. a \in Answers /\ a # None BY <1>3 DEF NewAnswers
<1>11. QED BY <1>1, <1>2, <1>5, <1>6, <1>8, <1>9, <1>10

\* What pressing a button of a form does.
LEMMA PressEffect ==
    ASSUME IInv, NEW f \in Forms, Press(f)
    PROVE  /\ PartOf(f) \in Parts /\ command[PartOf(f)] = None
           /\ Numbered < MaxCommands
           /\ \E k \in Keys, d \in Commands :
                 /\ d.form = f /\ d.key = k /\ d.answer = None
                 /\ command' = [command EXCEPT ![PartOf(f)] = d]
                 /\ pending' = [pending EXCEPT ![f] = k]
                 /\ wish' = [wish EXCEPT ![f] = k]
                 /\ wishOf' \in [Keys -> 0..MaxKeys]
                 /\ \A j \in Keys : wishOf'[j] = IF j = k /\ wishOf[k] = 0 THEN k ELSE wishOf[j]
           /\ generation' = IF f = "create" THEN generation + 1 ELSE generation
           /\ UNCHANGED <<view, poll, server, crossed>>
<1>1. PICK k : k = KeyFor(f) OBVIOUS
<1>2. PICK first : first = (IF wish[f] = 0 THEN k ELSE wish[f]) OBVIOUS
<1>3. /\ k \in Keys
      /\ command' = [command EXCEPT ![PartOf(f)] = [form |-> f, key |-> k, id |-> 0, answer |-> None]]
      /\ pending' = [pending EXCEPT ![f] = k]
      /\ wish' = [wish EXCEPT ![f] = first]
      /\ wishOf' = [wishOf EXCEPT ![k] = IF @ = 0 THEN first ELSE @]
  BY <1>1, <1>2 DEF Press
<1>4. first = k BY <1>1, <1>2 DEF KeyFor, IInv, KeysOK
<1>5. PICK d : d = [form |-> f, key |-> k, id |-> 0, answer |-> None] OBVIOUS
<1>6. d \in Commands /\ d.form = f /\ d.key = k /\ d.answer = None
  BY <1>3, <1>5, PageAssumption DEF Commands, Answers, Keys
<1>7. /\ k \in 0..MaxKeys /\ wishOf \in [Keys -> 0..MaxKeys]
  BY <1>3, PageAssumption DEF Keys, IInv, TypeOK
<1>8. \A j \in Keys : wishOf'[j] = IF j = k /\ wishOf[k] = 0 THEN k ELSE wishOf[j]
  BY <1>3, <1>4, <1>7
<1>9. wishOf' \in [Keys -> 0..MaxKeys] BY <1>3, <1>4, <1>7
<1>10. PartOf(f) \in Parts /\ command[PartOf(f)] = None /\ Numbered < MaxCommands
  BY DEF Press, CanPress, Busy, PartOf, Parts
<1>11. /\ generation' = IF f = "create" THEN generation + 1 ELSE generation
       /\ UNCHANGED <<view, poll, server, crossed>>
  BY DEF Press, Bump
<1>12. QED BY <1>3, <1>4, <1>5, <1>6, <1>8, <1>9, <1>10, <1>11

\* What a control does.
LEMMA ControlEffect ==
    ASSUME IInv, Control
    PROVE  /\ command["page"] = None /\ Numbered < MaxCommands
           /\ detail # None /\ detail.id = selected /\ selected \in Runs
           /\ \E d \in Commands :
                 /\ d.form = "control" /\ d.id = selected /\ d.answer = None
                 /\ command' = [command EXCEPT !["page"] = d]
           /\ generation' = generation + 1
           /\ UNCHANGED <<view, poll, pending, server, history>>
<1>1. detail # None /\ detail.id = selected BY DEF Control, Shown
<1>2. PICK r \in Runs : r = selected BY <1>1, Typed
<1>3. PICK d : d = [form |-> "control", key |-> 0, id |-> r, answer |-> None] OBVIOUS
<1>4. d \in Commands /\ d.form = "control" /\ d.id = r /\ d.answer = None
  BY <1>3, PageAssumption DEF Commands, Answers, Runs
<1>5. command' = [command EXCEPT !["page"] = d] BY <1>2, <1>3 DEF Control
<1>6. QED BY <1>1, <1>2, <1>4, <1>5 DEF Control, Bump, Busy

\* What an answer does: nothing to the view, or a control's, or a new run's.
LEMMA AnsweredEffect ==
    ASSUME IInv, NEW p \in Parts, Answered(p), NEW c, c = command[p]
    PROVE  /\ c # None /\ c \in Commands /\ c.answer # None
           /\ command' = [command EXCEPT ![p] = None]
           /\ \/ UNCHANGED <<selected, detail, listed>>
              \/ /\ c.form = "control" /\ p = "page" /\ c.answer \in RunStates
                 /\ UNCHANGED <<selected, listed>>
                 /\ \/ detail = None /\ detail' = None
                    \/ /\ detail # None /\ detail' \in Details
                       /\ detail'.id = c.answer.id /\ detail'.rev = c.answer.rev
                       /\ detail'.journalOf = detail.journalOf
              \/ /\ c.form \in {"create", "start"} /\ c.answer \in RunStates
                 /\ selected' = c.answer.id /\ listed' = listed \cup {c.answer.id}
                 /\ detail' \in Details
                 /\ detail'.id = c.answer.id /\ detail'.rev = c.answer.rev
                 /\ detail'.journalOf = c.answer.id
           /\ \/ c.form = "start" /\ generation' = generation + 1 /\ crossed' = Busy("page")
              \/ /\ c.form = "start" => UNCHANGED <<selected, detail, listed>>
                 /\ generation' = generation /\ crossed' = (crossed /\ p # "page")
           /\ \A f \in Forms : pending'[f] = (IF f = c.form THEN 0 ELSE pending[f])
                               /\ wish'[f] = (IF f = c.form THEN 0 ELSE wish[f])
           /\ pending' \in [Forms -> 0..MaxKeys] /\ wish' \in [Forms -> 0..MaxKeys]
           /\ UNCHANGED <<polled, poll, server, wishOf>>
<1>1. c # None /\ c \in Commands /\ c.answer # None BY Typed DEF Answered
<1>2. /\ command' = [command EXCEPT ![p] = None]
      /\ UNCHANGED <<polled, poll, server, wishOf>>
  BY DEF Answered
<1>3. c.answer \in {Saved, Refused} \/ c.answer \in RunStates
  BY <1>1 DEF Commands, Answers
<1>4. \/ UNCHANGED <<selected, detail, listed>>
      \/ /\ c.form = "control" /\ p = "page" /\ c.answer \in RunStates
         /\ UNCHANGED <<selected, listed>>
         /\ \/ detail = None /\ detail' = None
            \/ /\ detail # None /\ detail' \in Details
               /\ detail'.id = c.answer.id /\ detail'.rev = c.answer.rev
               /\ detail'.journalOf = detail.journalOf
      \/ /\ c.form \in {"create", "start"} /\ c.answer \in RunStates
         /\ selected' = c.answer.id /\ listed' = listed \cup {c.answer.id}
         /\ detail' \in Details
         /\ detail'.id = c.answer.id /\ detail'.rev = c.answer.rev
         /\ detail'.journalOf = c.answer.id
  <2>1. CASE c.answer \in {Saved, Refused} BY <2>1 DEF Answered
  <2>2. CASE c.answer \in RunStates /\ c.form = "control"
    <3>1. ShowControlled(c.answer) /\ p = "page"
      BY <1>1, <2>2, Typed DEF Answered, IInv, CommandsOK, CommandOK
    <3>2. CASE detail = None BY <2>2, <3>1, <3>2 DEF ShowControlled
    <3>3. CASE detail # None
      <4>1. PICK a \in RunStates : a = c.answer BY <2>2
      <4>2. detail' = [detail EXCEPT !.id = a.id, !.rev = a.rev] BY <3>1, <3>3, <4>1 DEF ShowControlled
      <4>3. detail \in Details /\ a.id \in Runs /\ a.rev \in 1..MaxRev BY <3>3, Typed
      <4>4. /\ detail' \in Details /\ detail'.id = a.id /\ detail'.rev = a.rev
            /\ detail'.journalOf = detail.journalOf
        BY <4>2, <4>3 DEF Details
      <4>5. QED BY <2>2, <3>1, <3>3, <4>1, <4>4 DEF ShowControlled
    <3>4. QED BY <3>2, <3>3
  <2>3. CASE c.answer \in RunStates /\ c.form # "control"
    <3>1. ShowNew(c.answer) BY <2>3, Typed DEF Answered
    <3>2. c.form \in {"create", "start"} BY <1>1, <2>3 DEF Commands, Forms, IInv, CommandsOK, CommandOK
    <3>3. PICK a \in RunStates : a = c.answer BY <2>3
    <3>4. a.id \in Runs /\ a.rev \in 1..MaxRev BY Typed
    <3>5. detail' = [id |-> a.id, rev |-> a.rev, journalOf |-> a.id] BY <3>1, <3>3 DEF ShowNew
    <3>6. detail' \in Details /\ detail'.id = a.id /\ detail'.rev = a.rev /\ detail'.journalOf = a.id
      BY <3>4, <3>5 DEF Details
    <3>7. QED BY <2>3, <3>1, <3>2, <3>3, <3>6 DEF ShowNew
  <2>4. QED BY <1>3, <2>1, <2>2, <2>3
<1>5. \/ c.form = "start" /\ generation' = generation + 1 /\ crossed' = Busy("page")
      \/ /\ c.form = "start" => UNCHANGED <<selected, detail, listed>>
         /\ generation' = generation /\ crossed' = (crossed /\ p # "page")
  BY DEF Answered, Bump
<1>6. pending \in [Forms -> 0..MaxKeys] /\ wish \in [Forms -> 0..MaxKeys] /\ 0 \in 0..MaxKeys
  BY PageAssumption DEF IInv, TypeOK
<1>7. /\ pending' = IF c.form \in Forms THEN [pending EXCEPT ![c.form] = 0] ELSE pending
      /\ wish' = IF c.form \in Forms THEN [wish EXCEPT ![c.form] = 0] ELSE wish
  BY <1>1 DEF Answered, Forget, OutcomeKnown, Told
<1>8. QED BY <1>1, <1>2, <1>4, <1>5, <1>6, <1>7

\* What a failure does.
LEMMA FailedEffect ==
    ASSUME IInv, NEW p \in Parts, Failed(p), NEW c, c = command[p]
    PROVE  /\ c # None /\ c \in Commands
           /\ command' = [command EXCEPT ![p] = None]
           /\ \A s \in stray' : s \in stray \/ (c.form \in Forms /\ c.key \in Keys /\ s = <<c.form, c.key>>)
           /\ crossed' = (crossed /\ p # "page")
           /\ UNCHANGED <<view, poll, generation, pending, rev, runOf, saved, wish, wishOf>>
<1>1. c # None /\ c \in Commands BY Typed DEF Failed
<1>2. PICK d : d = [c EXCEPT !.answer = None] OBVIOUS
<1>3. d.form = c.form /\ d.answer = None BY <1>1, <1>2 DEF Commands
<1>4. pending' = pending BY <1>2, <1>3 DEF Failed, Forget, OutcomeKnown
<1>5. c.form \in Forms => c.key \in Keys BY <1>1 DEF IInv, CommandsOK, CommandOK
<1>6. \A s \in stray' : s \in stray \/ (c.form \in Forms /\ s = <<c.form, c.key>>)
  BY DEF Failed
<1>7. QED BY <1>1, <1>4, <1>5, <1>6 DEF Failed

\* What serving a stray request does.
LEMMA StrayEffect ==
    ASSUME IInv, ServeStray
    PROVE  /\ \E k \in Keys : Grows({k}) /\ wishOf[k] # 0
           /\ stray' \subseteq stray
           /\ UNCHANGED <<view, poll, generation, pending, command, history>>
<1>1. PICK s \in stray, a \in NewAnswers : Make(s[1], s[2], a) /\ stray' = stray \ {s}
  BY DEF ServeStray
<1>2. s[1] \in Forms /\ s[2] \in Keys BY DEF IInv, TypeOK
<1>3. Grows({s[2]}) BY <1>1, <1>2, MakeGrows
<1>4. wishOf[s[2]] # 0 BY DEF IInv, KeysOK
<1>5. QED BY <1>1, <1>2, <1>3, <1>4 DEF ServeStray

\* What a poll brings.
LEMMA PollEffect ==
    ASSUME IInv, PollArrives
    PROVE  /\ poll # None /\ poll \in Polls /\ poll.list \in 0..MaxRuns /\ poll' = None
           /\ \/ UNCHANGED <<selected, detail, listed>>
              \/ /\ poll.stamp = generation
                 /\ listed' = 1..poll.list
                 /\ \/ /\ polled = None /\ detail' = None
                       /\ selected' = selected \/ (poll.list > 0 /\ selected' = poll.list)
                    \/ /\ polled # None /\ poll.rev \in 1..MaxRev /\ selected' = selected
                       /\ detail' = [id |-> polled, rev |-> poll.rev, journalOf |-> polled]
           /\ UNCHANGED <<polled, generation, pending, command, server, history>>
<1>1. poll # None /\ poll \in Polls /\ poll.list # None BY Typed DEF PollArrives
<1>2. poll.list \in 0..MaxRuns /\ (poll.rev # None => poll.rev \in 1..MaxRev)
  BY <1>1 DEF Polls
<1>3. QED BY <1>1, <1>2 DEF PollArrives, Fresh, AutoSelect

-----------------------------------------------------------------------------
(* Every step.                                                             *)

\* Steps that command nothing and end no command.
Quiet == UNCHANGED <<command, generation, pending, wish, wishOf, crossed>> /\ stray' \subseteq stray

\* The steps that command something or end a command, and the others.
LEMMA StepSplit ==
    ASSUME IInv, [Next]_vars
    PROVE  \/ \E f \in Forms : Press(f)
           \/ Control
           \/ \E p \in Parts : Answered(p)
           \/ \E p \in Parts : Failed(p)
           \/ \E p \in Parts : Serve(p)
           \/ Quiet
<1>1. CASE \E r \in Runs \cup {None} : Select(r) BY <1>1 DEF Select, Quiet, server, history
<1>2. CASE \E r \in Runs : Tick(r) BY <1>2 DEF Tick, Quiet, history
<1>3. CASE Restart BY <1>3 DEF Restart, Quiet, server, history
<1>4. CASE StartPoll BY <1>4 DEF StartPoll, Quiet, server, history
<1>5. CASE PollArrives BY <1>5 DEF PollArrives, Quiet, server, history
<1>6. CASE PollFails BY <1>6 DEF PollFails, Quiet, server, history
<1>7. CASE ServeStray BY <1>7 DEF ServeStray, Quiet, history
<1>8. CASE ReadList BY <1>8 DEF ReadList, Quiet, server, history
<1>9. CASE ReadDetail BY <1>9 DEF ReadDetail, Quiet, server, history
<1>10. CASE UNCHANGED vars BY <1>10 DEF vars, Quiet, server, history
<1>11. QED
  BY <1>1, <1>2, <1>3, <1>4, <1>5, <1>6, <1>7, <1>8, <1>9, <1>10 DEF Next

\* Whatever happens, the server only adds, and only for keys that were drawn.
LEMMA StepGrows ==
    ASSUME IInv, [Next]_vars
    PROVE  \E used \in SUBSET Keys : Grows(used) /\ \A k \in used : wishOf[k] # 0
<1>1. CASE UNCHANGED <<rev, runOf, saved>>
  <2>1. rev \in [Runs -> 0..MaxRev] /\ runOf \in [Keys -> 0..MaxRuns] /\ saved \subseteq Keys
        /\ \A r \in Runs : rev[r] \in Nat
    BY Typed DEF IInv, TypeOK
  <2>2. /\ \E n \in 0..MaxRuns : \A r \in Runs : rev[r] # 0 <=> r <= n
        /\ \A k \in Keys : runOf[k] # 0 => runOf[k] \in Runs /\ rev[runOf[k]] # 0
    BY DEF IInv, ServerOK, RunsAreFirst, Exists
  <2>3. Grows({}) BY <1>1, <2>1, <2>2 DEF Grows
  <2>4. QED BY <2>3
<1>2. CASE \E p \in Parts : Serve(p)
  <2>1. PICK p \in Parts : Serve(p) BY <1>2
  <2>2. PICK c : c = command[p] OBVIOUS
  <2>3. c # None /\ Grows(IF c.form \in Forms THEN {c.key} ELSE {}) BY <2>1, <2>2, ServeEffect
  <2>4. c.form \in Forms => c.key \in Keys /\ wishOf[c.key] # 0
    BY <2>2, <2>3 DEF IInv, CommandsOK, CommandOK, KeysOK
  <2>5. QED BY <2>3, <2>4
<1>3. CASE ServeStray
  <2>1. PICK k \in Keys : Grows({k}) /\ wishOf[k] # 0 BY <1>3, StrayEffect
  <2>2. {k} \in SUBSET Keys OBVIOUS
  <2>3. QED BY <2>1, <2>2
<1>4. CASE \E r \in Runs : Tick(r)
  <2>1. PICK r \in Runs : Tick(r) BY <1>4
  <2>2. rev[r] # 0 /\ rev[r] < MaxRev BY <2>1, Typed DEF Tick
  <2>3. rev' = [rev EXCEPT ![r] = @ + 1] /\ UNCHANGED <<runOf, saved>> BY <2>1 DEF Tick
  <2>4. Grows({}) BY <2>2, <2>3, NextStateGrows
  <2>5. QED BY <2>4
<1>5. CASE \E f \in Forms : Press(f) BY <1>1, <1>5 DEF Press, server
<1>6. CASE \E p \in Parts : Answered(p) BY <1>1, <1>6 DEF Answered, server
<1>7. CASE \E p \in Parts : Failed(p) BY <1>1, <1>7 DEF Failed
<1>8. CASE Control BY <1>1, <1>8 DEF Control, server
<1>9. CASE \E r \in Runs \cup {None} : Select(r) BY <1>1, <1>9 DEF Select, server
<1>10. CASE Restart BY <1>1, <1>10 DEF Restart, server
<1>11. CASE StartPoll BY <1>1, <1>11 DEF StartPoll, server
<1>12. CASE PollArrives BY <1>1, <1>12 DEF PollArrives, server
<1>13. CASE PollFails BY <1>1, <1>13 DEF PollFails, server
<1>14. CASE ReadList BY <1>1, <1>14 DEF ReadList, server
<1>15. CASE ReadDetail BY <1>1, <1>15 DEF ReadDetail, server
<1>16. CASE UNCHANGED vars BY <1>1, <1>16 DEF vars, server
<1>17. QED
  BY <1>2, <1>3, <1>4, <1>5, <1>6, <1>7, <1>8, <1>9, <1>10, <1>11, <1>12, <1>13, <1>14, <1>15, <1>16
     DEF Next

\* What every step means for the runs.
LEMMA ServerKept ==
    ASSUME IInv, [Next]_vars
    PROVE  /\ ServerOK'
           /\ rev' \in [Runs -> 0..MaxRev] /\ runOf' \in [Keys -> 0..MaxRuns] /\ saved' \subseteq Keys
           /\ \A r \in Runs : rev'[r] \in Nat /\ rev[r] <= rev'[r] /\ (Exists(r) => Exists(r)')
           /\ \A k \in Keys : runOf'[k] # 0 \/ k \in saved' => wishOf[k] # 0
<1>1. PICK used \in SUBSET Keys : Grows(used) /\ \A k \in used : wishOf[k] # 0 BY StepGrows
<1>2. /\ rev' \in [Runs -> 0..MaxRev] /\ runOf' \in [Keys -> 0..MaxRuns] /\ saved' \subseteq Keys
      /\ \A r \in Runs : rev[r] <= rev'[r]
  BY <1>1 DEF Grows
<1>3. \A r \in Runs : rev[r] \in Nat /\ rev'[r] \in Nat BY <1>2, Typed
<1>4. \A r \in Runs : Exists(r) => Exists(r)' BY <1>2, <1>3 DEF Exists
<1>5. ServerOK' BY <1>1 DEF Grows, ServerOK, RunsAreFirst, Exists
<1>6. \A k \in Keys : runOf'[k] # 0 \/ k \in saved' => wishOf[k] # 0
  BY <1>1 DEF Grows, IInv, KeysOK
<1>7. QED BY <1>2, <1>3, <1>4, <1>5, <1>6

\* The bound on the commands counts those that will be numbered.
LEMMA NumberedKept ==
    ASSUME IInv, [Next]_vars
    PROVE  Numbered' <= MaxCommands /\ generation' \in 0..MaxCommands
<1>1. generation \in Nat /\ MaxCommands \in Nat /\ Numbered <= MaxCommands
  BY Typed DEF IInv, CommandsOK
<1>2. Numbered = IF Starting THEN generation + 1 ELSE generation BY <1>1 DEF Numbered
<1>3. Starting <=> command["workbench"] # None /\ command["workbench"].form = "start"
  BY DEF Starting, Busy
<1>4. command \in [Parts -> Commands \cup {None}] BY DEF IInv, TypeOK
<1>5. "page" \in Parts /\ "workbench" \in Parts BY DEF Parts
<1>6. \A c \in Commands : c # None BY Typed
<1>8. Starting' <=> command'["workbench"] # None /\ command'["workbench"].form = "start"
  BY DEF Starting, Busy
<1>7. DEFINE Bounded == \/ Starting' /\ generation' \in Nat /\ generation' + 1 <= MaxCommands
                        \/ ~Starting' /\ generation' \in Nat /\ generation' <= MaxCommands
<1>9. ASSUME \E f \in Forms : Press(f) PROVE Bounded
  <2>1. PICK f \in Forms : Press(f) BY <1>9
  <2>2. PICK d \in Commands : d.form = f /\ command' = [command EXCEPT ![PartOf(f)] = d]
    BY <2>1, PressEffect
  <2>3. /\ Numbered < MaxCommands /\ command[PartOf(f)] = None
        /\ generation' = IF f = "create" THEN generation + 1 ELSE generation
    BY <2>1, PressEffect
  <2>4. CASE f = "create"
    <3>1. PartOf(f) = "page" BY <2>4 DEF PartOf
    <3>2. Starting' <=> Starting BY <1>3, <1>4, <1>5, <1>8, <2>2, <3>1
    <3>3. QED BY <1>1, <1>2, <2>3, <2>4, <3>2
  <2>5. CASE f # "create"
    <3>1. ~Starting BY <1>3, <2>3, <2>5 DEF PartOf
    <3>2. QED BY <1>1, <1>2, <2>3, <2>5, <3>1
  <2>6. QED BY <2>4, <2>5
<1>10. ASSUME Control PROVE Bounded
  <2>1. PICK d \in Commands : command' = [command EXCEPT !["page"] = d] BY <1>10, ControlEffect
  <2>2. Starting' <=> Starting BY <1>3, <1>4, <1>5, <1>8, <2>1
  <2>3. Numbered < MaxCommands /\ generation' = generation + 1 BY <1>10, ControlEffect
  <2>4. QED BY <1>1, <1>2, <2>2, <2>3
<1>11. ASSUME \E p \in Parts : Answered(p) PROVE Bounded
  <2>1. PICK p \in Parts : Answered(p) BY <1>11
  <2>2. PICK c : c = command[p] OBVIOUS
  <2>3. c # None /\ command' = [command EXCEPT ![p] = None] BY <2>1, <2>2, AnsweredEffect
  <2>4. \/ c.form = "start" /\ generation' = generation + 1
        \/ generation' = generation
    BY <2>1, <2>2, AnsweredEffect
  <2>5. c.form = "start" => p = "workbench"
    BY <2>2, <2>3 DEF IInv, CommandsOK, CommandOK, Forms, PartOf
  <2>6. Starting' => Starting BY <1>3, <1>4, <1>5, <1>8, <2>3
  <2>7. c.form = "start" => Starting /\ ~Starting'
    BY <1>3, <1>4, <1>5, <1>8, <2>2, <2>3, <2>5
  <2>8. QED BY <1>1, <1>2, <2>4, <2>6, <2>7
<1>12. ASSUME \E p \in Parts : Failed(p) PROVE Bounded
  <2>1. PICK p \in Parts : Failed(p) BY <1>12
  <2>2. command' = [command EXCEPT ![p] = None] /\ generation' = generation
    BY <2>1, FailedEffect
  <2>3. Starting' => Starting BY <1>3, <1>4, <1>5, <1>8, <2>2
  <2>4. QED BY <1>1, <1>2, <2>2, <2>3
<1>13. ASSUME \E p \in Parts : Serve(p) PROVE Bounded
  <2>1. PICK p \in Parts : Serve(p) BY <1>13
  <2>2. PICK d \in Commands : d.form = command[p].form /\ command' = [command EXCEPT ![p] = d]
    BY <2>1, ServeEffect
  <2>3. command[p] # None /\ generation' = generation BY <2>1, ServeEffect
  <2>4. Starting' => Starting BY <1>3, <1>4, <1>5, <1>8, <2>2, <2>3
  <2>5. QED BY <1>1, <1>2, <2>3, <2>4
<1>14. ASSUME Quiet PROVE Bounded
  <2>1. generation' = generation /\ command' = command BY <1>14 DEF Quiet
  <2>2. Starting' <=> Starting BY <1>3, <1>8, <2>1
  <2>3. QED BY <1>1, <1>2, <2>1, <2>2
<1>15. Bounded
  BY <1>9, <1>10, <1>11, <1>12, <1>13, <1>14, StepSplit
<1>16. PICK m, g, n : m = MaxCommands /\ g = generation' /\ n = Numbered' OBVIOUS
<1>17. m \in Nat /\ g \in Nat /\ g <= m /\ n <= m
  <2>1. CASE Starting' /\ g \in Nat /\ g + 1 <= m
    <3>1. n = g + 1 BY <1>16, <2>1 DEF Numbered
    <3>2. m \in Nat BY <1>1, <1>16
    <3>3. QED BY <2>1, <3>1, <3>2
  <2>2. CASE ~Starting' /\ g \in Nat /\ g <= m
    <3>1. n = g + 0 BY <1>16, <2>2 DEF Numbered
    <3>2. m \in Nat BY <1>1, <1>16
    <3>3. QED BY <2>2, <3>1, <3>2
  <2>3. QED BY <1>15, <1>16, <2>1, <2>2
<1>18. g \in 0..m BY <1>17
<1>19. QED BY <1>16, <1>17, <1>18

\* A command on its way stays one of its part, and is of a run that exists.
LEMMA CommandsKept ==
    ASSUME IInv, [Next]_vars
    PROVE  CommandsOK'
<1>1. command \in [Parts -> Commands \cup {None}] /\ "page" \in Parts /\ "workbench" \in Parts
  BY DEF IInv, TypeOK, Parts
<1>2. \A r \in Runs : rev'[r] \in Nat /\ rev[r] \in Nat /\ rev[r] <= rev'[r] /\ (Exists(r) => Exists(r)')
  BY ServerKept, Typed
<1>3. ASSUME NEW q \in Parts, command'[q] = command[q] PROVE CommandOK(q)'
  <2>1. PICK c : c = command[q] OBVIOUS
  <2>2. CASE c = None BY <1>3, <2>1, <2>2 DEF CommandOK
  <2>3. CASE c # None
    <3>1. /\ c.form \in Forms => PartOf(c.form) = q /\ c.key \in Keys
          /\ c.form = "control" => q = "page" /\ c.id \in Runs /\ Exists(c.id)
          /\ c.form = "save" => c.answer \notin RunStates
          /\ c.answer \in RunStates => /\ c.answer.rev <= rev[c.answer.id]
                                       /\ c.form = "control" => c.answer.id = c.id
      BY <2>1, <2>3 DEF IInv, CommandsOK, CommandOK, Exists
    <3>2. c.form = "control" => Exists(c.id)'
      <4>1. HAVE c.form = "control"
      <4>2. PICK r \in Runs : r = c.id BY <3>1, <4>1
      <4>3. Exists(r)' BY <1>2, <3>1, <4>1, <4>2
      <4>4. QED BY <4>2, <4>3 DEF Exists
    <3>3. c.answer \in RunStates => c.answer.rev <= rev'[c.answer.id]
      <4>1. HAVE c.answer \in RunStates
      <4>2. PICK a \in RunStates : a = c.answer BY <4>1
      <4>3. a.id \in Runs /\ a.rev \in Nat BY Typed
      <4>4. a.rev <= rev[a.id] BY <3>1, <4>2
      <4>5. a.rev <= rev'[a.id] BY <1>2, <4>3, <4>4
      <4>6. QED BY <4>2, <4>5
    <3>4. QED BY <1>3, <2>1, <3>1, <3>2, <3>3 DEF CommandOK, Exists
  <2>4. QED BY <2>2, <2>3
<1>4. ASSUME NEW q \in Parts, command'[q] = None PROVE CommandOK(q)'
  BY <1>4 DEF CommandOK
<1>5. ASSUME NEW p \in Parts, NEW d, command' = [command EXCEPT ![p] = d], CommandOK(p)'
      PROVE  \A q \in Parts : CommandOK(q)'
  <2>1. \A q \in Parts : q # p => command'[q] = command[q] BY <1>1, <1>5
  <2>2. QED BY <1>3, <1>5, <2>1
<1>6. SUFFICES \A q \in Parts : CommandOK(q)' BY NumberedKept DEF CommandsOK
<1>7. CASE \E f \in Forms : Press(f)
  <2>1. PICK f \in Forms : Press(f) BY <1>7
  <2>2. PICK k \in Keys, d \in Commands : /\ d.form = f /\ d.key = k /\ d.answer = None
                                          /\ command' = [command EXCEPT ![PartOf(f)] = d]
    BY <2>1, PressEffect
  <2>3. PICK p \in Parts : p = PartOf(f) BY <2>1, PressEffect
  <2>4. command'[p] = d BY <1>1, <2>2, <2>3
  <2>5. f # "control" BY DEF Forms
  <2>6. CommandOK(p)' BY <2>2, <2>3, <2>4, <2>5, Typed DEF CommandOK
  <2>7. QED BY <1>5, <2>2, <2>3, <2>6
<1>8. CASE Control
  <2>1. PICK d \in Commands : /\ d.form = "control" /\ d.id = selected /\ d.answer = None
                              /\ command' = [command EXCEPT !["page"] = d]
    BY <1>8, ControlEffect
  <2>2. PICK r \in Runs : r = selected BY <1>8, ControlEffect
  <2>3. Exists(r) BY <1>2, <2>2, Typed DEF IInv, ViewOK
  <2>4. Exists(r)' BY <1>2, <2>3
  <2>5. command'["page"] = d /\ d.form \notin Forms BY <1>1, <2>1 DEF Forms
  <2>6. CommandOK("page")' BY <2>1, <2>2, <2>4, <2>5, Typed DEF CommandOK, Exists
  <2>7. QED BY <1>1, <1>5, <2>1, <2>6
<1>9. CASE \E p \in Parts : Answered(p) \/ Failed(p)
  <2>1. PICK p \in Parts : Answered(p) \/ Failed(p) BY <1>9
  <2>2. PICK c : c = command[p] OBVIOUS
  <2>3. command' = [command EXCEPT ![p] = None] BY <2>1, <2>2, AnsweredEffect, FailedEffect
  <2>4. command'[p] = None BY <1>1, <2>3
  <2>5. QED BY <1>4, <1>5, <2>3, <2>4
<1>10. CASE \E p \in Parts : Serve(p)
  <2>1. PICK p \in Parts : Serve(p) BY <1>10
  <2>2. PICK c : c = command[p] OBVIOUS
  <2>3. PICK a \in Answers, d \in Commands :
          /\ a # None
          /\ d.form = command[p].form /\ d.key = command[p].key /\ d.id = command[p].id
          /\ d.answer = a /\ command' = [command EXCEPT ![p] = d]
          /\ Grows(IF command[p].form \in Forms THEN {command[p].key} ELSE {})
          /\ a \in RunStates => /\ a.rev = rev'[a.id] /\ d.form # "save"
                                /\ d.form = "control" => a.id = d.id
    BY <2>1, ServeEffect
  <2>4. c # None BY <2>1, <2>2, ServeEffect
  <2>5. /\ c.form \in Forms => PartOf(c.form) = p /\ c.key \in Keys
        /\ c.form = "control" => p = "page" /\ c.id \in Runs /\ Exists(c.id)
    BY <2>2, <2>4 DEF IInv, CommandsOK, CommandOK, Exists
  <2>6. c.form = "control" => Exists(c.id)'
    <3>1. HAVE c.form = "control"
    <3>2. PICK r \in Runs : r = c.id BY <2>5, <3>1
    <3>3. Exists(r)' BY <1>2, <2>5, <3>1, <3>2
    <3>4. QED BY <3>2, <3>3 DEF Exists
  <2>7. a \in RunStates => a.rev <= rev'[a.id]
    <3>1. HAVE a \in RunStates
    <3>2. a.id \in Runs /\ a.rev = rev'[a.id] BY <2>3, <3>1, Typed
    <3>3. QED BY <1>2, <3>2
  <2>8. command'[p] = d BY <1>1, <2>3
  <2>9. CommandOK(p)' BY <2>2, <2>3, <2>5, <2>6, <2>7, <2>8 DEF CommandOK, Exists
  <2>10. QED BY <1>5, <2>3, <2>9
<1>11. CASE Quiet BY <1>3, <1>11 DEF Quiet
<1>12. QED BY <1>7, <1>8, <1>9, <1>10, <1>11, StepSplit

\* A form's key is that of its wish, and nothing has an effect for a key not drawn.
LEMMA KeysKept ==
    ASSUME IInv, [Next]_vars
    PROVE  KeysOK'
<1>1. /\ command \in [Parts -> Commands \cup {None}] /\ "page" \in Parts /\ "workbench" \in Parts
      /\ pending \in [Forms -> 0..MaxKeys] /\ wish \in [Forms -> 0..MaxKeys]
      /\ wishOf \in [Keys -> 0..MaxKeys] /\ stray \subseteq Forms \X Keys
  BY DEF IInv, TypeOK, Parts
<1>2. KeysOK BY DEF IInv
<1>3. \A k \in Keys : k # 0 BY PageAssumption DEF Keys
<1>4. ASSUME \A f \in Forms : pending'[f] = wish'[f],
             \A k \in Keys : wishOf'[k] \in {0, k} /\ (wishOf[k] # 0 => wishOf'[k] # 0),
             \A s \in stray' : wishOf[s[2]] # 0 /\ s[2] \in Keys,
             \A p \in Parts : command'[p] # None /\ command'[p].form \in Forms =>
                                 command'[p].key \in Keys /\ wishOf'[command'[p].key] # 0
      PROVE  KeysOK'
  <2>1. \A k \in Keys : runOf'[k] # 0 \/ k \in saved' => wishOf'[k] # 0 BY <1>4, ServerKept
  <2>2. \A s \in stray' : wishOf'[s[2]] # 0 BY <1>4
  <2>3. QED BY <1>4, <2>1, <2>2 DEF KeysOK
<1>5. \A p \in Parts : command[p] # None /\ command[p].form \in Forms =>
         command[p].key \in Keys /\ wishOf[command[p].key] # 0
  BY <1>2 DEF IInv, CommandsOK, CommandOK, KeysOK
<1>6. \A s \in stray : wishOf[s[2]] # 0 /\ s[2] \in Keys BY <1>1, <1>2 DEF KeysOK
<1>7. ASSUME NEW f \in Forms, Press(f) PROVE KeysOK'
  <2>1. PICK k \in Keys, d \in Commands :
          /\ d.form = f /\ d.key = k /\ d.answer = None
          /\ command' = [command EXCEPT ![PartOf(f)] = d]
          /\ pending' = [pending EXCEPT ![f] = k]
          /\ wish' = [wish EXCEPT ![f] = k]
          /\ wishOf' \in [Keys -> 0..MaxKeys]
          /\ \A j \in Keys : wishOf'[j] = IF j = k /\ wishOf[k] = 0 THEN k ELSE wishOf[j]
    BY <1>7, PressEffect
  <2>2. \A g \in Forms : pending'[g] = wish'[g] BY <1>1, <1>2, <2>1 DEF KeysOK
  <2>3. \A j \in Keys : wishOf'[j] \in {0, j} /\ (wishOf[j] # 0 => wishOf'[j] # 0)
    BY <1>2, <1>3, <2>1 DEF KeysOK
  <2>4. wishOf'[k] # 0 BY <1>3, <2>1
  <2>5. stray' = stray BY <1>7 DEF Press, server
  <2>6. \A p \in Parts : command'[p] = command[p] \/ command'[p] = d BY <1>1, <2>1
  <2>7. \A p \in Parts : command'[p] # None /\ command'[p].form \in Forms =>
           command'[p].key \in Keys /\ wishOf'[command'[p].key] # 0
    BY <1>5, <2>1, <2>3, <2>4, <2>6
  <2>8. QED BY <1>4, <1>6, <2>2, <2>3, <2>5, <2>7
<1>8. CASE Control
  <2>1. PICK d \in Commands : d.form = "control" /\ command' = [command EXCEPT !["page"] = d]
    BY <1>8, ControlEffect
  <2>2. UNCHANGED <<pending, wish, wishOf, stray>> BY <1>8 DEF Control, server, history
  <2>3. \A p \in Parts : command'[p] = command[p] \/ command'[p] = d BY <1>1, <2>1
  <2>4. d.form \notin Forms BY <2>1 DEF Forms
  <2>5. \A p \in Parts : command'[p] # None /\ command'[p].form \in Forms =>
           command'[p].key \in Keys /\ wishOf'[command'[p].key] # 0
    BY <1>5, <2>2, <2>3, <2>4
  <2>6. QED BY <1>2, <1>4, <1>6, <2>2, <2>5 DEF KeysOK
<1>9. ASSUME NEW p \in Parts, Answered(p) PROVE KeysOK'
  <2>1. PICK c : c = command[p] OBVIOUS
  <2>2. /\ command' = [command EXCEPT ![p] = None]
        /\ \A f \in Forms : pending'[f] = (IF f = c.form THEN 0 ELSE pending[f])
                            /\ wish'[f] = (IF f = c.form THEN 0 ELSE wish[f])
        /\ UNCHANGED <<server, wishOf>>
    BY <1>9, <2>1, AnsweredEffect
  <2>3. UNCHANGED <<wishOf, stray>> BY <2>2 DEF server
  <2>4. \A q \in Parts : command'[q] = command[q] \/ command'[q] = None BY <1>1, <2>2
  <2>5. \A q \in Parts : command'[q] # None /\ command'[q].form \in Forms =>
           command'[q].key \in Keys /\ wishOf'[command'[q].key] # 0
    BY <1>5, <2>3, <2>4
  <2>6. \A f \in Forms : pending'[f] = wish'[f] BY <1>2, <2>2 DEF KeysOK
  <2>7. QED BY <1>2, <1>4, <1>6, <2>3, <2>5, <2>6 DEF KeysOK
<1>10. ASSUME NEW p \in Parts, Failed(p) PROVE KeysOK'
  <2>1. PICK c : c = command[p] OBVIOUS
  <2>2. /\ c # None /\ command' = [command EXCEPT ![p] = None]
        /\ \A s \in stray' : s \in stray \/ (c.form \in Forms /\ c.key \in Keys /\ s = <<c.form, c.key>>)
        /\ UNCHANGED <<pending, wish, wishOf>>
    BY <1>10, <2>1, FailedEffect
  <2>3. \A q \in Parts : command'[q] = command[q] \/ command'[q] = None BY <1>1, <2>2
  <2>4. \A q \in Parts : command'[q] # None /\ command'[q].form \in Forms =>
           command'[q].key \in Keys /\ wishOf'[command'[q].key] # 0
    BY <1>5, <2>2, <2>3
  <2>5. \A s \in stray' : wishOf[s[2]] # 0 /\ s[2] \in Keys BY <1>5, <1>6, <2>1, <2>2
  <2>6. QED BY <1>2, <1>4, <2>2, <2>4, <2>5 DEF KeysOK
<1>11. ASSUME NEW p \in Parts, Serve(p) PROVE KeysOK'
  <2>1. PICK d \in Commands : /\ d.form = command[p].form /\ d.key = command[p].key
                              /\ command' = [command EXCEPT ![p] = d]
    BY <1>11, ServeEffect
  <2>2. command[p] # None BY <1>11, ServeEffect
  <2>3. UNCHANGED <<pending, wish, wishOf, stray>> BY <1>11 DEF Serve, history
  <2>4. \A q \in Parts : q # p => command'[q] = command[q] BY <1>1, <2>1
  <2>5. command'[p] = d BY <1>1, <2>1
  <2>6. \A q \in Parts : command'[q] # None /\ command'[q].form \in Forms =>
           command'[q].key \in Keys /\ wishOf'[command'[q].key] # 0
    BY <1>5, <2>1, <2>2, <2>3, <2>4, <2>5
  <2>7. QED BY <1>2, <1>4, <1>6, <2>3, <2>6 DEF KeysOK
<1>12. CASE Quiet BY <1>2, <1>4, <1>5, <1>6, <1>12 DEF Quiet, KeysOK
<1>13. QED BY <1>7, <1>8, <1>9, <1>10, <1>11, <1>12, StepSplit

-----------------------------------------------------------------------------
(* The view and the poll.                                                  *)

\* The steps that change the view.
LEMMA ViewSplit ==
    ASSUME IInv, [Next]_vars
    PROVE  \/ \E p \in Parts : Answered(p)
           \/ \E r \in Runs \cup {None} : Select(r)
           \/ Restart
           \/ PollArrives
           \/ UNCHANGED view
<1>1. CASE \E f \in Forms : Press(f) BY <1>1 DEF Press
<1>2. CASE Control BY <1>2 DEF Control
<1>3. CASE \E p \in Parts : Failed(p) BY <1>3 DEF Failed
<1>4. CASE \E p \in Parts : Serve(p) BY <1>4 DEF Serve
<1>5. CASE \E r \in Runs : Tick(r) BY <1>5 DEF Tick
<1>6. CASE StartPoll BY <1>6 DEF StartPoll
<1>7. CASE PollFails BY <1>7 DEF PollFails
<1>8. CASE ServeStray BY <1>8 DEF ServeStray
<1>9. CASE ReadList BY <1>9 DEF ReadList
<1>10. CASE ReadDetail BY <1>10 DEF ReadDetail
<1>11. CASE UNCHANGED vars BY <1>11 DEF vars
<1>12. QED BY <1>1, <1>2, <1>3, <1>4, <1>5, <1>6, <1>7, <1>8, <1>9, <1>10, <1>11 DEF Next

\* Nothing is shown that the server does not have.
LEMMA ViewKept ==
    ASSUME IInv, [Next]_vars
    PROVE  /\ ViewOK'
           /\ selected' \in Runs \cup {None} /\ polled' \in Runs \cup {None}
           /\ detail' \in Details \cup {None} /\ listed' \subseteq Runs
<1>1. \A r \in Runs : /\ rev'[r] \in Nat /\ rev[r] \in Nat /\ rev[r] <= rev'[r]
                      /\ (Exists(r) => Exists(r)')
  BY ServerKept, Typed
<1>2. /\ selected \in Runs \cup {None} /\ polled \in Runs \cup {None}
      /\ detail \in Details \cup {None} /\ listed \subseteq Runs
  BY DEF IInv, TypeOK
<1>3. /\ \A r \in listed : Exists(r)'
      /\ selected # None => rev'[selected] # 0
      /\ polled # None => rev'[polled] # 0
  <2>1. \A r \in listed : Exists(r)' BY <1>1, <1>2 DEF IInv, ViewOK
  <2>2. \A r \in Runs : r = selected \/ r = polled => rev'[r] # 0
    BY <1>1, Typed DEF IInv, ViewOK, Exists
  <2>3. QED BY <1>2, <2>1, <2>2
<1>4. detail # None => detail.rev <= rev'[detail.id]
  <2>1. HAVE detail # None
  <2>2. detail.id \in Runs /\ detail.rev \in Nat /\ detail.rev <= rev[detail.id]
    BY <2>1, Typed DEF IInv, ViewOK
  <2>3. QED BY <1>1, <2>2
<1>5. CASE \E p \in Parts : Answered(p)
  <2>1. PICK p \in Parts : Answered(p) BY <1>5
  <2>2. PICK c : c = command[p] OBVIOUS
  <2>3. polled' = polled BY <2>1 DEF Answered
  <2>4. c # None BY <2>1, <2>2, AnsweredEffect
  <2>5. c.answer \in RunStates => c.answer.rev <= rev[c.answer.id]
    BY <2>2, <2>4 DEF IInv, CommandsOK, CommandOK
  <2>6. c.answer \in RunStates =>
           c.answer.id \in Runs /\ rev'[c.answer.id] # 0 /\ c.answer.rev <= rev'[c.answer.id]
    <3>1. HAVE c.answer \in RunStates
    <3>2. PICK a \in RunStates : a = c.answer BY <3>1
    <3>3. a.id \in Runs /\ a.rev \in Nat \ {0} BY Typed DEF RunStates
    <3>4. a.rev <= rev[a.id] BY <2>5, <3>2
    <3>5. QED BY <1>1, <3>2, <3>3, <3>4
  <2>7. CASE UNCHANGED <<selected, detail, listed>>
    BY <1>2, <1>3, <1>4, <2>3, <2>7 DEF ViewOK, Exists
  <2>8. CASE /\ c.answer \in RunStates
             /\ UNCHANGED <<selected, listed>>
             /\ \/ detail = None /\ detail' = None
                \/ detail' \in Details /\ detail'.id = c.answer.id /\ detail'.rev = c.answer.rev
    BY <1>2, <1>3, <2>3, <2>6, <2>8 DEF ViewOK, Exists
  <2>9. CASE /\ c.answer \in RunStates
             /\ selected' = c.answer.id /\ listed' = listed \cup {c.answer.id}
             /\ detail' \in Details
             /\ detail'.id = c.answer.id /\ detail'.rev = c.answer.rev
    BY <1>2, <1>3, <2>3, <2>6, <2>9 DEF ViewOK, Exists
  <2>10. QED BY <2>1, <2>2, <2>7, <2>8, <2>9, AnsweredEffect
<1>6. CASE \E r \in Runs \cup {None} : Select(r)
  BY <1>2, <1>3, <1>6 DEF Select, ClearDetail, ViewOK, Exists
<1>7. CASE Restart
  BY <1>2, <1>3, <1>4, <1>7 DEF Restart, ViewOK, Exists
<1>8. CASE PollArrives
  <2>1. polled' = polled BY <1>8, PollEffect
  <2>2. CASE UNCHANGED <<selected, detail, listed>>
    BY <1>2, <1>3, <1>4, <2>1, <2>2 DEF ViewOK, Exists
  <2>3. CASE /\ listed' = 1..poll.list
             /\ \/ /\ polled = None /\ detail' = None
                   /\ selected' = selected \/ (poll.list > 0 /\ selected' = poll.list)
                \/ /\ polled # None /\ poll.rev \in 1..MaxRev /\ selected' = selected
                   /\ detail' = [id |-> polled, rev |-> poll.rev, journalOf |-> polled]
    <3>1. poll # None /\ poll.list \in 0..MaxRuns BY <1>8, PollEffect
    <3>2. PICK n \in 0..MaxRuns : n = poll.list BY <3>1
    <3>3. n \in Nat /\ 1..n \subseteq Runs BY <3>2, Typed DEF Runs
    <3>4. poll.list # None BY <3>1, PageAssumption
    <3>5. \A r \in 1..n : rev'[r] # 0 BY <1>1, <3>1, <3>2, <3>3, <3>4 DEF IInv, PollOK, Exists
    <3>6. listed' \subseteq Runs /\ \A r \in listed' : rev'[r] # 0 BY <2>3, <3>2, <3>3, <3>5
    <3>7. selected' \in Runs \cup {None} /\ (selected' # None => rev'[selected'] # 0)
      <4>1. selected' = selected \/ (selected' = n /\ n \in 1..n) BY <2>3, <3>2, <3>3
      <4>2. CASE selected' = selected BY <1>2, <1>3, <4>2
      <4>3. CASE selected' = n /\ n \in 1..n BY <3>3, <3>5, <4>3
      <4>4. QED BY <4>1, <4>2, <4>3
    <3>8. detail' \in Details \cup {None} /\ (detail' # None => detail'.rev <= rev'[detail'.id])
      <4>1. CASE detail' = None BY <4>1
      <4>2. CASE /\ polled # None /\ poll.rev \in 1..MaxRev
                 /\ detail' = [id |-> polled, rev |-> poll.rev, journalOf |-> polled]
        <5>1. PICK r \in Runs, m \in 1..MaxRev : r = polled /\ m = poll.rev BY <1>2, <4>2
        <5>2. m # None /\ m \in Nat BY <5>1, PageAssumption
        <5>3. m <= rev[r] BY <3>1, <5>1, <5>2 DEF IInv, PollOK
        <5>4. detail' = [id |-> r, rev |-> m, journalOf |-> r] BY <4>2, <5>1
        <5>5. detail' \in Details BY <5>4 DEF Details
        <5>6. QED BY <1>1, <5>2, <5>3, <5>4, <5>5
      <4>3. QED BY <2>3, <4>1, <4>2
    <3>9. QED BY <1>2, <1>3, <2>1, <3>6, <3>7, <3>8 DEF ViewOK, Exists
  <2>4. QED BY <1>8, <2>2, <2>3, PollEffect
<1>9. CASE UNCHANGED view
  BY <1>2, <1>3, <1>4, <1>9 DEF view, ViewOK, Exists
<1>10. QED BY <1>5, <1>6, <1>7, <1>8, <1>9, ViewSplit

\* What a step means for a poll on its way: it is another poll or none, or the step has
\* made it stale, or nothing it is compared with has changed.
LEMMA PollKept ==
    ASSUME IInv, [Next]_vars
    PROVE  PollOK'
<1>1. \A r \in Runs : /\ rev'[r] \in Nat /\ rev[r] \in Nat /\ rev[r] <= rev'[r]
                      /\ (Exists(r) => rev'[r] # 0)
  BY ServerKept, Typed DEF Exists
<1>2. /\ PollOK /\ polled \in Runs \cup {None} /\ generation \in Nat
      /\ command \in [Parts -> Commands \cup {None}] /\ "page" \in Parts /\ "workbench" \in Parts
  BY Typed DEF IInv, TypeOK, Parts
<1>3. poll # None => /\ poll \in Polls /\ poll.stamp \in Nat /\ poll.stamp <= generation
                     /\ poll.list # None => poll.list \in 0..MaxRuns
                     /\ poll.rev # None => poll.rev \in Nat
  BY <1>2, Typed DEF PollOK, Polls
<1>4. poll # None => /\ poll.list # None => \A r \in 1..poll.list : r \in Runs /\ rev'[r] # 0
                     /\ poll.rev # None => /\ poll.list # None /\ polled # None
                                           /\ poll.rev <= rev'[polled]
  <2>1. HAVE poll # None
  <2>2. poll.list # None => \A r \in 1..poll.list : r \in Runs /\ rev'[r] # 0
    BY <1>1, <1>2, <2>1 DEF PollOK, Exists
  <2>3. poll.rev # None => poll.rev <= rev'[polled]
    <3>1. HAVE poll.rev # None
    <3>2. poll.rev \in Nat /\ polled \in Runs /\ poll.rev <= rev[polled]
      BY <1>2, <1>3, <2>1, <3>1 DEF PollOK
    <3>3. QED BY <1>1, <3>2
  <2>4. QED BY <1>2, <2>1, <2>2, <2>3 DEF PollOK
<1>5. ASSUME poll' = poll, polled' = polled, poll # None => poll.stamp < generation',
             generation' \in Nat
      PROVE  PollOK'
  <2>1. poll # None => poll.stamp \in Nat /\ poll.stamp <= generation' /\ poll.stamp # generation'
    BY <1>3, <1>5
  <2>2. QED BY <1>4, <1>5, <2>1 DEF PollOK, Exists
<1>6. ASSUME poll' = poll, UNCHANGED view, generation' = generation, Busy("page")' => Busy("page")
      PROVE  PollOK'
  BY <1>2, <1>4, <1>6 DEF view, PollOK, Exists
<1>7. ASSUME poll' = None PROVE PollOK'
  BY <1>7 DEF PollOK
<1>8. ASSUME poll' = poll, polled' = polled, generation' = generation + 1 PROVE PollOK'
  <2>1. poll # None => poll.stamp < generation' BY <1>2, <1>3, <1>8
  <2>2. generation' \in Nat BY <1>2, <1>8
  <2>3. QED BY <1>5, <1>8, <2>1, <2>2
<1>9. ASSUME poll' = poll, polled' = polled, generation' = generation, Busy("page") PROVE PollOK'
  <2>1. poll # None => poll.stamp # generation BY <1>2, <1>9 DEF PollOK
  <2>2. poll # None => poll.stamp < generation' BY <1>2, <1>3, <1>9, <2>1
  <2>3. QED BY <1>2, <1>5, <1>9, <2>2
<1>10. ASSUME NEW f \in Forms, Press(f) PROVE PollOK'
  <2>1. UNCHANGED <<view, poll>> BY <1>10, PressEffect
  <2>2. generation' = IF f = "create" THEN generation + 1 ELSE generation BY <1>10, PressEffect
  <2>3. CASE f = "create" BY <1>8, <2>1, <2>2, <2>3 DEF view
  <2>4. CASE f # "create"
    <3>1. PICK d \in Commands : command' = [command EXCEPT ![PartOf(f)] = d] BY <1>10, PressEffect
    <3>2. PartOf(f) = "workbench" BY <2>4 DEF PartOf
    <3>3. command'["page"] = command["page"] BY <1>2, <3>1, <3>2
    <3>4. QED BY <1>6, <2>1, <2>2, <2>4, <3>3 DEF Busy
  <2>5. QED BY <2>3, <2>4
<1>11. CASE Control BY <1>8, <1>11, ControlEffect DEF view
<1>12. ASSUME NEW p \in Parts, Answered(p) PROVE PollOK'
  <2>1. PICK c : c = command[p] OBVIOUS
  <2>2. /\ c # None /\ command' = [command EXCEPT ![p] = None]
        /\ UNCHANGED <<polled, poll>>
    BY <1>12, <2>1, AnsweredEffect
  <2>3. \/ UNCHANGED <<selected, detail, listed>>
        \/ c.form = "control" /\ p = "page"
        \/ c.form \in {"create", "start"}
    BY <1>12, <2>1, AnsweredEffect
  <2>4. \/ c.form = "start" /\ generation' = generation + 1
        \/ /\ c.form = "start" => UNCHANGED <<selected, detail, listed>>
           /\ generation' = generation
    BY <1>12, <2>1, AnsweredEffect
  <2>5. c.form = "create" => p = "page"
    BY <2>1, <2>2 DEF IInv, CommandsOK, CommandOK, Forms, PartOf
  <2>6. CASE generation' = generation + 1 BY <1>8, <2>2, <2>6
  <2>7. CASE generation' = generation /\ p = "page"
    <3>1. Busy("page") BY <2>1, <2>2, <2>7 DEF Busy
    <3>2. QED BY <1>9, <2>2, <2>7, <3>1
  <2>8. CASE generation' = generation /\ p # "page" /\ UNCHANGED <<selected, detail, listed>>
    <3>1. command'["page"] = command["page"] BY <1>2, <2>2, <2>8
    <3>2. QED BY <1>6, <2>2, <2>8, <3>1 DEF Busy, view
  <2>9. QED BY <2>3, <2>4, <2>5, <2>6, <2>7, <2>8
<1>13. ASSUME NEW p \in Parts, Failed(p) PROVE PollOK'
  <2>1. PICK c : c = command[p] OBVIOUS
  <2>2. command' = [command EXCEPT ![p] = None] /\ UNCHANGED <<view, poll, generation>>
    BY <1>13, <2>1, FailedEffect
  <2>3. Busy("page")' => Busy("page") BY <1>2, <2>2, Typed DEF Busy
  <2>4. QED BY <1>6, <2>2, <2>3
<1>14. ASSUME NEW p \in Parts, Serve(p) PROVE PollOK'
  <2>1. PICK d \in Commands : command' = [command EXCEPT ![p] = d] BY <1>14, ServeEffect
  <2>2. command[p] # None /\ UNCHANGED <<view, poll, generation>> BY <1>14, ServeEffect
  <2>3. command'["page"] = command["page"] \/ p = "page" BY <1>2, <2>1
  <2>4. Busy("page")' => Busy("page") BY <2>2, <2>3 DEF Busy
  <2>5. QED BY <1>6, <2>2, <2>4
<1>15. CASE \E r \in Runs \cup {None} : Select(r) BY <1>7, <1>15 DEF Select
<1>16. CASE \E r \in Runs : Tick(r) BY <1>6, <1>16 DEF Tick, Busy
<1>17. CASE Restart BY <1>7, <1>17 DEF Restart
<1>18. CASE StartPoll
  <2>1. /\ poll' = [stamp |-> generation, list |-> None, rev |-> None]
        /\ ~Busy("page") /\ UNCHANGED <<view, generation, command>>
    BY <1>18 DEF StartPoll
  <2>2. ~Busy("page")' BY <2>1 DEF Busy
  <2>3. QED BY <1>2, <2>1, <2>2 DEF PollOK, view
<1>19. CASE PollArrives BY <1>7, <1>19 DEF PollArrives
<1>20. CASE PollFails BY <1>7, <1>20 DEF PollFails
<1>21. CASE ServeStray BY <1>6, <1>21 DEF ServeStray, Busy
<1>22. CASE ReadList
  <2>1. PICK n \in 0..MaxRuns : RunsAreFirst(n) BY DEF IInv, ServerOK
  <2>2. Existing = n BY <2>1, ExistingIs
  <2>3. poll # None /\ poll.list = None /\ poll' = [poll EXCEPT !.list = n]
    BY <1>22, <2>2 DEF ReadList
  <2>4. UNCHANGED <<view, generation, command, rev>> BY <1>22 DEF ReadList, server
  <2>5. /\ poll' # None /\ poll'.stamp = poll.stamp /\ poll'.list = n /\ poll'.rev = poll.rev
    BY <1>3, <2>3, Typed DEF Polls
  <2>6. poll.rev = None BY <1>2, <2>3 DEF PollOK
  <2>7. n \in Nat /\ \A r \in 1..n : r \in Runs /\ rev[r] # 0
    BY <2>1, Typed DEF RunsAreFirst, Runs
  <2>8. listed \subseteq 1..n
    <3>1. \A r \in listed : r \in Runs /\ r \in Nat \ {0} /\ r <= n
      BY <2>1, Typed DEF IInv, ViewOK, Exists, RunsAreFirst
    <3>2. QED BY <2>7, <3>1
  <2>9. poll.stamp = generation => ~Busy("page") BY <1>2, <2>3 DEF PollOK
  <2>10. ~Busy("page") => ~Busy("page")' BY <2>4 DEF Busy
  <2>11. QED BY <1>3, <2>3, <2>4, <2>5, <2>6, <2>7, <2>8, <2>9, <2>10 DEF PollOK, view, Exists
<1>23. CASE ReadDetail
  <2>1. PICK m, q : q = polled /\ m = rev[q] OBVIOUS
  <2>2. /\ poll # None /\ poll.list # None /\ q # None /\ poll' = [poll EXCEPT !.rev = m]
    BY <1>23, <2>1 DEF ReadDetail
  <2>3. UNCHANGED <<view, generation, command, rev>> BY <1>23 DEF ReadDetail, server
  <2>4. /\ poll' # None /\ poll'.stamp = poll.stamp /\ poll'.list = poll.list /\ poll'.rev = m
    <3>1. poll \in Polls BY <1>3, <2>2
    <3>2. poll' = [stamp |-> poll.stamp, list |-> poll.list, rev |-> m] BY <2>2, <3>1 DEF Polls
    <3>3. q \in Runs /\ m \in 0..MaxRev /\ rev[q] # 0
      BY <1>2, <2>1, <2>2, Typed DEF IInv, ViewOK, Exists
    <3>4. m \in 1..MaxRev BY <2>1, <3>3, Typed
    <3>5. poll' \in Polls BY <3>1, <3>2, <3>4 DEF Polls
    <3>6. QED BY <3>2, <3>5, Typed
  <2>5. detail # None /\ detail.id = q => detail.rev <= m BY <2>1 DEF IInv, ViewOK
  <2>6. m <= rev'[q] BY <1>1, <1>2, <2>1, <2>2, <2>3
  <2>7. ~Busy("page") => ~Busy("page")' BY <2>3 DEF Busy
  <2>8. QED BY <1>2, <1>3, <1>4, <2>1, <2>2, <2>3, <2>4, <2>5, <2>6, <2>7 DEF PollOK, view, Exists
<1>24. CASE UNCHANGED vars BY <1>6, <1>24 DEF vars, Busy
<1>25. QED
  BY <1>10, <1>11, <1>12, <1>13, <1>14, <1>15, <1>16, <1>17, <1>18, <1>19, <1>20, <1>21, <1>22,
     <1>23, <1>24 DEF Next

-----------------------------------------------------------------------------
(* Answers, journals, types.                                               *)

\* A step leaves the page's command alone, or it is one of these.
LEMMA PageCommandSplit ==
    ASSUME IInv, [Next]_vars
    PROVE  \/ Press("create")
           \/ Control
           \/ Answered("page")
           \/ Failed("page")
           \/ Serve("page")
           \/ command'["page"] = command["page"] /\ (crossed' = crossed \/ Answered("workbench"))
<1>1. command \in [Parts -> Commands \cup {None}] /\ "page" \in Parts /\ "workbench" \in Parts
  BY DEF IInv, TypeOK, Parts
<1>2. ASSUME NEW f \in Forms, Press(f), f # "create"
      PROVE  command'["page"] = command["page"] /\ crossed' = crossed
  <2>1. PICK d \in Commands : command' = [command EXCEPT ![PartOf(f)] = d] BY <1>2, PressEffect
  <2>2. PartOf(f) = "workbench" BY <1>2 DEF PartOf
  <2>3. crossed' = crossed BY <1>2, PressEffect
  <2>4. QED BY <1>1, <2>1, <2>2, <2>3
<1>3. ASSUME NEW p \in Parts, Answered(p), p # "page"
      PROVE  command'["page"] = command["page"] /\ Answered("workbench")
  <2>1. PICK c : c = command[p] OBVIOUS
  <2>2. command' = [command EXCEPT ![p] = None] BY <1>3, <2>1, AnsweredEffect
  <2>3. QED BY <1>1, <1>3, <2>2 DEF Parts
<1>4. ASSUME NEW p \in Parts, Failed(p), p # "page"
      PROVE  command'["page"] = command["page"] /\ crossed' = crossed
  <2>1. PICK c : c = command[p] OBVIOUS
  <2>2. command' = [command EXCEPT ![p] = None] /\ crossed' = (crossed /\ p # "page")
    BY <1>4, <2>1, FailedEffect
  <2>3. crossed \in BOOLEAN BY DEF IInv, TypeOK
  <2>4. crossed' = crossed BY <1>4, <2>2, <2>3
  <2>5. QED BY <1>1, <1>4, <2>2, <2>4
<1>5. ASSUME NEW p \in Parts, Serve(p), p # "page"
      PROVE  command'["page"] = command["page"] /\ crossed' = crossed
  <2>1. PICK d \in Commands : command' = [command EXCEPT ![p] = d] BY <1>5, ServeEffect
  <2>2. crossed' = crossed BY <1>5, ServeEffect DEF history
  <2>3. QED BY <1>1, <1>5, <2>1, <2>2
<1>6. CASE Quiet BY <1>6 DEF Quiet
<1>7. QED BY <1>2, <1>3, <1>4, <1>5, <1>6, StepSplit

\* The answer to the page's command stays the newest: while the page is busy only the
\* workbench's new run can change the view, and that crosses the command.
LEMMA AnswerKept ==
    ASSUME IInv, [Next]_vars
    PROVE  AnswerOK'
<1>1. command \in [Parts -> Commands \cup {None}] /\ "page" \in Parts /\ "workbench" \in Parts
  BY DEF IInv, TypeOK, Parts
<1>2. AnswerOK BY DEF IInv
<1>3. crossed \in BOOLEAN BY DEF IInv, TypeOK
<1>4. ASSUME command'["page"] = None, ~crossed' PROVE AnswerOK'
  BY <1>4 DEF AnswerOK, Busy
<1>5. ASSUME NEW d \in Commands, command'["page"] = d, d.answer = None, ~crossed'
      PROVE  AnswerOK'
  BY <1>5, Typed DEF AnswerOK
<1>6. CASE Press("create")
  <2>1. "create" \in Forms /\ PartOf("create") = "page" BY DEF Forms, PartOf
  <2>2. PICK d \in Commands : /\ d.answer = None
                              /\ command' = [command EXCEPT ![PartOf("create")] = d]
    BY <1>6, <2>1, PressEffect
  <2>3. command["page"] = None /\ crossed' = crossed BY <1>6, <2>1, PressEffect
  <2>4. ~crossed BY <1>2, <2>3 DEF AnswerOK, Busy
  <2>5. command'["page"] = d BY <1>1, <2>1, <2>2
  <2>6. QED BY <1>5, <2>2, <2>3, <2>4, <2>5
<1>7. CASE Control
  <2>1. PICK d \in Commands : d.answer = None /\ command' = [command EXCEPT !["page"] = d]
    BY <1>7, ControlEffect
  <2>2. command["page"] = None /\ crossed' = crossed BY <1>7, ControlEffect DEF history
  <2>3. ~crossed BY <1>2, <2>2 DEF AnswerOK, Busy
  <2>4. command'["page"] = d BY <1>1, <2>1
  <2>5. QED BY <1>5, <2>1, <2>2, <2>3, <2>4
<1>8. CASE Answered("page")
  <2>1. PICK c : c = command["page"] OBVIOUS
  <2>2. c # None /\ command' = [command EXCEPT !["page"] = None] BY <1>1, <1>8, <2>1, AnsweredEffect
  <2>3. c.form # "start" BY <1>1, <2>1, <2>2 DEF IInv, CommandsOK, CommandOK, Forms, PartOf
  <2>4. crossed' = (crossed /\ "page" # "page") BY <1>1, <1>8, <2>1, <2>3, AnsweredEffect
  <2>5. command'["page"] = None BY <1>1, <2>2
  <2>6. QED BY <1>4, <2>4, <2>5
<1>9. CASE Failed("page")
  <2>1. PICK c : c = command["page"] OBVIOUS
  <2>2. command' = [command EXCEPT !["page"] = None] /\ crossed' = (crossed /\ "page" # "page")
    BY <1>1, <1>9, <2>1, FailedEffect
  <2>3. command'["page"] = None BY <1>1, <2>2
  <2>4. QED BY <1>4, <2>2, <2>3
<1>10. CASE Serve("page")
  <2>1. PICK a \in Answers, d \in Commands :
          /\ a # None
          /\ d.form = command["page"].form /\ d.key = command["page"].key
          /\ d.id = command["page"].id
          /\ d.answer = a /\ command' = [command EXCEPT !["page"] = d]
          /\ Grows(IF command["page"].form \in Forms THEN {command["page"].key} ELSE {})
          /\ a \in RunStates => /\ a.rev = rev'[a.id] /\ d.form # "save"
                                /\ d.form = "control" => a.id = d.id
    BY <1>1, <1>10, ServeEffect
  <2>2. command["page"] # None /\ UNCHANGED <<view, history>> BY <1>1, <1>10, ServeEffect
  <2>3. command'["page"] = d /\ d # None BY <1>1, <2>1, Typed
  <2>4. a \in RunStates /\ detail # None /\ detail.id = a.id => detail.rev <= a.rev
    <3>1. SUFFICES ASSUME a \in RunStates, detail # None, detail.id = a.id PROVE detail.rev <= a.rev
      OBVIOUS
    <3>2. a.id \in Runs /\ a.rev = rev'[a.id] BY <2>1, <3>1, Typed
    <3>3. detail.rev <= rev[a.id] /\ detail.rev \in Nat BY <3>1, Typed DEF IInv, ViewOK
    <3>4. rev'[a.id] \in Nat /\ rev[a.id] \in Nat /\ rev[a.id] <= rev'[a.id]
      BY <3>2, ServerKept, Typed
    <3>5. QED BY <3>2, <3>3, <3>4
  <2>5. detail' = detail /\ crossed' = crossed BY <2>2 DEF view, history
  <2>6. Busy("page") /\ Busy("page")' BY <2>2, <2>3 DEF Busy
  <2>7. QED BY <2>1, <2>3, <2>4, <2>5, <2>6 DEF AnswerOK
<1>11. ASSUME command'["page"] = command["page"], crossed' = crossed, ~Answered("workbench")
       PROVE  AnswerOK'
  <2>1. CASE ~Busy("page")
    <3>1. ~crossed BY <1>2, <2>1 DEF AnswerOK
    <3>2. QED BY <1>4, <1>11, <2>1, <3>1 DEF Busy
  <2>2. CASE Busy("page")
    <3>1. Busy("page")' BY <1>11, <2>2 DEF Busy
    <3>2. detail' = detail
      <4>1. CASE \E p \in Parts : Answered(p)
        <5>1. Answered("page") BY <1>11, <4>1 DEF Parts
        <5>2. PICK c : c = command["page"] OBVIOUS
        <5>3. command' = [command EXCEPT !["page"] = None] BY <1>1, <5>1, <5>2, AnsweredEffect
        <5>4. QED BY <1>1, <1>11, <2>2, <5>3 DEF Busy
      <4>2. CASE \E r \in Runs \cup {None} : Select(r) BY <2>2, <4>2 DEF Select
      <4>3. CASE Restart BY <4>3 DEF Restart
      <4>4. CASE PollArrives
        <5>1. poll.stamp # generation BY <2>2, <4>4 DEF IInv, PollOK, PollArrives
        <5>2. QED BY <4>4, <5>1 DEF PollArrives, Fresh
      <4>5. CASE UNCHANGED view BY <4>5 DEF view
      <4>6. QED BY <4>1, <4>2, <4>3, <4>4, <4>5, ViewSplit
    <3>3. QED BY <1>2, <1>11, <2>2, <3>1, <3>2 DEF AnswerOK
  <2>3. QED BY <2>1, <2>2
<1>12. ASSUME command'["page"] = command["page"], Answered("workbench") PROVE AnswerOK'
  <2>1. PICK c : c = command["workbench"] OBVIOUS
  <2>2. c # None /\ c \in Commands BY <1>1, <1>12, <2>1, AnsweredEffect
  <2>3. c.form # "create" /\ c.form # "control"
    BY <1>1, <2>1, <2>2 DEF IInv, CommandsOK, CommandOK, Forms, PartOf
  <2>4. \/ c.form = "start" /\ crossed' = Busy("page")
        \/ UNCHANGED <<selected, detail, listed>> /\ crossed' = (crossed /\ "workbench" # "page")
    BY <1>1, <1>12, <2>1, <2>3, AnsweredEffect
  <2>5. CASE crossed' = Busy("page")
    BY <1>12, <2>5 DEF AnswerOK, Busy
  <2>6. CASE UNCHANGED <<selected, detail, listed>> /\ crossed' = (crossed /\ "workbench" # "page")
    <3>1. crossed' = crossed /\ detail' = detail BY <1>3, <2>6
    <3>2. Busy("page")' <=> Busy("page") BY <1>12 DEF Busy
    <3>3. QED BY <1>2, <1>12, <3>1, <3>2 DEF AnswerOK
  <2>7. QED BY <2>4, <2>5, <2>6
<1>13. QED BY <1>6, <1>7, <1>8, <1>9, <1>10, <1>11, <1>12, PageCommandSplit

\* The journal shown is of the run shown, and a control in flight is of that run too.
LEMMA JournalKept ==
    ASSUME IInv, [Next]_vars
    PROVE  JournalOK'
<1>1. command \in [Parts -> Commands \cup {None}] /\ "page" \in Parts /\ "workbench" \in Parts
  BY DEF IInv, TypeOK, Parts
<1>2. /\ detail # None /\ detail.id = selected => detail.journalOf = detail.id
      /\ Busy("page") /\ command["page"].form = "control" /\ detail # None =>
            detail.journalOf = selected
  BY Typed DEF IInv, JournalOK, JournalOfShownRun, Shown
<1>3. ASSUME detail' # None /\ detail'.id = selected' => detail'.journalOf = detail'.id,
             Busy("page")' /\ command'["page"].form = "control" /\ detail' # None =>
                detail'.journalOf = selected'
      PROVE  JournalOK'
  BY <1>3 DEF JournalOK, JournalOfShownRun, Shown
<1>4. CASE \E p \in Parts : Answered(p)
  <2>1. PICK p \in Parts : Answered(p) BY <1>4
  <2>2. PICK c : c = command[p] OBVIOUS
  <2>3. c # None /\ command' = [command EXCEPT ![p] = None] BY <2>1, <2>2, AnsweredEffect
  <2>4. command'["page"] = command["page"] \/ command'["page"] = None BY <1>1, <2>3
  <2>5. p = "page" => command'["page"] = None BY <1>1, <2>3
  <2>6. CASE UNCHANGED <<selected, detail, listed>>
    BY <1>2, <1>3, <2>4, <2>6 DEF Busy
  <2>7. CASE /\ c.form = "control" /\ p = "page"
             /\ UNCHANGED <<selected, listed>>
             /\ \/ detail = None /\ detail' = None
                \/ /\ detail # None /\ detail' \in Details
                   /\ detail'.journalOf = detail.journalOf
    <3>1. Busy("page") /\ command["page"].form = "control" BY <2>2, <2>3, <2>7 DEF Busy
    <3>2. ~Busy("page")' BY <2>5, <2>7 DEF Busy
    <3>3. detail' # None => detail'.journalOf = selected' BY <1>2, <2>7, <3>1
    <3>4. QED BY <1>3, <3>2, <3>3
  <2>8. CASE /\ selected' = c.answer.id
             /\ detail'.id = c.answer.id /\ detail'.journalOf = c.answer.id
    BY <1>3, <2>8
  <2>9. QED BY <2>1, <2>2, <2>6, <2>7, <2>8, AnsweredEffect
<1>5. CASE \E r \in Runs \cup {None} : Select(r)
  BY <1>3, <1>5 DEF Select, ClearDetail
<1>6. CASE PollArrives
  <2>1. command' = command BY <1>6, PollEffect
  <2>2. CASE UNCHANGED <<selected, detail, listed>>
    BY <1>2, <1>3, <2>1, <2>2 DEF Busy
  <2>3. CASE /\ poll.stamp = generation
             /\ \/ polled = None /\ detail' = None
                \/ detail' = [id |-> polled, rev |-> poll.rev, journalOf |-> polled]
    <3>1. ~Busy("page") BY <1>6, <2>3 DEF PollArrives, IInv, PollOK
    <3>2. ~Busy("page")' BY <2>1, <3>1 DEF Busy
    <3>3. QED BY <1>3, <2>3, <3>2
  <2>4. QED BY <1>6, <2>2, <2>3, PollEffect
<1>7. ASSUME selected' = selected, detail' = detail PROVE JournalOK'
  <2>1. CASE Press("create")
    <3>1. "create" \in Forms /\ PartOf("create") = "page" BY DEF Forms, PartOf
    <3>2. PICK d \in Commands : /\ d.form = "create"
                                /\ command' = [command EXCEPT ![PartOf("create")] = d]
      BY <2>1, <3>1, PressEffect
    <3>3. command'["page"] = d BY <1>1, <3>1, <3>2
    <3>4. QED BY <1>2, <1>3, <1>7, <3>2, <3>3
  <2>2. CASE Control
    <3>1. detail # None /\ detail.id = selected BY <2>2, ControlEffect
    <3>2. detail.journalOf = selected BY <1>2, <3>1
    <3>3. QED BY <1>2, <1>3, <1>7, <3>2
  <2>3. CASE Answered("page") \/ Failed("page")
    <3>1. PICK c : c = command["page"] OBVIOUS
    <3>2. command' = [command EXCEPT !["page"] = None]
      BY <1>1, <2>3, <3>1, AnsweredEffect, FailedEffect
    <3>3. ~Busy("page")' BY <1>1, <3>2 DEF Busy
    <3>4. QED BY <1>2, <1>3, <1>7, <3>3
  <2>4. CASE Serve("page")
    <3>1. PICK d \in Commands : /\ d.form = command["page"].form
                                /\ command' = [command EXCEPT !["page"] = d]
      BY <1>1, <2>4, ServeEffect
    <3>2. command["page"] # None BY <1>1, <2>4, ServeEffect
    <3>3. command'["page"].form = command["page"].form BY <1>1, <3>1
    <3>4. Busy("page") BY <3>2 DEF Busy
    <3>5. QED BY <1>2, <1>3, <1>7, <3>3, <3>4
  <2>5. CASE command'["page"] = command["page"]
    BY <1>2, <1>3, <1>7, <2>5 DEF Busy
  <2>6. QED BY <2>1, <2>2, <2>3, <2>4, <2>5, PageCommandSplit
<1>8. QED BY <1>4, <1>5, <1>6, <1>7, ViewSplit DEF Restart, view

\* The types, from the effects.
LEMMA TypeKept ==
    ASSUME IInv, [Next]_vars
    PROVE  TypeOK'
<1>1. /\ command \in [Parts -> Commands \cup {None}] /\ "page" \in Parts /\ "workbench" \in Parts
      /\ pending \in [Forms -> 0..MaxKeys] /\ wish \in [Forms -> 0..MaxKeys]
      /\ wishOf \in [Keys -> 0..MaxKeys] /\ stray \subseteq Forms \X Keys
      /\ crossed \in BOOLEAN /\ poll \in Polls \cup {None}
  BY DEF IInv, TypeOK, Parts
<1>2. /\ command' \in [Parts -> Commands \cup {None}]
      /\ pending' \in [Forms -> 0..MaxKeys] /\ wish' \in [Forms -> 0..MaxKeys]
      /\ wishOf' \in [Keys -> 0..MaxKeys] /\ stray' \subseteq Forms \X Keys
      /\ crossed' \in BOOLEAN
  <2>1. CASE \E f \in Forms : Press(f)
    <3>a. PICK f \in Forms : Press(f) BY <2>1
    <3>1. PICK k \in Keys, d \in Commands :
            /\ command' = [command EXCEPT ![PartOf(f)] = d]
            /\ pending' = [pending EXCEPT ![f] = k]
            /\ wish' = [wish EXCEPT ![f] = k]
            /\ wishOf' \in [Keys -> 0..MaxKeys]
      BY <3>a, PressEffect
    <3>2. k \in 0..MaxKeys BY PageAssumption DEF Keys
    <3>3. UNCHANGED <<stray, crossed>> BY <3>a DEF Press, server
    <3>4. command' \in [Parts -> Commands \cup {None}] BY <1>1, <3>1
    <3>5. pending' \in [Forms -> 0..MaxKeys] /\ wish' \in [Forms -> 0..MaxKeys]
      BY <1>1, <3>1, <3>2
    <3>6. QED BY <1>1, <3>1, <3>3, <3>4, <3>5
  <2>2. CASE Control
    <3>1. PICK d \in Commands : command' = [command EXCEPT !["page"] = d] BY <2>2, ControlEffect
    <3>2. UNCHANGED <<pending, wish, wishOf, stray, crossed>> BY <2>2 DEF Control, server, history
    <3>3. QED BY <1>1, <3>1, <3>2
  <2>3. CASE \E p \in Parts : Answered(p)
    <3>a. PICK p \in Parts : Answered(p) BY <2>3
    <3>1. PICK c : c = command[p] OBVIOUS
    <3>2. /\ command' = [command EXCEPT ![p] = None]
          /\ pending' \in [Forms -> 0..MaxKeys] /\ wish' \in [Forms -> 0..MaxKeys]
          /\ UNCHANGED <<server, wishOf>>
      BY <3>a, <3>1, AnsweredEffect
    <3>3. crossed' \in BOOLEAN
      <4>1. crossed' = Busy("page") \/ crossed' = (crossed /\ p # "page")
        BY <3>a, <3>1, AnsweredEffect
      <4>2. QED BY <4>1 DEF Busy
    <3>4. command' \in [Parts -> Commands \cup {None}] BY <1>1, <3>2
    <3>5. QED BY <1>1, <3>2, <3>3, <3>4 DEF server
  <2>4. CASE \E p \in Parts : Failed(p)
    <3>a. PICK p \in Parts : Failed(p) BY <2>4
    <3>1. PICK c : c = command[p] OBVIOUS
    <3>2. /\ command' = [command EXCEPT ![p] = None]
          /\ \A s \in stray' : s \in stray \/ (c.form \in Forms /\ c.key \in Keys /\ s = <<c.form, c.key>>)
          /\ crossed' = (crossed /\ p # "page")
          /\ UNCHANGED <<pending, wish, wishOf>>
      BY <3>a, <3>1, FailedEffect
    <3>3. command' \in [Parts -> Commands \cup {None}] BY <1>1, <3>2
    <3>4. stray' \subseteq Forms \X Keys BY <1>1, <3>2
    <3>5. crossed' \in BOOLEAN BY <3>2
    <3>6. QED BY <1>1, <3>2, <3>3, <3>4, <3>5
  <2>5. CASE \E p \in Parts : Serve(p)
    <3>a. PICK p \in Parts : Serve(p) BY <2>5
    <3>1. PICK d \in Commands : command' = [command EXCEPT ![p] = d] BY <3>a, ServeEffect
    <3>2. UNCHANGED <<pending, wish, wishOf, stray, crossed>> BY <3>a DEF Serve, history
    <3>3. QED BY <1>1, <3>1, <3>2
  <2>6. CASE Quiet BY <1>1, <2>6 DEF Quiet
  <2>7. QED BY <2>1, <2>2, <2>3, <2>4, <2>5, <2>6, StepSplit
<1>3. poll' \in Polls \cup {None}
  <2>1. CASE UNCHANGED poll BY <1>1, <2>1
  <2>2. CASE StartPoll
    <3>1. generation \in 0..MaxCommands BY DEF IInv, TypeOK
    <3>2. poll' = [stamp |-> generation, list |-> None, rev |-> None] BY <2>2 DEF StartPoll
    <3>3. QED BY <3>1, <3>2 DEF Polls
  <2>3. CASE ReadList
    <3>1. PICK n \in 0..MaxRuns : RunsAreFirst(n) BY DEF IInv, ServerOK
    <3>2. Existing = n BY <3>1, ExistingIs
    <3>3. poll' = [poll EXCEPT !.list = n] /\ poll \in Polls BY <1>1, <2>3, <3>2 DEF ReadList
    <3>4. QED BY <3>3 DEF Polls
  <2>4. CASE ReadDetail
    <3>1. PICK m : m = rev[polled] OBVIOUS
    <3>2. polled \in Runs /\ rev[polled] # 0
      BY <2>4 DEF ReadDetail, IInv, TypeOK, ViewOK, Exists
    <3>3. m \in 1..MaxRev BY <3>1, <3>2, Typed
    <3>4. poll' = [poll EXCEPT !.rev = m] /\ poll \in Polls BY <1>1, <2>4, <3>1 DEF ReadDetail
    <3>5. QED BY <3>3, <3>4 DEF Polls
  <2>5. CASE poll' = None BY <2>5
  <2>6. QED
    BY <2>1, <2>2, <2>3, <2>4, <2>5
       DEF Next, Press, Control, Answered, Failed, Serve, Select, Tick, Restart, PollArrives,
           PollFails, ServeStray, vars
<1>4. QED BY <1>2, <1>3, ViewKept, ServerKept, NumberedKept DEF TypeOK

-----------------------------------------------------------------------------
(* Invariance.                                                             *)

\* A page just opened satisfies the inductive invariant.
LEMMA InitHolds ==
    ASSUME Init
    PROVE  IInv
<1>1. /\ 0 \in 0..MaxKeys /\ 0 \in 0..MaxRuns /\ 0 \in 0..MaxCommands
      /\ 0 \in 0..MaxRev /\ 1 \in 0..MaxRev /\ 1 \in Runs /\ 1 \in 0..MaxRuns
  BY PageAssumption DEF Runs
<1>2. PICK n \in 0..MaxRuns : RunsAreFirst(n)
  <2>1. CASE rev = [r \in Runs |-> 0]
    <3>1. RunsAreFirst(0) BY <2>1 DEF RunsAreFirst, Runs
    <3>2. QED BY <1>1, <3>1
  <2>2. CASE rev = [r \in Runs |-> IF r = 1 THEN 1 ELSE 0]
    <3>1. RunsAreFirst(1) BY <2>2 DEF RunsAreFirst, Runs
    <3>2. QED BY <1>1, <3>1
  <2>3. QED BY <2>1, <2>2 DEF Init
<1>3. rev \in [Runs -> 0..MaxRev] BY <1>1 DEF Init
<1>4. TypeOK BY <1>1, <1>3 DEF Init, TypeOK
<1>5. \A p \in Parts : command[p] = None BY DEF Init
<1>6. CommandsOK
  <2>1. ~Starting BY <1>5 DEF Starting, Busy, Parts
  <2>2. Numbered = 0 BY <2>1 DEF Numbered, Init
  <2>3. QED BY <1>5, <2>2, PageAssumption DEF CommandsOK, CommandOK
<1>7. KeysOK BY <1>5 DEF KeysOK, Init
<1>8. ServerOK BY <1>2 DEF ServerOK, Init
<1>9. ViewOK /\ PollOK BY DEF ViewOK, PollOK, Init
<1>10. AnswerOK /\ JournalOK
  <2>1. ~Busy("page") BY <1>5 DEF Busy, Parts
  <2>2. QED BY <2>1 DEF AnswerOK, JournalOK, JournalOfShownRun, Shown, Init
<1>11. QED BY <1>4, <1>6, <1>7, <1>8, <1>9, <1>10 DEF IInv

\* Every step keeps it.
LEMMA Inductive ==
    ASSUME IInv, [Next]_vars
    PROVE  IInv'
BY TypeKept, CommandsKept, KeysKept, ServerKept, ViewKept, PollKept, AnswerKept, JournalKept DEF IInv

\* The page, its polls and the server keep the inductive invariant.
THEOREM Invariance == Spec => []IInv
<1>1. Init => IInv BY InitHolds
<1>2. IInv /\ [Next]_vars => IInv' BY Inductive
<1>3. QED BY <1>1, <1>2, PTL DEF Spec

\* The variables keep their types: no command is numbered beyond the bound, no list or
\* poll names a run that cannot be.
THEOREM TypeCorrect == Spec => []TypeOK
<1>1. IInv => TypeOK BY DEF IInv
<1>2. QED BY <1>1, Invariance, PTL

\* One wish of the user makes one run or strategy, however often its form is sent again
\* and however late the server gets to the first request.
THEOREM OneEffect == Spec => []OneEffectPerWish
<1>1. ASSUME IInv PROVE OneEffectPerWish
  <2>1. \A k \in Keys : runOf[k] # 0 \/ k \in saved => wishOf[k] = k
    BY <1>1 DEF IInv, KeysOK
  <2>2. QED BY <2>1 DEF OneEffectPerWish
<1>2. IInv => OneEffectPerWish BY <1>1
<1>3. QED BY <1>2, Invariance, PTL

\* The journal shown is that of the run shown.
THEOREM JournalsMatch == Spec => []JournalOfShownRun
<1>1. IInv => JournalOfShownRun BY DEF IInv, JournalOK
<1>2. QED BY <1>1, Invariance, PTL

-----------------------------------------------------------------------------
(* What is shown never gets older.                                         *)

\* The list only grows: a poll that is taken has read all that is listed.
LEMMA ListGrows ==
    ASSUME IInv, [Next]_vars
    PROVE  listed \subseteq listed'
<1>1. CASE \E p \in Parts : Answered(p)
  <2>1. PICK p \in Parts : Answered(p) BY <1>1
  <2>2. PICK c : c = command[p] OBVIOUS
  <2>3. listed' = listed \/ listed' = listed \cup {c.answer.id} BY <2>1, <2>2, AnsweredEffect
  <2>4. QED BY <2>3
<1>2. CASE \E r \in Runs \cup {None} : Select(r) BY <1>2 DEF Select
<1>3. CASE Restart BY <1>3 DEF Restart
<1>4. CASE PollArrives
  <2>1. poll # None /\ poll.list # None BY <1>4 DEF PollArrives
  <2>2. poll.stamp = generation => listed \subseteq 1..poll.list BY <2>1 DEF IInv, PollOK
  <2>3. QED BY <1>4, <2>2, PollEffect
<1>5. CASE UNCHANGED view BY <1>5 DEF view
<1>6. QED BY <1>1, <1>2, <1>3, <1>4, <1>5, ViewSplit

\* The state of the run shown only advances, but for the answers that may cross.
LEMMA ShownAdvances ==
    ASSUME IInv, [Next]_vars,
           detail # None, detail.id = selected, detail' # None, detail'.id = selected',
           detail.id = detail'.id, ~(Starting /\ ~Starting'), ~crossed
    PROVE  detail.rev <= detail'.rev
<1>1. /\ command \in [Parts -> Commands \cup {None}] /\ "page" \in Parts /\ "workbench" \in Parts
      /\ detail.rev \in Nat
  BY Typed DEF IInv, TypeOK, Parts
<1>2. CASE detail' = detail BY <1>1, <1>2
<1>3. CASE \E p \in Parts : Answered(p)
  <2>1. PICK p \in Parts : Answered(p) BY <1>3
  <2>2. PICK c : c = command[p] OBVIOUS
  <2>3. c # None /\ command' = [command EXCEPT ![p] = None] BY <2>1, <2>2, AnsweredEffect
  <2>4. \/ detail' = detail
        \/ /\ c.form \in {"control", "create", "start"} /\ c.answer \in RunStates
           /\ detail'.id = c.answer.id /\ detail'.rev = c.answer.rev
    BY <2>1, <2>2, AnsweredEffect
  <2>5. c.form \in {"control", "create"} => p = "page"
    BY <2>2, <2>3 DEF IInv, CommandsOK, CommandOK, Forms, PartOf
  <2>6. c.form # "start"
    <3>1. SUFFICES ASSUME c.form = "start" PROVE FALSE OBVIOUS
    <3>2. p = "workbench" BY <2>2, <2>3, <3>1 DEF IInv, CommandsOK, CommandOK, Forms, PartOf
    <3>3. Starting BY <2>2, <2>3, <3>1, <3>2 DEF Starting, Busy
    <3>4. command'["workbench"] = None BY <1>1, <2>3, <3>2
    <3>5. ~Starting' BY <3>4 DEF Starting, Busy
    <3>6. QED BY <3>3, <3>5
  <2>7. CASE /\ p = "page" /\ c.answer \in RunStates
             /\ detail'.id = c.answer.id /\ detail'.rev = c.answer.rev
    <3>1. Busy("page") /\ command["page"].answer = c.answer BY <2>2, <2>3, <2>7 DEF Busy
    <3>2. QED BY <2>7, <3>1 DEF IInv, AnswerOK
  <2>8. QED BY <1>2, <2>4, <2>5, <2>6, <2>7
<1>4. CASE \E r \in Runs \cup {None} : Select(r) BY <1>4 DEF Select, ClearDetail
<1>5. CASE PollArrives
  <2>1. CASE /\ poll.stamp = generation /\ polled # None /\ poll.rev \in 1..MaxRev
             /\ detail' = [id |-> polled, rev |-> poll.rev, journalOf |-> polled]
    <3>1. poll # None BY <1>5 DEF PollArrives
    <3>2. poll.rev # None BY <2>1, PageAssumption
    <3>3. detail.id = polled /\ detail'.rev = poll.rev BY <2>1
    <3>4. QED BY <2>1, <3>1, <3>2, <3>3 DEF IInv, PollOK
  <2>2. QED BY <1>2, <1>5, <2>1, PollEffect
<1>6. QED BY <1>2, <1>3, <1>4, <1>5, ViewSplit DEF Restart, view

\* Nothing shown is replaced by something older that a poll or a control brings late.
THEOREM NeverOlder == Spec => ShownNeverOlder
<1>1. ASSUME IInv, [Next]_vars
      PROVE  /\ listed \subseteq listed'
             /\ /\ Shown # None /\ Shown' # None
                /\ Shown.id = Shown'.id
                /\ ~(Starting /\ ~Starting') /\ ~crossed
                => Shown'.rev >= Shown.rev
  <2>1. Shown # None => detail # None /\ detail.id = selected /\ Shown = detail BY DEF Shown
  <2>2. Shown' # None => detail' # None /\ detail'.id = selected' /\ Shown' = detail' BY DEF Shown
  <2>3. SUFFICES ASSUME Shown # None, Shown' # None, Shown.id = Shown'.id,
                        ~(Starting /\ ~Starting'), ~crossed
                 PROVE  Shown'.rev >= Shown.rev
    BY <1>1, ListGrows
  <2>4. detail.rev <= detail'.rev BY <1>1, <2>1, <2>2, <2>3, ShownAdvances
  <2>5. detail.rev \in Nat BY <1>1, <2>1, <2>3, Typed
  <2>6. detail'.rev \in Nat BY <1>1, <2>2, <2>3, ViewKept, Typed DEF Details
  <2>7. QED BY <2>1, <2>2, <2>3, <2>4, <2>5, <2>6
<1>2. IInv /\ [Next]_vars =>
        [/\ listed \subseteq listed'
         /\ /\ Shown # None /\ Shown' # None
            /\ Shown.id = Shown'.id
            /\ ~(Starting /\ ~Starting') /\ ~crossed
            => Shown'.rev >= Shown.rev]_vars
  BY <1>1
<1>3. QED BY <1>2, Invariance, PTL DEF Spec, ShownNeverOlder
=============================================================================
