---------------------------- MODULE AutoTradingProofs ----------------------------
(***************************************************************************)
(* Proofs about AutoTrading, for any set of runs, any number of schedulers *)
(* and creation workers, any length of the price history and any limits.   *)
(*                                                                         *)
(* The argument: while a scheduler is in a tick nobody else has the row,   *)
(* so what it read under the lock is still true when it commits            *)
(* (TickOK); while a creation is locked no other creation inserts, and     *)
(* nothing else adds an unfinished run, so what a plain one counted is     *)
(* still an upper bound when it inserts (CreationOK).                      *)
(***************************************************************************)
EXTENDS AutoTrading, FiniteSetTheorems, TLAPS

-----------------------------------------------------------------------------
(* The inductive invariant.                                                *)

\* A run that does not exist has no trace.
AbsentOK == \A r \in Runs : row[r].status = "NONE" => row[r] = NoRow

\* A scheduler in a tick holds the row of a run that is running and due, and
\* calculates the day after its cursor.
TickOK(s) ==
    scheduler[s].phase = "tick" =>
        /\ scheduler[s].run \in Runs
        /\ row[scheduler[s].run].status = "RUNNING"
        /\ due[scheduler[s].run]
        /\ scheduler[s].next = row[scheduler[s].run].cursor + 1

FailOK(s) == scheduler[s].phase = "fail" => scheduler[s].run \in Runs

OneTickPerRun ==
    \A s, t \in Schedulers :
        /\ scheduler[s].phase = "tick" /\ scheduler[t].phase = "tick"
        /\ scheduler[s].run = scheduler[t].run
        => s = t

\* Creations take turns, and a plain one that has its turn found room.
CreationOK(h) ==
    /\ creation[h].phase # "idle" => creation[h].run \in Runs /\ creation[h].origin \in Origins
    /\ creation[h].phase = "locked" /\ creation[h].origin = "plain"
         => Cardinality(UnfinishedRuns) < MaxUnfinished

OneCreation ==
    \A g, h \in Handlers : creation[g].phase = "locked" /\ creation[h].phase = "locked" => g = h

\* The invariant in parts, each kept by the steps that touch only the others.
RunsOK == JournalMatchesCursor /\ EventTellsStatus /\ AbsentOK

TicksOK == (\A s \in Schedulers : TickOK(s) /\ FailOK(s)) /\ OneTickPerRun

CreationsOK ==
    IsFiniteSet(UnfinishedRuns) /\ (\A h \in Handlers : CreationOK(h)) /\ OneCreation

IInv == TypeOK /\ RunsOK /\ TicksOK /\ CreationsOK

-----------------------------------------------------------------------------
(* What steps have in common.                                              *)

\* The half about runs speaks of three variables only.
LEMMA RunsKept ==
    ASSUME RunsOK, UNCHANGED <<row, lastEvent>>
    PROVE  RunsOK'
BY DEF RunsOK, JournalMatchesCursor, EventTellsStatus, AbsentOK

\* Creations stay right while nothing is created and no run opens again.
LEMMA CreationsKept ==
    ASSUME MaxUnfinished \in Nat, CreationsOK, UNCHANGED creation,
           UnfinishedRuns' \subseteq UnfinishedRuns
    PROVE  CreationsOK'
<1>1. /\ IsFiniteSet(UnfinishedRuns') /\ Cardinality(UnfinishedRuns') <= Cardinality(UnfinishedRuns)
      /\ Cardinality(UnfinishedRuns') \in Nat /\ Cardinality(UnfinishedRuns) \in Nat
  BY FS_Subset, FS_CardinalityType DEF CreationsOK
<1>2. ASSUME NEW h \in Handlers PROVE CreationOK(h)'
  BY <1>1 DEF CreationsOK, CreationOK
<1> QED
  BY <1>1, <1>2 DEF CreationsOK, OneCreation

\* Ticks stay right when one scheduler leaves its tick, or was in none, and the
\* rows of the others' ticks are as they were.
LEMMA LeavingTick ==
    ASSUME TypeOK, TicksOK, NEW s \in Schedulers,
           \A t \in Schedulers \ {s} : scheduler'[t] = scheduler[t],
           scheduler'[s].phase # "tick", FailOK(s)',
           \A t \in Schedulers \ {s} : scheduler[t].phase = "tick" =>
               /\ row'[scheduler[t].run].status = row[scheduler[t].run].status
               /\ row'[scheduler[t].run].cursor = row[scheduler[t].run].cursor
               /\ due'[scheduler[t].run] = due[scheduler[t].run]
    PROVE  TicksOK'
<1>1. ASSUME NEW t \in Schedulers PROVE TickOK(t)' /\ FailOK(t)'
  <2>1. CASE t = s
    BY <2>1 DEF TickOK
  <2>2. CASE t # s
    <3>1. TickOK(t) /\ FailOK(t) /\ scheduler'[t] = scheduler[t]
      BY <2>2 DEF TicksOK
    <3> QED
      BY <2>2, <3>1 DEF TickOK, FailOK
  <2> QED
    BY <2>1, <2>2
<1>2. OneTickPerRun'
  BY DEF TicksOK, OneTickPerRun
<1> QED
  BY <1>1, <1>2 DEF TicksOK

\* A scheduler that rests is in no tick and no failure.
LEMMA RestIs ==
    ASSUME TypeOK, NEW s \in Schedulers, Rest(s)
    PROVE  /\ scheduler' \in [Schedulers -> [phase : {"idle", "tick", "fail"}, run : Runs \cup {None},
                                             next : 0..Bars, list : SUBSET Runs]]
           /\ scheduler'[s].phase = "idle"
           /\ \A t \in Schedulers \ {s} : scheduler'[t] = scheduler[t]
<1>1. scheduler[s] \in [phase : {"idle", "tick", "fail"}, run : Runs \cup {None},
                        next : 0..Bars, list : SUBSET Runs]
  BY DEF TypeOK
<1>2. [Idle EXCEPT !.list = scheduler[s].list]
        = [phase |-> "idle", run |-> None, next |-> 0, list |-> scheduler[s].list]
  BY DEF Idle
<1>3. [phase |-> "idle", run |-> None, next |-> 0, list |-> scheduler[s].list]
        \in [phase : {"idle", "tick", "fail"}, run : Runs \cup {None},
             next : 0..Bars, list : SUBSET Runs]
  BY <1>1, AutoAssumption
<1> QED
  BY <1>2, <1>3 DEF TypeOK, Rest

\* A run that runs has a day left.
LEMMA DayLeft ==
    ASSUME RunsOK, NEW r \in Runs, row[r] \in Row, row[r].status = "RUNNING"
    PROVE  row[r].cursor + 1 \in 1..Bars
<1>1. row[r].cursor \in 0..Bars
  BY DEF Row
<1>2. row[r].status = "COMPLETED" <=> row[r].cursor = Bars
  BY DEF RunsOK, JournalMatchesCursor
<1> QED
  BY <1>1, <1>2, AutoAssumption

-----------------------------------------------------------------------------
(* The initial state.                                                      *)

LEMMA InitInv == Init => IInv
<1> SUFFICES ASSUME Init PROVE IInv
  OBVIOUS
<1>1. NoRow \in Row
  BY AutoAssumption DEF NoRow, Row
<1>2. TypeOK
  BY <1>1, AutoAssumption DEF Init, TypeOK, Idle, NoCreation
<1>3. RunsOK
  <2>1. JournalMatchesCursor
    BY AutoAssumption DEF Init, JournalMatchesCursor, NoRow
  <2> QED
    BY <2>1 DEF Init, RunsOK, EventTellsStatus, AbsentOK, NoRow
<1>4. TicksOK
  BY DEF Init, TicksOK, TickOK, FailOK, OneTickPerRun, Idle
<1>5. UnfinishedRuns = {}
  BY DEF Init, UnfinishedRuns, NoRow, Unfinished
<1>6. CreationsOK
  BY <1>5, FS_EmptySet DEF Init, CreationsOK, CreationOK, OneCreation, NoCreation
<1> QED
  BY <1>2, <1>3, <1>4, <1>6 DEF IInv

-----------------------------------------------------------------------------
(* The scheduler's steps.                                                  *)

LEMMA PollKeeps ==
    ASSUME IInv, NEW s \in Schedulers, Poll(s)
    PROVE  IInv'
<1>1. TypeOK /\ RunsOK /\ TicksOK /\ CreationsOK
  BY DEF IInv
<1>2. \A t \in Schedulers : /\ scheduler'[t].phase = scheduler[t].phase
                            /\ scheduler'[t].run = scheduler[t].run
                            /\ scheduler'[t].next = scheduler[t].next
  BY <1>1 DEF Poll, TypeOK
<1>3. TypeOK'
  BY <1>1 DEF Poll, TypeOK
<1>4. RunsOK'
  BY <1>1, RunsKept DEF Poll
<1>5. TicksOK'
  BY <1>1, <1>2 DEF Poll, TicksOK, TickOK, FailOK, OneTickPerRun
<1>6. CreationsOK'
  BY <1>1, CreationsKept, AutoAssumption DEF Poll, UnfinishedRuns
<1> QED
  BY <1>3, <1>4, <1>5, <1>6 DEF IInv

\* The lock makes the tick that begins the only one of its run.
LEMMA VisitKeeps ==
    ASSUME IInv, NEW s \in Schedulers, NEW r \in Runs, Visit(s, r)
    PROVE  IInv'
<1>1. TypeOK /\ RunsOK /\ TicksOK /\ CreationsOK
  BY DEF IInv
<1> DEFINE sched == [phase |-> IF Tickable(r) THEN "tick" ELSE "idle",
                     run   |-> IF Tickable(r) THEN r ELSE None,
                     next  |-> IF Tickable(r) THEN row[r].cursor + 1 ELSE 0,
                     list  |-> scheduler[s].list \ {r}]
<1>2. scheduler' = [scheduler EXCEPT ![s] = sched]
  BY DEF Visit
<1>3. row[r] \in Row /\ scheduler[s].list \in SUBSET Runs
  BY <1>1 DEF TypeOK
<1>4. Tickable(r) => row[r].cursor + 1 \in 0..Bars
  BY <1>1, <1>3, DayLeft DEF Tickable
<1>5. sched \in [phase : {"idle", "tick", "fail"}, run : Runs \cup {None},
                 next : 0..Bars, list : SUBSET Runs]
  BY <1>3, <1>4, AutoAssumption
<1>6. TypeOK'
  BY <1>1, <1>2, <1>5 DEF Visit, TypeOK
<1>7. RunsOK'
  BY <1>1, RunsKept DEF Visit
<1>8. CreationsOK'
  BY <1>1, CreationsKept, AutoAssumption DEF Visit, UnfinishedRuns
<1>9. \A t \in Schedulers : scheduler'[t] = IF t = s THEN sched ELSE scheduler[t]
  BY <1>1, <1>2 DEF TypeOK
<1>10. \A t \in Schedulers : TickOK(t)' /\ FailOK(t)'
  BY <1>1, <1>9 DEF Visit, TicksOK, TickOK, FailOK, Tickable
<1>11. OneTickPerRun'
  BY <1>1, <1>9 DEF Visit, TicksOK, OneTickPerRun, RowFree, Tickable
<1> QED
  BY <1>6, <1>7, <1>8, <1>10, <1>11 DEF IInv, TicksOK

\* The journal of a run with one day more.
LEMMA JournalGrows ==
    ASSUME NEW c \in Nat
    PROVE  Append([i \in 1..c |-> i], c + 1) = [i \in 1..c + 1 |-> i]
<1>1. [i \in 1..c |-> i] \in Seq(Nat)
  OBVIOUS
<1>2. Len([i \in 1..c |-> i]) = c
  OBVIOUS
<1> QED
  BY <1>1, <1>2

\* The update of a tick, field by field.
LEMMA RowAfterTick ==
    ASSUME NEW w \in Row, NEW end, NEW next, NEW grown
    PROVE  [w EXCEPT !.journal = grown, !.cursor = next, !.days = next, !.status = end]
             = [status |-> end, origin |-> w.origin, cursor |-> next,
                days |-> next, journal |-> grown]
<1> DEFINE w1 == [w EXCEPT !.journal = grown]
           w2 == [w1 EXCEPT !.cursor = next]
           w3 == [w2 EXCEPT !.days = next]
<1>1. w1 = [status |-> w.status, origin |-> w.origin, cursor |-> w.cursor,
            days |-> w.days, journal |-> grown]
  BY DEF Row
<1>2. w2 = [status |-> w.status, origin |-> w.origin, cursor |-> next,
            days |-> w.days, journal |-> grown]
  <2> HIDE DEF w1
  <2> QED
    BY <1>1
<1>3. w3 = [status |-> w.status, origin |-> w.origin, cursor |-> next,
            days |-> next, journal |-> grown]
  <2> HIDE DEF w2
  <2> QED
    BY <1>2
<1>4. [w3 EXCEPT !.status = end]
        = [status |-> end, origin |-> w.origin, cursor |-> next,
           days |-> next, journal |-> grown]
  <2> HIDE DEF w3
  <2> QED
    BY <1>3
<1> QED
  BY <1>4

\* What a tick does to its row.
LEMMA TickRow ==
    ASSUME IInv, NEW s \in Schedulers, Tick(s), NEW r, r = scheduler[s].run
    PROVE  /\ r \in Runs /\ row[r] \in Row
           /\ row[r].status = "RUNNING" /\ due[r]
           /\ scheduler[s].next = row[r].cursor + 1 /\ row[r].cursor + 1 \in 1..Bars
           /\ row' = [row EXCEPT ![r] =
                 [status  |-> IF row[r].cursor + 1 = Bars THEN "COMPLETED" ELSE "RUNNING",
                  origin  |-> row[r].origin,
                  cursor  |-> row[r].cursor + 1,
                  days    |-> row[r].cursor + 1,
                  journal |-> Append(row[r].journal, row[r].cursor + 1)]]
           /\ row'[r] \in Row /\ row'[r].cursor = row[r].cursor + 1
           /\ \A x \in Runs \ {r} : row'[x] = row[x]
<1>1. TypeOK /\ RunsOK /\ TickOK(s)
  BY DEF IInv, TicksOK
<1>2. /\ r \in Runs /\ row[r].status = "RUNNING" /\ due[r]
      /\ scheduler[s].next = row[r].cursor + 1
  BY <1>1 DEF Tick, TickOK
<1>3. row[r] \in Row
  BY <1>1, <1>2 DEF TypeOK
<1>4. row[r].cursor + 1 \in 1..Bars
  BY <1>1, <1>2, <1>3, DayLeft
<1> DEFINE next == row[r].cursor + 1
           new == [status  |-> IF next = Bars THEN "COMPLETED" ELSE "RUNNING",
                   origin  |-> row[r].origin,
                   cursor  |-> next,
                   days    |-> next,
                   journal |-> Append(row[r].journal, next)]
<1>5. [row[r] EXCEPT !.journal = Append(@, next), !.cursor = next, !.days = next,
                     !.status = IF next = Bars THEN "COMPLETED" ELSE "RUNNING"] = new
  <2>1. PICK w \in Row : w = row[r]
    BY <1>3
  <2>2. PICK end, grown, n :
                          /\ n = next
                          /\ end = (IF next = Bars THEN "COMPLETED" ELSE "RUNNING")
                          /\ grown = Append(row[r].journal, next)
    OBVIOUS
  <2>3. [w EXCEPT !.journal = grown, !.cursor = n, !.days = n, !.status = end]
          = [status |-> end, origin |-> w.origin, cursor |-> n,
             days |-> n, journal |-> grown]
    BY RowAfterTick
  <2> QED
    BY <2>1, <2>2, <2>3
<1>6. row' = [row EXCEPT ![r] = new]
  <2>1. row' = [row EXCEPT ![r].journal = Append(@, next), ![r].cursor = next, ![r].days = next,
                           ![r].status = IF next = Bars THEN "COMPLETED" ELSE "RUNNING"]
    BY <1>2 DEF Tick, LastDay
  <2>2. \A x \in Runs : row'[x] = IF x = r THEN new ELSE row[x]
    BY <1>1, <1>2, <1>5, <2>1 DEF TypeOK
  <2>3. row' \in [Runs -> {row'[x] : x \in Runs}] 
    BY <1>1, <2>1 DEF TypeOK
  <2> QED
    BY <1>1, <2>2, <2>3 DEF TypeOK
<1>7. new \in Row
  <2>1. row[r].journal \in Seq(1..Bars) /\ row[r].origin \in Origins \cup {None}
    BY <1>3 DEF Row
  <2>2. Append(row[r].journal, next) \in Seq(1..Bars)
    BY <1>4, <2>1
  <2> QED
    BY <1>4, <2>1, <2>2, AutoAssumption DEF Row, Unfinished, Ended
<1>8. row'[r] = new /\ (\A x \in Runs \ {r} : row'[x] = row[x])
  BY <1>1, <1>2, <1>6 DEF TypeOK
<1>9. row'[r].cursor = row[r].cursor + 1
  BY <1>8
<1> QED
  BY <1>2, <1>3, <1>4, <1>6, <1>7, <1>8, <1>9

\* A tick writes the day that follows what its run has, and ends the run with
\* its last day.
LEMMA TickKeeps ==
    ASSUME IInv, NEW s \in Schedulers, Tick(s)
    PROVE  IInv'
<1>1. TypeOK /\ RunsOK /\ TicksOK /\ CreationsOK
  BY DEF IInv
<1>2. PICK r : r = scheduler[s].run
  OBVIOUS
<1>3. PICK next : next = row[r].cursor + 1
  OBVIOUS
<1>4. /\ r \in Runs /\ row[r] \in Row /\ row[r].status = "RUNNING" /\ next \in 1..Bars
      /\ scheduler[s].next = next
  BY <1>2, <1>3, TickRow
<1>5. PICK new : /\ row' = [row EXCEPT ![r] = new] /\ row'[r] \in Row
                 /\ new = [status  |-> IF next = Bars THEN "COMPLETED" ELSE "RUNNING",
                           origin  |-> row[r].origin,
                           cursor  |-> next,
                           days    |-> next,
                           journal |-> Append(row[r].journal, next)]
  <2> DEFINE rec == [status  |-> IF next = Bars THEN "COMPLETED" ELSE "RUNNING",
                     origin  |-> row[r].origin,
                     cursor  |-> next,
                     days    |-> next,
                     journal |-> Append(row[r].journal, next)]
  <2>1. row' = [row EXCEPT ![r] = rec]
    BY <1>2, <1>3, TickRow
  <2>2. row'[r] \in Row
    BY <1>2, TickRow
  <2> QED
    BY <2>1, <2>2
<1>6. \A x \in Runs : row'[x] = IF x = r THEN new ELSE row[x]
  BY <1>1, <1>4, <1>5 DEF TypeOK
<1>7. /\ new.status = (IF next = Bars THEN "COMPLETED" ELSE "RUNNING")
      /\ new.cursor = next /\ new.days = next
      /\ new.journal = Append(row[r].journal, next)
  BY <1>5
<1>8. Rest(s) /\ due' = [due EXCEPT ![r] = FALSE] /\ UNCHANGED <<creation, outages>>
  BY <1>2 DEF Tick
<1>9. lastEvent' = [lastEvent EXCEPT ![r] = IF next = Bars THEN "COMPLETED" ELSE @]
  BY <1>2, <1>4 DEF Tick, EventAfter, LastDay
<1>10. /\ scheduler' \in [Schedulers -> [phase : {"idle", "tick", "fail"}, run : Runs \cup {None},
                                         next : 0..Bars, list : SUBSET Runs]]
       /\ scheduler'[s].phase = "idle"
       /\ \A t \in Schedulers \ {s} : scheduler'[t] = scheduler[t]
  BY <1>1, <1>8, RestIs
<1>11. TypeOK'
  <2>1. row' \in [Runs -> Row]
    BY <1>1, <1>4, <1>5, <1>6 DEF TypeOK
  <2> QED
    BY <1>1, <1>4, <1>8, <1>9, <1>10, <2>1 DEF TypeOK
<1>12. RunsOK'
  <2>1. JournalMatchesCursor'
    <3>1. new.journal = [i \in 1..next |-> i]
      <4>1. row[r].journal = [i \in 1..row[r].cursor |-> i]
        BY <1>1, <1>4 DEF RunsOK, JournalMatchesCursor
      <4>2. row[r].cursor \in Nat
        BY <1>4, AutoAssumption DEF Row
      <4> QED
        BY <1>3, <1>7, <4>1, <4>2, JournalGrows
    <3>2. \A x \in Runs \ {r} : row'[x] = row[x]
      BY <1>6
    <3>3. row'[r] = new
      BY <1>4, <1>6
    <3> QED
      BY <1>1, <1>7, <3>1, <3>2, <3>3 DEF RunsOK, JournalMatchesCursor
  <2>2. EventTellsStatus'
    BY <1>1, <1>4, <1>6, <1>7, <1>9 DEF TypeOK, RunsOK, EventTellsStatus
  <2>3. AbsentOK'
    BY <1>1, <1>6, <1>7 DEF RunsOK, AbsentOK
  <2> QED
    BY <2>1, <2>2, <2>3 DEF RunsOK
<1>13. TicksOK'
  <2>1. \A t \in Schedulers \ {s} : scheduler[t].phase = "tick" =>
            scheduler[t].run # r /\ scheduler[t].run \in Runs
    BY <1>1, <1>2 DEF Tick, TicksOK, TickOK, OneTickPerRun
  <2> QED
    BY <1>1, <1>6, <1>8, <1>10, <2>1, LeavingTick DEF TypeOK, FailOK
<1>14. CreationsOK'
  <2>1. UnfinishedRuns' \subseteq UnfinishedRuns
    BY <1>4, <1>6 DEF UnfinishedRuns, Unfinished
  <2> QED
    BY <1>1, <1>8, <2>1, CreationsKept, AutoAssumption
<1> QED
  BY <1>11, <1>12, <1>13, <1>14 DEF IInv

LEMMA TickThrowsKeeps ==
    ASSUME IInv, NEW s \in Schedulers, TickThrows(s)
    PROVE  IInv'
<1>1. TypeOK /\ RunsOK /\ TicksOK /\ CreationsOK
  BY DEF IInv
<1>2. PICK new : /\ new = [scheduler[s] EXCEPT !.phase = "fail", !.next = 0]
                 /\ scheduler' = [scheduler EXCEPT ![s] = new]
  BY <1>1 DEF TickThrows, TypeOK
<1>3. scheduler[s] \in [phase : {"idle", "tick", "fail"}, run : Runs \cup {None},
                        next : 0..Bars, list : SUBSET Runs]
  BY <1>1 DEF TypeOK
<1>4. /\ new \in [phase : {"idle", "tick", "fail"}, run : Runs \cup {None},
                  next : 0..Bars, list : SUBSET Runs]
      /\ new.phase = "fail" /\ new.run = scheduler[s].run
  <2>1. new = [phase |-> "fail", run |-> scheduler[s].run, next |-> 0, list |-> scheduler[s].list]
    BY <1>2, <1>3
  <2>2. scheduler[s].run \in Runs \cup {None} /\ scheduler[s].list \in SUBSET Runs
    BY <1>3
  <2> QED
    BY <2>1, <2>2, AutoAssumption
<1>5. \A t \in Schedulers : scheduler'[t] = IF t = s THEN new ELSE scheduler[t]
  BY <1>1, <1>2 DEF TypeOK
<1>6. TypeOK'
  BY <1>1, <1>2, <1>4 DEF TickThrows, TypeOK
<1>7. RunsOK'
  BY <1>1, RunsKept DEF TickThrows
<1>8. TicksOK'
  <2>1. scheduler[s].run \in Runs
    BY <1>1 DEF TickThrows, TicksOK, TickOK
  <2>2. FailOK(s)' /\ scheduler'[s].phase # "tick"
    BY <1>4, <1>5, <2>1 DEF FailOK
  <2> QED
    BY <1>1, <1>5, <2>2, LeavingTick DEF TickThrows
<1>9. CreationsOK'
  BY <1>1, CreationsKept, AutoAssumption DEF TickThrows, UnfinishedRuns
<1> QED
  BY <1>6, <1>7, <1>8, <1>9 DEF IInv

\* A scheduler gives up a tick or a failure; the tables stay as they are.
LEMMA GivingUpKeeps ==
    ASSUME IInv, NEW s \in Schedulers, outages' \in 0..MaxOutages,
           scheduler' \in [Schedulers -> [phase : {"idle", "tick", "fail"}, run : Runs \cup {None},
                                          next : 0..Bars, list : SUBSET Runs]],
           scheduler'[s].phase = "idle",
           \A t \in Schedulers \ {s} : scheduler'[t] = scheduler[t],
           UNCHANGED <<row, due, lastEvent, creation>>
    PROVE  IInv'
<1>1. TypeOK /\ RunsOK /\ TicksOK /\ CreationsOK
  BY DEF IInv
<1>2. TypeOK'
  BY <1>1 DEF TypeOK
<1>3. RunsOK'
  BY <1>1, RunsKept
<1>4. TicksOK'
  BY <1>1, LeavingTick DEF FailOK
<1>5. CreationsOK'
  BY <1>1, CreationsKept, AutoAssumption DEF UnfinishedRuns
<1> QED
  BY <1>2, <1>3, <1>4, <1>5 DEF IInv

LEMMA FailThrowsKeeps ==
    ASSUME IInv, NEW s \in Schedulers, FailThrows(s)
    PROVE  IInv'
<1>1. TypeOK
  BY DEF IInv
<1>2. outages' \in 0..MaxOutages
  BY <1>1, AutoAssumption DEF FailThrows, TypeOK
<1> QED
  BY <1>1, <1>2, RestIs, GivingUpKeeps DEF FailThrows

LEMMA RestartKeeps ==
    ASSUME IInv, NEW s \in Schedulers, Restart(s)
    PROVE  IInv'
<1>1. TypeOK
  BY DEF IInv
<1>2. outages' \in 0..MaxOutages
  BY <1>1, AutoAssumption DEF Restart, TypeOK
<1>3. /\ Idle.phase = "idle"
      /\ Idle \in [phase : {"idle", "tick", "fail"}, run : Runs \cup {None},
                   next : 0..Bars, list : SUBSET Runs]
  BY AutoAssumption DEF Idle
<1>4. /\ scheduler' \in [Schedulers -> [phase : {"idle", "tick", "fail"}, run : Runs \cup {None},
                                        next : 0..Bars, list : SUBSET Runs]]
      /\ scheduler'[s].phase = "idle"
      /\ \A t \in Schedulers \ {s} : scheduler'[t] = scheduler[t]
  BY <1>1, <1>3 DEF Restart, TypeOK
<1> QED
  BY <1>2, <1>4, GivingUpKeeps DEF Restart

-----------------------------------------------------------------------------
(* Steps that change the status of one run.                                *)

\* A run that nobody ticks changes its status to another that is not its end,
\* or is stopped; the event says so.
LEMMA StatusChangeKeepsRuns ==
    ASSUME IInv, NEW r \in Runs, NEW status, NEW event,
           row[r].status \in Unfinished,
           row' = [row EXCEPT ![r].status = status],
           lastEvent' = [lastEvent EXCEPT ![r] = event],
           <<status, event>> \in {<<"RUNNING", "RESUME">>, <<"PAUSED", "PAUSE">>,
                                  <<"STOPPED", "STOP">>, <<"ERROR", "ERROR">>},
           UNCHANGED creation
    PROVE  /\ row' \in [Runs -> Row]
           /\ lastEvent' \in [Runs -> Actions \cup {"START", "COMPLETED", "ERROR", None}]
           /\ RunsOK' /\ CreationsOK'
           /\ \A x \in Runs : row'[x].cursor = row[x].cursor
           /\ \A x \in Runs \ {r} : row'[x] = row[x]
<1>1. TypeOK /\ RunsOK /\ CreationsOK
  BY DEF IInv
<1>2. row[r] \in Row
  BY <1>1 DEF TypeOK
<1>3. PICK new : new = [row[r] EXCEPT !.status = status]
  OBVIOUS
<1>4. \A x \in Runs : row'[x] = IF x = r THEN new ELSE row[x]
  BY <1>1, <1>3 DEF TypeOK
<1>5. /\ new.status = status /\ new.cursor = row[r].cursor /\ new.days = row[r].days
      /\ new.journal = row[r].journal /\ new.origin = row[r].origin
  BY <1>2, <1>3 DEF Row
<1>6. status \in {"RUNNING", "PAUSED", "STOPPED", "ERROR"}
      /\ event \in Actions \cup {"START", "COMPLETED", "ERROR", None}
  BY DEF Actions
<1>7. new \in Row
  <2>1. new = [status |-> status, origin |-> row[r].origin, cursor |-> row[r].cursor,
               days |-> row[r].days, journal |-> row[r].journal]
    BY <1>2, <1>3 DEF Row
  <2>2. /\ row[r].origin \in Origins \cup {None} /\ row[r].cursor \in 0..Bars
        /\ row[r].days \in 0..Bars /\ row[r].journal \in Seq(1..Bars)
    BY <1>2 DEF Row
  <2> QED
    BY <1>6, <2>1, <2>2 DEF Row, Unfinished, Ended
<1>8. row' \in [Runs -> Row]
  BY <1>1, <1>3, <1>7 DEF TypeOK
<1>9. lastEvent' \in [Runs -> Actions \cup {"START", "COMPLETED", "ERROR", None}]
  BY <1>1, <1>6 DEF TypeOK
<1>10. JournalMatchesCursor'
  <2>1. row[r].status # "COMPLETED" /\ new.status # "COMPLETED"
    BY <1>5, <1>6 DEF Unfinished
  <2>2. /\ new.journal = [i \in 1..new.cursor |-> i] /\ new.days = new.cursor
        /\ new.status = "COMPLETED" <=> new.cursor = Bars
    <3>1. /\ row[r].journal = [i \in 1..row[r].cursor |-> i] /\ row[r].days = row[r].cursor
          /\ row[r].status = "COMPLETED" <=> row[r].cursor = Bars
      BY <1>1 DEF RunsOK, JournalMatchesCursor
    <3> QED
      BY <1>5, <2>1, <3>1
  <2>3. \A x \in Runs : row'[x] = new \/ row'[x] = row[x]
    BY <1>4
  <2> QED
    BY <1>1, <2>2, <2>3 DEF RunsOK, JournalMatchesCursor
<1>11. EventTellsStatus'
  <2>1. \A x \in Runs : lastEvent'[x] = IF x = r THEN event ELSE lastEvent[x]
    BY <1>1 DEF TypeOK
  <2> QED
    BY <1>1, <1>4, <1>5, <2>1 DEF RunsOK, EventTellsStatus
<1>12. AbsentOK'
  BY <1>1, <1>4, <1>5, <1>6 DEF RunsOK, AbsentOK
<1>13. UnfinishedRuns' \subseteq UnfinishedRuns
  BY <1>4 DEF UnfinishedRuns
<1>14. CreationsOK'
  BY <1>1, <1>13, CreationsKept, AutoAssumption
<1> QED
  BY <1>2, <1>4, <1>5, <1>8, <1>9, <1>10, <1>11, <1>12, <1>14 DEF RunsOK

\* fail() stops a run only if it runs, and only when no tick has its row.
LEMMA FailKeeps ==
    ASSUME IInv, NEW s \in Schedulers, Fail(s)
    PROVE  IInv'
<1>1. TypeOK /\ RunsOK /\ TicksOK /\ CreationsOK
  BY DEF IInv
<1>2. PICK r : r = scheduler[s].run
  OBVIOUS
<1>3. r \in Runs /\ RowFree(r) /\ Rest(s) /\ UNCHANGED <<due, creation, outages>>
  BY <1>1, <1>2 DEF Fail, TicksOK, FailOK
<1>4. /\ scheduler' \in [Schedulers -> [phase : {"idle", "tick", "fail"}, run : Runs \cup {None},
                                        next : 0..Bars, list : SUBSET Runs]]
      /\ scheduler'[s].phase = "idle"
      /\ \A t \in Schedulers \ {s} : scheduler'[t] = scheduler[t]
  BY <1>1, <1>3, RestIs
<1>5. CASE row[r].status = "RUNNING"
  <2>1. row' = [row EXCEPT ![r].status = "ERROR"] /\ lastEvent' = [lastEvent EXCEPT ![r] = "ERROR"]
    BY <1>2, <1>5 DEF Fail
  <2>2. /\ row' \in [Runs -> Row]
        /\ lastEvent' \in [Runs -> Actions \cup {"START", "COMPLETED", "ERROR", None}]
        /\ RunsOK' /\ CreationsOK'
        /\ \A x \in Runs \ {r} : row'[x] = row[x]
    BY <1>3, <1>5, <2>1, StatusChangeKeepsRuns DEF Unfinished
  <2>3. TypeOK'
    BY <1>1, <1>3, <1>4, <2>2 DEF TypeOK
  <2>4. TicksOK'
    <3>1. \A t \in Schedulers : scheduler[t].phase = "tick" => scheduler[t].run \in Runs \ {r}
      BY <1>1, <1>3 DEF RowFree, TicksOK, TickOK
    <3> QED
      BY <1>1, <1>3, <1>4, <2>2, <3>1, LeavingTick DEF FailOK
  <2> QED
    BY <2>2, <2>3, <2>4 DEF IInv
<1>6. CASE row[r].status # "RUNNING"
  <2>1. UNCHANGED <<row, lastEvent>>
    BY <1>2, <1>6 DEF Fail
  <2>2. outages' \in 0..MaxOutages
    BY <1>1, <1>3 DEF TypeOK
  <2> QED
    BY <1>3, <1>4, <2>1, <2>2, GivingUpKeeps
<1> QED
  BY <1>5, <1>6

\* Ticks stay right when the schedulers do nothing and their rows stay as they
\* are.
LEMMA TicksStay ==
    ASSUME TicksOK, UNCHANGED scheduler,
           \A t \in Schedulers : scheduler[t].phase = "tick" =>
               /\ row'[scheduler[t].run].status = row[scheduler[t].run].status
               /\ row'[scheduler[t].run].cursor = row[scheduler[t].run].cursor
               /\ due'[scheduler[t].run] = due[scheduler[t].run]
    PROVE  TicksOK'
BY DEF TicksOK, TickOK, FailOK, OneTickPerRun

LEMMA IntervalKeeps ==
    ASSUME IInv, NEW r \in Runs, IntervalPasses(r)
    PROVE  IInv'
<1>1. TypeOK /\ RunsOK /\ TicksOK /\ CreationsOK
  BY DEF IInv
<1>2. TypeOK'
  BY <1>1 DEF IntervalPasses, TypeOK
<1>3. RunsOK'
  BY <1>1, RunsKept DEF IntervalPasses
<1>4. TicksOK'
  <2>1. \A t \in Schedulers : scheduler[t].phase = "tick" => scheduler[t].run # r
    BY <1>1 DEF IntervalPasses, TicksOK, TickOK
  <2>2. \A x : x # r => due'[x] = due[x]
    BY <1>1 DEF IntervalPasses, TypeOK
  <2> QED
    BY <1>1, <2>1, <2>2, TicksStay DEF IntervalPasses
<1>5. CreationsOK'
  BY <1>1, CreationsKept, AutoAssumption DEF IntervalPasses, UnfinishedRuns
<1> QED
  BY <1>2, <1>3, <1>4, <1>5 DEF IInv

\* The user's commands wait for the row, so no tick is under way in it.
LEMMA ControlKeeps ==
    ASSUME IInv, NEW r \in Runs, NEW action \in Actions, Control(r, action)
    PROVE  IInv'
<1>1. TypeOK /\ RunsOK /\ TicksOK /\ CreationsOK
  BY DEF IInv
<1>2. <<StatusAfter(action), action>> \in {<<"RUNNING", "RESUME">>, <<"PAUSED", "PAUSE">>,
                                          <<"STOPPED", "STOP">>, <<"ERROR", "ERROR">>}
  BY DEF Actions, StatusAfter
<1>3. /\ row' \in [Runs -> Row]
      /\ lastEvent' \in [Runs -> Actions \cup {"START", "COMPLETED", "ERROR", None}]
      /\ RunsOK' /\ CreationsOK'
      /\ \A x \in Runs \ {r} : row'[x] = row[x]
  BY <1>2, StatusChangeKeepsRuns DEF Control
<1>4. TypeOK'
  BY <1>1, <1>3 DEF Control, TypeOK
<1>5. TicksOK'
  <2>1. \A t \in Schedulers : scheduler[t].phase = "tick" => scheduler[t].run \in Runs \ {r}
    BY <1>1 DEF Control, RowFree, TicksOK, TickOK
  <2>2. \A x \in Runs \ {r} : due'[x] = due[x]
    BY <1>1 DEF Control, TypeOK
  <2> QED
    BY <1>1, <1>3, <2>1, <2>2, TicksStay DEF Control
<1> QED
  BY <1>3, <1>4, <1>5 DEF IInv

-----------------------------------------------------------------------------
(* Creations.                                                              *)

\* A creation that changes its phase changes no table.
LEMMA UpdateKeeps ==
    ASSUME IInv, NEW h \in Handlers, NEW phase, NEW r, NEW origin,
           Update(h, phase, r, origin),
           \/ phase = "idle" /\ r = None /\ origin = None
           \/ phase = "asked" /\ r \in Runs /\ origin \in Origins
           \/ phase = "locked" /\ r \in Runs /\ origin = "strategy" /\ UserFree
           \/ /\ phase = "locked" /\ r \in Runs /\ origin = "plain" /\ UserFree
              /\ Cardinality(UnfinishedRuns) < MaxUnfinished
    PROVE  IInv'
<1>1. TypeOK /\ RunsOK /\ TicksOK /\ CreationsOK
  BY DEF IInv
<1> DEFINE new == [phase |-> phase, run |-> r, origin |-> origin]
<1>2. new \in [phase : {"idle", "asked", "locked"}, run : Runs \cup {None},
               origin : Origins \cup {None}]
  BY DEF Origins
<1>3. \A g \in Handlers : creation'[g] = IF g = h THEN new ELSE creation[g]
  BY <1>1 DEF Update, TypeOK
<1>4. TypeOK'
  BY <1>1, <1>2 DEF Update, TypeOK
<1>5. RunsOK'
  BY <1>1, RunsKept DEF Update
<1>6. TicksOK'
  BY <1>1, TicksStay DEF Update
<1>7. UnfinishedRuns' = UnfinishedRuns
  BY DEF Update, UnfinishedRuns
<1>8. ASSUME NEW g \in Handlers PROVE CreationOK(g)'
  <2>1. CASE g = h
    BY <1>3, <1>7, <2>1 DEF CreationOK, Origins
  <2>2. CASE g # h
    <3>1. CreationOK(g) /\ creation'[g] = creation[g]
      BY <1>1, <1>3, <2>2 DEF CreationsOK
    <3> QED
      BY <1>7, <3>1 DEF CreationOK
  <2> QED
    BY <2>1, <2>2
<1>9. OneCreation'
  <2>1. phase = "locked" => \A g \in Handlers : creation[g].phase # "locked"
    BY DEF UserFree
  <2>2. \A g \in Handlers \ {h} : creation'[g] = creation[g]
    BY <1>3
  <2>3. creation'[h].phase = phase
    BY <1>3
  <2> QED
    BY <1>1, <2>1, <2>2, <2>3 DEF CreationsOK, OneCreation
<1>10. CreationsOK'
  BY <1>1, <1>7, <1>8, <1>9 DEF CreationsOK
<1> QED
  BY <1>4, <1>5, <1>6, <1>10 DEF IInv

LEMMA AskKeeps ==
    ASSUME IInv, NEW h \in Handlers, NEW r \in Runs, LookUp(h, r) \/ EnterPlain(h, r)
    PROVE  IInv'
<1>1. CASE LookUp(h, r)
  BY <1>1, UpdateKeeps DEF LookUp, Origins
<1>2. CASE EnterPlain(h, r)
  BY <1>2, UpdateKeeps DEF EnterPlain, Permits
<1> QED
  BY <1>1, <1>2

LEMMA EnterStrategyKeeps ==
    ASSUME IInv, NEW h \in Handlers, EnterStrategy(h)
    PROVE  IInv'
<1>1. creation[h].run \in Runs
  BY DEF EnterStrategy, IInv, CreationsOK, CreationOK
<1> QED
  BY <1>1, UpdateKeeps DEF EnterStrategy

LEMMA CreateNothingKeeps ==
    ASSUME IInv, NEW h \in Handlers, CreateNothing(h)
    PROVE  IInv'
BY UpdateKeeps DEF CreateNothing

\* What an insert does: one run more, and the user's row is free again.
LEMMA InsertAdds ==
    ASSUME IInv, NEW h \in Handlers, Insert(h), NEW r, r = creation[h].run
    PROVE  /\ r \in Runs /\ creation[h].origin \in Origins /\ row[r] = NoRow
           /\ row' = [row EXCEPT ![r] = [status |-> "RUNNING", origin |-> creation[h].origin,
                                         cursor |-> 0, days |-> 0, journal |-> <<>>]]
           /\ UnfinishedRuns' = UnfinishedRuns \cup {r}
           /\ IsFiniteSet(UnfinishedRuns')
           /\ Cardinality(UnfinishedRuns') = Cardinality(UnfinishedRuns) + 1
<1>1. TypeOK /\ CreationOK(h) /\ IsFiniteSet(UnfinishedRuns)
  BY DEF IInv, CreationsOK
<1>2. r \in Runs /\ creation[h].origin \in Origins /\ row[r] = NoRow
  BY <1>1 DEF Insert, CreationOK
<1>3. row' = [row EXCEPT ![r] = [status |-> "RUNNING", origin |-> creation[h].origin,
                                 cursor |-> 0, days |-> 0, journal |-> <<>>]]
  <2>1. PICK origin : origin = creation[h].origin
    OBVIOUS
  <2>2. [NoRow EXCEPT !.status = "RUNNING", !.origin = origin]
          = [status |-> "RUNNING", origin |-> origin, cursor |-> 0, days |-> 0, journal |-> <<>>]
    <3>1. PICK w : w = [NoRow EXCEPT !.status = "RUNNING"]
      OBVIOUS
    <3>2. w = [status |-> "RUNNING", origin |-> None, cursor |-> 0, days |-> 0, journal |-> <<>>]
      BY <3>1 DEF NoRow
    <3>3. [w EXCEPT !.origin = origin]
            = [status |-> "RUNNING", origin |-> origin, cursor |-> 0, days |-> 0, journal |-> <<>>]
      BY <3>2
    <3> QED
      BY <3>1, <3>3
  <2>3. row' = [row EXCEPT ![r] = [NoRow EXCEPT !.status = "RUNNING", !.origin = origin]]
    BY <2>1 DEF Insert
  <2> QED
    BY <2>1, <2>2, <2>3
<1>4. r \notin UnfinishedRuns
  BY <1>2 DEF UnfinishedRuns, NoRow, Unfinished
<1>5. UnfinishedRuns' = UnfinishedRuns \cup {r}
  <2>1. \A x \in Runs : row'[x].status = IF x = r THEN "RUNNING" ELSE row[x].status
    BY <1>1, <1>2, <1>3 DEF TypeOK
  <2> QED
    BY <1>2, <2>1 DEF UnfinishedRuns, Unfinished
<1> QED
  BY <1>1, <1>2, <1>3, <1>4, <1>5, FS_AddElement

LEMMA InsertKeeps ==
    ASSUME IInv, NEW h \in Handlers, Insert(h)
    PROVE  IInv'
<1>1. TypeOK /\ RunsOK /\ TicksOK /\ CreationsOK
  BY DEF IInv
<1>2. PICK r : r = creation[h].run
  OBVIOUS
<1>3. PICK new : new = [status |-> "RUNNING", origin |-> creation[h].origin,
                        cursor |-> 0, days |-> 0, journal |-> <<>>]
  OBVIOUS
<1>4. /\ r \in Runs /\ creation[h].origin \in Origins /\ row[r] = NoRow
      /\ row' = [row EXCEPT ![r] = new]
      /\ IsFiniteSet(UnfinishedRuns')
  BY <1>2, <1>3, InsertAdds
<1>5. \A x \in Runs : row'[x] = IF x = r THEN new ELSE row[x]
  BY <1>1, <1>4 DEF TypeOK
<1>6. /\ due' = [due EXCEPT ![r] = TRUE] /\ lastEvent' = [lastEvent EXCEPT ![r] = "START"]
      /\ creation' = [creation EXCEPT ![h] = NoCreation] /\ UNCHANGED <<scheduler, outages>>
  BY <1>2 DEF Insert
<1>7. TypeOK'
  <2>1. new \in Row
    BY <1>3, <1>4, AutoAssumption DEF Row, Unfinished
  <2>2. row' \in [Runs -> Row]
    BY <1>1, <1>4, <2>1 DEF TypeOK
  <2>3. NoCreation \in [phase : {"idle", "asked", "locked"}, run : Runs \cup {None},
                        origin : Origins \cup {None}]
    BY DEF NoCreation
  <2>4. creation' \in [Handlers -> [phase : {"idle", "asked", "locked"}, run : Runs \cup {None},
                                    origin : Origins \cup {None}]]
    BY <1>1, <1>6, <2>3 DEF TypeOK
  <2>5. due' \in [Runs -> BOOLEAN]
    BY <1>1, <1>6 DEF TypeOK
  <2>6. lastEvent' \in [Runs -> Actions \cup {"START", "COMPLETED", "ERROR", None}]
    BY <1>1, <1>6 DEF TypeOK
  <2> QED
    BY <1>1, <1>6, <2>2, <2>4, <2>5, <2>6 DEF TypeOK
<1>8. RunsOK'
  <2>1. JournalMatchesCursor'
    <3>1. /\ new.journal = [i \in 1..new.cursor |-> i] /\ new.days = new.cursor
          /\ new.status = "COMPLETED" <=> new.cursor = Bars
      BY <1>3, AutoAssumption
    <3>2. \A x \in Runs : row'[x] = new \/ row'[x] = row[x]
      BY <1>5
    <3> QED
      BY <1>1, <3>1, <3>2 DEF RunsOK, JournalMatchesCursor
  <2>2. EventTellsStatus'
    <3>1. \A x \in Runs : lastEvent'[x] = IF x = r THEN "START" ELSE lastEvent[x]
      BY <1>1, <1>6 DEF TypeOK
    <3> QED
      BY <1>1, <1>3, <1>5, <3>1 DEF RunsOK, EventTellsStatus
  <2>3. AbsentOK'
    BY <1>1, <1>3, <1>5 DEF RunsOK, AbsentOK
  <2> QED
    BY <2>1, <2>2, <2>3 DEF RunsOK
<1>9. TicksOK'
  <2>1. \A t \in Schedulers : scheduler[t].phase = "tick" => scheduler[t].run \in Runs \ {r}
    BY <1>1, <1>4 DEF TicksOK, TickOK, NoRow
  <2>2. \A x \in Runs \ {r} : due'[x] = due[x] /\ row'[x] = row[x]
    BY <1>1, <1>5, <1>6 DEF TypeOK
  <2> QED
    BY <1>1, <1>6, <2>1, <2>2, TicksStay
<1>10. CreationsOK'
  <2>1. \A g \in Handlers : creation'[g] = IF g = h THEN NoCreation ELSE creation[g]
    BY <1>1, <1>6 DEF TypeOK
  <2>2. \A g \in Handlers : creation'[g].phase # "locked"
    BY <1>1, <2>1 DEF Insert, CreationsOK, OneCreation, NoCreation
  <2>3. \A g \in Handlers : CreationOK(g)'
    BY <1>1, <2>1, <2>2 DEF CreationsOK, CreationOK, NoCreation
  <2> QED
    BY <1>4, <2>2, <2>3 DEF CreationsOK, OneCreation
<1> QED
  BY <1>7, <1>8, <1>9, <1>10 DEF IInv

-----------------------------------------------------------------------------
(* The invariant.                                                          *)

LEMMA AdvanceKeeps ==
    ASSUME IInv, NEW s \in Schedulers, Advance(s)
    PROVE  IInv'
<1>1. CASE Poll(s)
  BY <1>1, PollKeeps
<1>2. CASE \E r \in Runs : Visit(s, r)
  BY <1>2, VisitKeeps
<1>3. CASE Tick(s)
  BY <1>3, TickKeeps
<1>4. CASE TickThrows(s)
  BY <1>4, TickThrowsKeeps
<1>5. CASE Fail(s)
  BY <1>5, FailKeeps
<1>6. CASE FailThrows(s)
  BY <1>6, FailThrowsKeeps
<1>7. CASE Restart(s)
  BY <1>7, RestartKeeps
<1> QED
  BY <1>1, <1>2, <1>3, <1>4, <1>5, <1>6, <1>7 DEF Advance

LEMMA CreateKeeps ==
    ASSUME IInv, NEW h \in Handlers, Create(h)
    PROVE  IInv'
<1>1. CASE \E r \in Runs : LookUp(h, r) \/ EnterPlain(h, r)
  BY <1>1, AskKeeps
<1>2. CASE EnterStrategy(h)
  BY <1>2, EnterStrategyKeeps
<1>3. CASE CreateNothing(h)
  BY <1>3, CreateNothingKeeps
<1>4. CASE Insert(h)
  BY <1>4, InsertKeeps
<1> QED
  BY <1>1, <1>2, <1>3, <1>4 DEF Create

LEMMA StepInv == IInv /\ [Next]_vars => IInv'
<1> SUFFICES ASSUME IInv, [Next]_vars PROVE IInv'
  OBVIOUS
<1>1. CASE \E s \in Schedulers : Advance(s)
  BY <1>1, AdvanceKeeps
<1>2. CASE \E h \in Handlers : Create(h)
  BY <1>2, CreateKeeps
<1>3. CASE \E r \in Runs : IntervalPasses(r)
  BY <1>3, IntervalKeeps
<1>4. CASE \E r \in Runs : \E action \in Actions : Control(r, action)
  BY <1>4, ControlKeeps
<1>5. CASE UNCHANGED vars
  <2>1. UnfinishedRuns' = UnfinishedRuns
    BY <1>5 DEF vars, UnfinishedRuns
  <2>2. CreationsOK'
    BY <1>5, <2>1, CreationsKept, AutoAssumption DEF vars, IInv
  <2>3. RunsOK' /\ TicksOK'
    BY <1>5, RunsKept, TicksStay DEF vars, IInv
  <2> QED
    BY <1>5, <2>2, <2>3 DEF vars, IInv, TypeOK
<1> QED
  BY <1>1, <1>2, <1>3, <1>4, <1>5 DEF Next

LEMMA Invariant == Spec => []IInv
BY InitInv, StepInv, PTL DEF Spec

-----------------------------------------------------------------------------
(* The theorems.                                                           *)

\* The variables keep their types.
THEOREM TypesAreKept == Spec => []TypeOK
<1>1. IInv => TypeOK
  BY DEF IInv
<1> QED
  BY <1>1, Invariant, PTL

\* A run's journal has each day up to its cursor once and in order, its state
\* covers exactly these days, and it is completed exactly when no day is left,
\* whatever schedulers overlap, fail and restart.
THEOREM JournalAlwaysMatchesCursor == Spec => []JournalMatchesCursor
<1>1. IInv => JournalMatchesCursor
  BY DEF IInv, RunsOK
<1> QED
  BY <1>1, Invariant, PTL

\* The last control event of a run tells its status.
THEOREM EventAlwaysTellsStatus == Spec => []EventTellsStatus
<1>1. IInv => EventTellsStatus
  BY DEF IInv, RunsOK
<1> QED
  BY <1>1, Invariant, PTL

\* A step either leaves the row of a run alone, or ticks it, or changes its
\* status while nobody ticks it, or creates it.
LEMMA RowSteps ==
    ASSUME IInv, [Next]_vars, NEW r \in Runs
    PROVE  \/ row'[r] = row[r]
           \/ \E s \in Schedulers : Tick(s) /\ scheduler[s].run = r
           \/ /\ row[r].status \in Unfinished
              /\ row'[r].cursor = row[r].cursor
           \/ \E h \in Handlers : Insert(h) /\ creation[h].run = r
<1>1. ASSUME NEW s \in Schedulers, Advance(s)
      PROVE  \/ row'[r] = row[r]
             \/ Tick(s) /\ scheduler[s].run = r
             \/ /\ row[r].status \in Unfinished
                /\ row'[r].cursor = row[r].cursor
  <2>1. CASE Tick(s)
    BY <2>1, TickRow
  <2>2. CASE Fail(s)
    <3>1. PICK q : q = scheduler[s].run
      OBVIOUS
    <3>2. \/ row[q].status = "RUNNING" /\ row' = [row EXCEPT ![q].status = "ERROR"]
          \/ row' = row
      BY <2>2, <3>1 DEF Fail
    <3>3. row[r] \in Row /\ row \in [Runs -> Row]
      BY DEF IInv, TypeOK
    <3> QED
      BY <3>2, <3>3 DEF Row, Unfinished
  <2>3. CASE Poll(s) \/ (\E x \in Runs : Visit(s, x)) \/ TickThrows(s) \/ FailThrows(s) \/ Restart(s)
    BY <2>3 DEF Poll, Visit, TickThrows, FailThrows, Restart
  <2> QED
    BY <1>1, <2>1, <2>2, <2>3 DEF Advance
<1>2. ASSUME NEW h \in Handlers, Create(h)
      PROVE  row'[r] = row[r] \/ (Insert(h) /\ creation[h].run = r)
  <2>1. CASE Insert(h)
    <3>1. \A x \in Runs : x # creation[h].run => row'[x] = row[x]
      BY <2>1, InsertAdds DEF IInv, TypeOK
    <3> QED
      BY <2>1, <3>1
  <2>2. CASE (\E x \in Runs : LookUp(h, x) \/ EnterPlain(h, x)) \/ EnterStrategy(h) \/ CreateNothing(h)
    BY <2>2 DEF LookUp, EnterPlain, EnterStrategy, CreateNothing, Update
  <2> QED
    BY <1>2, <2>1, <2>2 DEF Create
<1>3. ASSUME NEW x \in Runs, IntervalPasses(x) \/ \E action \in Actions : Control(x, action)
      PROVE  \/ row'[r] = row[r]
             \/ /\ row[r].status \in Unfinished
                /\ row'[r].cursor = row[r].cursor
  <2>1. CASE IntervalPasses(x)
    BY <2>1 DEF IntervalPasses
  <2>2. ASSUME NEW action \in Actions, Control(x, action)
        PROVE  \/ row'[r] = row[r]
               \/ /\ row[r].status \in Unfinished
                  /\ row'[r].cursor = row[r].cursor
    <3>1. PICK status : row[x].status \in Unfinished /\ row' = [row EXCEPT ![x].status = status]
      BY <2>2 DEF Control
    <3>2. row[r] \in Row /\ row \in [Runs -> Row]
      BY DEF IInv, TypeOK
    <3> QED
      BY <3>1, <3>2 DEF Row
  <2> QED
    BY <1>3, <2>1, <2>2
<1>4. CASE UNCHANGED vars
  BY <1>4 DEF vars
<1> QED
  BY <1>1, <1>2, <1>3, <1>4 DEF Next

\* A run moves one day at a time, only while it is running, and only when its
\* interval is over.
THEOREM AdvancesOnlyWhenDue == Spec => AdvancesWhenDue
<1>1. ASSUME IInv, [Next]_vars, NEW r \in Runs, row'[r].cursor # row[r].cursor
      PROVE  row'[r].cursor = row[r].cursor + 1 /\ row[r].status = "RUNNING" /\ due[r]
  <2>1. CASE \E s \in Schedulers : Tick(s) /\ scheduler[s].run = r
    <3>1. PICK s \in Schedulers : Tick(s) /\ scheduler[s].run = r
      BY <2>1
    <3> QED
      BY <1>1, <3>1, TickRow
  <2>2. CASE \E h \in Handlers : Insert(h) /\ creation[h].run = r
    BY <1>1, <2>2, InsertAdds DEF NoRow, IInv, TypeOK
  <2> QED
    BY <1>1, <2>1, <2>2, RowSteps
<1>2. IInv /\ [Next]_vars =>
        [\A r \in Runs : row'[r].cursor # row[r].cursor =>
            row'[r].cursor = row[r].cursor + 1 /\ row[r].status = "RUNNING" /\ due[r]]_vars
  BY <1>1
<1> QED
  BY <1>2, Invariant, PTL DEF Spec, AdvancesWhenDue

\* What has ended stays as it ended.
THEOREM EndStaysFinal == Spec => EndIsFinal
<1>1. ASSUME IInv, [Next]_vars, NEW r \in Runs, row[r].status \in Ended
      PROVE  row'[r] = row[r]
  <2>1. row[r].status \notin Unfinished \cup {"NONE", "RUNNING"}
    BY <1>1 DEF Ended, Unfinished
  <2>2. ~ \E s \in Schedulers : Tick(s) /\ scheduler[s].run = r
    BY <1>1, <2>1, TickRow
  <2>3. ~ \E h \in Handlers : Insert(h) /\ creation[h].run = r
    BY <1>1, <2>1, InsertAdds DEF NoRow
  <2> QED
    BY <1>1, <2>1, <2>2, <2>3, RowSteps
<1>2. IInv /\ [Next]_vars => [\A r \in Runs : row[r].status \in Ended => row'[r] = row[r]]_vars
  BY <1>1
<1> QED
  BY <1>2, Invariant, PTL DEF Spec, EndIsFinal

\* A plain creation keeps the limit on unfinished runs.
THEOREM PlainCreationsAlwaysKeepLimit == Spec => PlainCreationsKeepLimit
<1>1. ASSUME IInv, [Next]_vars, NEW r \in Runs, row[r].status = "NONE", row'[r].origin = "plain"
      PROVE  Cardinality(UnfinishedRuns') <= MaxUnfinished
  <2>1. row[r] = NoRow /\ row[r].status \notin Unfinished \cup {"RUNNING"}
    BY <1>1 DEF IInv, RunsOK, AbsentOK, Unfinished
  <2>2. row'[r] # row[r]
    BY <1>1, <2>1, AutoAssumption DEF NoRow
  <2>3. ~ \E s \in Schedulers : Tick(s) /\ scheduler[s].run = r
    BY <1>1, <2>1, TickRow
  <2>4. PICK h \in Handlers : Insert(h) /\ creation[h].run = r
    BY <1>1, <2>1, <2>2, <2>3, RowSteps
  <2>5. creation[h].origin = "plain"
    <3>1. row' = [row EXCEPT ![r] = [status |-> "RUNNING", origin |-> creation[h].origin,
                                     cursor |-> 0, days |-> 0, journal |-> <<>>]]
      BY <1>1, <2>4, InsertAdds
    <3> QED
      BY <1>1, <3>1 DEF IInv, TypeOK
  <2>6. Cardinality(UnfinishedRuns) < MaxUnfinished
    BY <1>1, <2>4, <2>5 DEF Insert, IInv, CreationsOK, CreationOK
  <2>7. Cardinality(UnfinishedRuns') = Cardinality(UnfinishedRuns) + 1
    BY <1>1, <2>4, InsertAdds
  <2>8. Cardinality(UnfinishedRuns) \in Nat
    BY <1>1, FS_CardinalityType DEF IInv, CreationsOK
  <2> QED
    BY <2>6, <2>7, <2>8, AutoAssumption
<1>2. IInv /\ [Next]_vars =>
        [\A r \in Runs : row[r].status = "NONE" /\ row'[r].origin = "plain" =>
            Cardinality(UnfinishedRuns') <= MaxUnfinished]_vars
  BY <1>1
<1> QED
  BY <1>2, Invariant, PTL DEF Spec, PlainCreationsKeepLimit

=============================================================================
