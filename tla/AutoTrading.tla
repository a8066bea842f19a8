------------------------------- MODULE AutoTrading -------------------------------
(***************************************************************************)
(* Automatic simulated trading: AutoTradingService and AutoTradingScheduler*)
(* of the backend.  A run replays a frozen price history one trading day   *)
(* per tick; the scheduler of each backend polls for runs that are due,    *)
(* while the user creates, pauses, resumes and stops them.                 *)
(*                                                                         *)
(* A tick locks the run's row (SELECT ... FOR UPDATE), calls the calculator*)
(* and commits the day's journal entry, the state and the cursor together; *)
(* a tick that throws is rolled back, and the scheduler then stops the run *)
(* in a second transaction.  A control command is one transaction that     *)
(* needs the same lock.                                                    *)
(*                                                                         *)
(* A creation locks the user's row, looks for the request key, counts the  *)
(* unfinished runs and calls the calculator before it inserts.  MySQL's    *)
(* REPEATABLE READ shows a transaction the tables as of its first plain    *)
(* SELECT: for create() that is after the lock, for runStrategy(), which   *)
(* reads the strategy first, before it.                                    *)
(*                                                                         *)
(* All runs are those of one user, each named by its request key.          *)
(***************************************************************************)
EXTENDS Integers, Sequences, FiniteSets

CONSTANTS Runs,            \* request keys
          Schedulers,      \* backends with the scheduler running
          Handlers,        \* workers that handle creations
          Bars,            \* trading days in the frozen prices
          MaxUnfinished,   \* 5 in the code
          MaxOutages,      \* bound: how often a backend or the database fails
          None

ASSUME AutoAssumption ==
    /\ Bars \in Nat \ {0}
    /\ MaxUnfinished \in Nat \ {0}
    /\ MaxOutages \in Nat
    /\ None \notin Runs \cup {"plain", "strategy"}

Unfinished == {"RUNNING", "PAUSED", "ERROR"}
Ended      == {"COMPLETED", "STOPPED"}
Actions    == {"PAUSE", "RESUME", "STOP"}
Origins    == {"plain", "strategy"}

VARIABLES row,         \* auto_trading_runs, with the run's journal
          due,         \* next_tick_at has passed
          lastEvent,   \* the newest row of auto_trading_controls
          scheduler,   \* per backend: what it is doing, and the runs it polled
          creation,    \* per handler: the creation it works on
          outages      \* outages so far

vars == <<row, due, lastEvent, scheduler, creation, outages>>

\* "days" is how many days the stored state covers.
Row == [status : Unfinished \cup Ended \cup {"NONE"}, origin : Origins \cup {None},
        cursor : 0..Bars, days : 0..Bars, journal : Seq(1..Bars)]

NoRow == [status |-> "NONE", origin |-> None, cursor |-> 0, days |-> 0, journal |-> <<>>]

Idle == [phase |-> "idle", run |-> None, next |-> 0, list |-> {}]

NoCreation == [phase |-> "idle", run |-> None, origin |-> None]

Init ==
    /\ row = [r \in Runs |-> NoRow]
    /\ due = [r \in Runs |-> FALSE]
    /\ lastEvent = [r \in Runs |-> None]
    /\ scheduler = [s \in Schedulers |-> Idle]
    /\ creation = [h \in Handlers |-> NoCreation]
    /\ outages = 0

UnfinishedRuns == {r \in Runs : row[r].status \in Unfinished}

\* (Mutated form: ticks read their row without FOR UPDATE.)
RowFreeUnlocked(r) == TRUE

\* No tick holds the row of run r.
RowFree(r) == \A s \in Schedulers : ~(scheduler[s].phase = "tick" /\ scheduler[s].run = r)

-----------------------------------------------------------------------------
(* The scheduler.                                                          *)

\* advance() asks for the runs that are due.
Poll(s) ==
    /\ scheduler[s].phase = "idle" /\ scheduler[s].list = {}
    /\ \E r \in Runs : row[r].status = "RUNNING" /\ due[r]
    /\ scheduler' = [scheduler EXCEPT ![s].list = {r \in Runs : row[r].status = "RUNNING" /\ due[r]}]
    /\ UNCHANGED <<row, due, lastEvent, creation, outages>>

\* (Mutated form: the time of the next tick is not checked again.)
TickableWhenRunning(r) == row[r].status = "RUNNING"

Tickable(r) == row[r].status = "RUNNING" /\ due[r]

\* tick() up to its early return, in the order the list has the runs.
Visit(s, r) ==
    /\ scheduler[s].phase = "idle" /\ r \in scheduler[s].list
    /\ RowFree(r)
    /\ scheduler' = [scheduler EXCEPT
          ![s] = [phase |-> IF Tickable(r) THEN "tick" ELSE "idle",
                  run   |-> IF Tickable(r) THEN r ELSE None,
                  next  |-> IF Tickable(r) THEN row[r].cursor + 1 ELSE 0,
                  list  |-> @.list \ {r}]]
    /\ UNCHANGED <<row, due, lastEvent, creation, outages>>

Rest(s) == scheduler' = [scheduler EXCEPT ![s] = [Idle EXCEPT !.list = scheduler[s].list]]

\* (Mutated form: the end of a run is not recorded as a control event.)
EventAfterNone(r, completed) == lastEvent[r]

EventAfter(r, completed) == IF completed THEN "COMPLETED" ELSE lastEvent[r]

\* (Mutated form: off by one.)
LastDayLate(next) == next > Bars

LastDay(next) == next = Bars

\* The rest of tick(): the day is calculated from the first "next" bars.
Tick(s) ==
    LET r    == scheduler[s].run
        next == scheduler[s].next
    IN  /\ scheduler[s].phase = "tick"
        /\ row' = [row EXCEPT ![r].journal = Append(@, next),
                              ![r].cursor = next,
                              ![r].days = next,
                              ![r].status = IF LastDay(next) THEN "COMPLETED" ELSE "RUNNING"]
        /\ due' = [due EXCEPT ![r] = FALSE]
        /\ lastEvent' = [lastEvent EXCEPT ![r] = EventAfter(r, LastDay(next))]
        /\ Rest(s)
        /\ UNCHANGED <<creation, outages>>

\* tick() throws: the calculator fails, or the answer has no entry.
TickThrows(s) ==
    /\ scheduler[s].phase = "tick"
    /\ scheduler' = [scheduler EXCEPT ![s].phase = "fail", ![s].next = 0]
    /\ UNCHANGED <<row, due, lastEvent, creation, outages>>

\* (Mutated forms: the failure is only logged; the status is not looked at.)
FailSilently(s) ==
    /\ scheduler[s].phase = "fail"
    /\ RowFree(scheduler[s].run)
    /\ Rest(s)
    /\ UNCHANGED <<row, due, lastEvent, creation, outages>>

FailAlways(s) ==
    LET r == scheduler[s].run IN
    /\ scheduler[s].phase = "fail"
    /\ RowFree(r)
    /\ row' = [row EXCEPT ![r].status = "ERROR"]
    /\ lastEvent' = [lastEvent EXCEPT ![r] = "ERROR"]
    /\ Rest(s)
    /\ UNCHANGED <<due, creation, outages>>

\* fail(): a run that still runs is stopped until the user resumes it.
Fail(s) ==
    LET r == scheduler[s].run IN
    /\ scheduler[s].phase = "fail"
    /\ RowFree(r)
    /\ IF row[r].status = "RUNNING"
       THEN /\ row' = [row EXCEPT ![r].status = "ERROR"]
            /\ lastEvent' = [lastEvent EXCEPT ![r] = "ERROR"]
       ELSE UNCHANGED <<row, lastEvent>>
    /\ Rest(s)
    /\ UNCHANGED <<due, creation, outages>>

\* fail() throws too: the scheduler logs it and goes on.
FailThrows(s) ==
    /\ scheduler[s].phase = "fail" /\ outages < MaxOutages
    /\ outages' = outages + 1
    /\ Rest(s)
    /\ UNCHANGED <<row, due, lastEvent, creation>>

\* The backend restarts: an open tick is rolled back, the list is lost.
Restart(s) ==
    /\ scheduler[s] # Idle /\ outages < MaxOutages
    /\ outages' = outages + 1
    /\ scheduler' = [scheduler EXCEPT ![s] = Idle]
    /\ UNCHANGED <<row, due, lastEvent, creation>>

\* The run's interval has passed since its last tick.
IntervalPasses(r) ==
    /\ row[r].status # "NONE" /\ ~due[r]
    /\ due' = [due EXCEPT ![r] = TRUE]
    /\ UNCHANGED <<row, lastEvent, scheduler, creation, outages>>

-----------------------------------------------------------------------------
(* The user.                                                               *)

StatusAfter(action) ==
    CASE action = "PAUSE"  -> "PAUSED"
      [] action = "STOP"   -> "STOPPED"
      [] action = "RESUME" -> "RUNNING"

\* control() on a run it can change; otherwise it refuses or does nothing.
Control(r, action) ==
    /\ row[r].status \in Unfinished /\ RowFree(r)
    /\ row[r].status # StatusAfter(action)
    /\ row' = [row EXCEPT ![r].status = StatusAfter(action)]
    /\ due' = [due EXCEPT ![r] = TRUE]
    /\ lastEvent' = [lastEvent EXCEPT ![r] = action]
    /\ UNCHANGED <<scheduler, creation, outages>>

\* (Mutated form: the user's row is not locked.)
UserFreeUnlocked == TRUE

UserFree == \A h \in Handlers : creation[h].phase # "locked"

\* A snapshot taken now lets run r be created: its key is new and the limit is
\* not reached.  Other creations answer with the run that has the key, or
\* refuse; either way they change nothing, and are left out.
Permits(r) == row[r].status = "NONE" /\ Cardinality(UnfinishedRuns) < MaxUnfinished

Update(h, phase, r, origin) ==
    /\ creation' = [creation EXCEPT ![h] = [phase |-> phase, run |-> r, origin |-> origin]]
    /\ UNCHANGED <<row, due, lastEvent, scheduler, outages>>

\* runStrategy() reads the strategy and its source run, then waits.
LookUp(h, r) ==
    /\ creation[h].phase = "idle" /\ Permits(r)
    /\ Update(h, "asked", r, "strategy")

\* create() has the user's row from its first statement.
EnterPlain(h, r) ==
    /\ creation[h].phase = "idle" /\ UserFree /\ Permits(r)
    /\ Update(h, "locked", r, "plain")

EnterStrategy(h) ==
    /\ creation[h].phase = "asked" /\ UserFree
    /\ Update(h, "locked", creation[h].run, "strategy")

\* The calculator refuses or fails, the unique key (user_id, request_key) is
\* taken after all, or the handler stops: the creation is rolled back.
CreateNothing(h) ==
    /\ creation[h].phase # "idle"
    /\ Update(h, "idle", None, None)

\* The insert, if the unique key lets it.
Insert(h) ==
    LET c == creation[h] IN
    /\ c.phase = "locked"
    /\ row[c.run] = NoRow
    /\ row' = [row EXCEPT ![c.run] = [NoRow EXCEPT !.status = "RUNNING", !.origin = c.origin]]
    /\ due' = [due EXCEPT ![c.run] = TRUE]
    /\ lastEvent' = [lastEvent EXCEPT ![c.run] = "START"]
    /\ creation' = [creation EXCEPT ![h] = NoCreation]
    /\ UNCHANGED <<scheduler, outages>>

-----------------------------------------------------------------------------

Advance(s) ==
    \/ Poll(s) \/ (\E r \in Runs : Visit(s, r))
    \/ Tick(s) \/ TickThrows(s) \/ Fail(s) \/ FailThrows(s) \/ Restart(s)

Create(h) ==
    \/ (\E r \in Runs : LookUp(h, r) \/ EnterPlain(h, r))
    \/ EnterStrategy(h) \/ CreateNothing(h) \/ Insert(h)

Next ==
    \/ \E s \in Schedulers : Advance(s)
    \/ \E h \in Handlers : Create(h)
    \/ \E r \in Runs : IntervalPasses(r) \/ \E action \in Actions : Control(r, action)

\* The scheduler thread goes on, time passes, and a tick ends, since a call of
\* the calculator that is not answered times out.  Nothing obliges the user to
\* act, or the calculator to succeed.
Fairness ==
    /\ \A s \in Schedulers :
          /\ WF_vars(Poll(s)) /\ WF_vars(\E r \in Runs : Visit(s, r))
          /\ WF_vars(Tick(s) \/ TickThrows(s)) /\ WF_vars(Fail(s))
    /\ \A r \in Runs : WF_vars(IntervalPasses(r))

Spec == Init /\ [][Next]_vars /\ Fairness

-----------------------------------------------------------------------------
(* Properties.                                                             *)

TypeOK ==
    /\ row \in [Runs -> Row]
    /\ due \in [Runs -> BOOLEAN]
    /\ lastEvent \in [Runs -> Actions \cup {"START", "COMPLETED", "ERROR", None}]
    /\ scheduler \in [Schedulers -> [phase : {"idle", "tick", "fail"}, run : Runs \cup {None},
                                     next : 0..Bars, list : SUBSET Runs]]
    /\ creation \in [Handlers -> [phase : {"idle", "asked", "locked"}, run : Runs \cup {None},
                                  origin : Origins \cup {None}]]
    /\ outages \in 0..MaxOutages

\* Whatever schedulers overlap, ticks fail or backends restart, a run has one
\* journal entry for each day up to its cursor, in order, and its state covers
\* exactly these days; it is completed when, and only when, no day is left.
JournalMatchesCursor ==
    \A r \in Runs :
        /\ row[r].journal = [i \in 1..row[r].cursor |-> i]
        /\ row[r].days = row[r].cursor
        /\ row[r].status = "COMPLETED" <=> row[r].cursor = Bars

\* A run moves only forward, a day at a time, only while it is running and
\* only when its interval is over: not twice for one interval when two
\* schedulers polled it, not after a pause that came during the poll.
AdvancesWhenDue ==
    [][\A r \in Runs : row'[r].cursor # row[r].cursor =>
          row'[r].cursor = row[r].cursor + 1 /\ row[r].status = "RUNNING" /\ due[r]]_vars

\* What has ended stays as it ended, whatever was under way for it.
EndIsFinal ==
    [][\A r \in Runs : row[r].status \in Ended => row'[r] = row[r]]_vars

\* The last control event of a run tells its status.
EventTellsStatus ==
    \A r \in Runs :
        CASE row[r].status = "NONE"    -> lastEvent[r] = None
          [] row[r].status = "RUNNING" -> lastEvent[r] \in {"START", "RESUME"}
          [] row[r].status = "PAUSED"  -> lastEvent[r] = "PAUSE"
          [] row[r].status = "STOPPED" -> lastEvent[r] = "STOP"
          [] OTHER                     -> lastEvent[r] = row[r].status

\* A plain creation keeps the limit: between its count and its insert nobody
\* else of this user adds a run, and no ended run opens again.
PlainCreationsKeepLimit ==
    [][\A r \in Runs : row[r].status = "NONE" /\ row'[r].origin = "plain" =>
          Cardinality(UnfinishedRuns') <= MaxUnfinished]_vars

\* "At most five unfinished runs per user" (docs/Auto_Trading_Spec.md).
UnfinishedLimit == Cardinality(UnfinishedRuns) <= MaxUnfinished

\* A running run does not hang: its days pass until it completes, fails, or
\* the user pauses or stops it.
RunningEnds ==
    \A r \in Runs : row[r].status = "RUNNING" ~> row[r].status # "RUNNING"

=============================================================================
