----------------------------- MODULE CommandJournal -----------------------------
(***************************************************************************)
(* What the execution service promises its clients about commands: each is *)
(* recorded at most once and for good, the account always reflects exactly *)
(* the record, and a client that was told of success finds its command in  *)
(* the record.                                                             *)
(***************************************************************************)
EXTENDS Integers, Sequences

CONSTANT Entries        \* commands, each a record with a "key"

VARIABLES log,          \* the commands recorded so far
          account,      \* the commands the account reflects
          told          \* commands whose clients were told of success

journalVars == <<log, account, told>>

Recorded(l) == {l[i] : i \in 1..Len(l)}

Begin ==
    /\ log = <<>>
    /\ account = <<>>
    /\ told = {}

Record(c) ==
    /\ \A d \in Recorded(log) : d.key # c.key
    /\ log' = Append(log, c)
    /\ account' = log'
    /\ told' \in {told, told \cup {c}}

Tell(c) ==
    /\ c \in Recorded(log)
    /\ told' = told \cup {c}
    /\ UNCHANGED <<log, account>>

Journaling == Begin /\ [][\E c \in Entries : Record(c) \/ Tell(c)]_journalVars
=============================================================================
