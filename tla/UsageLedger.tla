---------------------------- MODULE UsageLedger ----------------------------
(***************************************************************************)
(* What the usage pipeline promises, without saying how: reports wait in   *)
(* one queue, in the order they were accepted; a batch taken from its      *)
(* front is recorded as a whole, or, after MaxRetries failed attempts in a *)
(* row, thrown away as a whole.  No report is recorded twice, overtaken or *)
(* recorded for a token that no longer exists.                             *)
(***************************************************************************)
EXTENDS Integers, Sequences

CONSTANTS Entry,      \* usage reports, each naming a gate and a real token
          MaxRetries

VARIABLES queue,      \* accepted reports, neither recorded nor thrown away
          attempts,   \* consecutive failed attempts
          usageLogs,  \* rows: an increasing id and a report
          lastId,
          live        \* tokens that exist

ledger == <<queue, attempts, usageLogs, lastId, live>>

Recordable(batch) == \A i \in 1..Len(batch) : {batch[i].gate, batch[i].real} \subseteq live

Rows(batch, id) == {[id |-> id + i, entry |-> batch[i]] : i \in 1..Len(batch)}

Init == /\ queue = <<>>
        /\ attempts = 0
        /\ usageLogs = {}
        /\ lastId = 0

Accept == /\ \E e \in Entry : queue' = Append(queue, e)
          /\ UNCHANGED <<attempts, usageLogs, lastId, live>>

TakeBatch(batch) == \E rest \in {SubSeq(queue, Len(batch) + 1, Len(queue))} :
                      queue = batch \o rest /\ queue' = rest

Record == \E k \in 1..Len(queue) :
            LET batch == SubSeq(queue, 1, k)
            IN  /\ Recordable(batch)
                /\ TakeBatch(batch)
                /\ usageLogs' = usageLogs \cup Rows(batch, lastId)
                /\ lastId' = lastId + k
                /\ attempts' = 0
                /\ UNCHANGED live

FailAttempt == /\ attempts < MaxRetries
               /\ attempts' = attempts + 1
               /\ UNCHANGED <<queue, usageLogs, lastId, live>>

Discard == /\ attempts = MaxRetries
           /\ attempts' = 0
           /\ \E k \in 1..Len(queue) : TakeBatch(SubSeq(queue, 1, k))
           /\ UNCHANGED <<usageLogs, lastId, live>>

\* The token's rows go with it.
Delete == \E t \in live :
            /\ live' = live \ {t}
            /\ usageLogs' = {row \in usageLogs : t \notin {row.entry.gate, row.entry.real}}
            /\ UNCHANGED <<queue, attempts, lastId>>

Lose == /\ queue' = <<>>
        /\ attempts' = 0
        /\ UNCHANGED <<usageLogs, lastId, live>>

Next == Accept \/ Record \/ FailAttempt \/ Discard \/ Delete \/ Lose

Spec == Init /\ [][Next]_ledger
=============================================================================
