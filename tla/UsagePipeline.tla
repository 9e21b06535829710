--------------------------- MODULE UsagePipeline ---------------------------
(***************************************************************************)
(* internal/proxy/usage_writer.go, with the channel that feeds it          *)
(* (proxy.go, setup.go) and the statements it runs (store/usage.go,        *)
(* store.go): how the usage reported at the end of a proxied request       *)
(* becomes a row of usage_logs and part of two tokens' totals.             *)
(*                                                                         *)
(* Requests report concurrently into a buffered channel and never wait;    *)
(* one writer goroutine collects batches and inserts each in a single      *)
(* transaction; administrators delete tokens, and their rows, at any time. *)
(* A report carries one unit of usage.                                     *)
(***************************************************************************)
EXTENDS Integers, Sequences, FiniteSets

CONSTANTS Gates, Reals,  \* ids of gate tokens and of real tokens
          MaxEntries,    \* bound of the model: requests that report
          ChannelSize,   \* usageChannelSize
          BatchSize,     \* usageBatchSize
          MaxRetries,    \* usageMaxRetries
          Faults         \* which faults happen

ASSUME SizesAssumption == /\ ChannelSize \in Nat \ {0}
                          /\ BatchSize \in Nat \ {0}
                          /\ MaxRetries \in Nat
                          /\ MaxEntries \in Nat

ASSUME TokensAssumption == Gates \cap Reals = {}

\* "store": a statement fails; "crash": the process dies and is restarted.
ASSUME FaultsAssumption == Faults \subseteq {"store", "crash"}

Tokens == Gates \cup Reals

Entry == [n : 1..MaxEntries, gate : Gates, real : Reals]

VARIABLES
  usageCh,     \* the channel
  buf, retryBuf, retryCount,  \* the fields of UsageWriter
  pc,          \* where Run is; "totals": the rows are in, the totals are not
  due,         \* tokens whose totals this flush still has to update
  mode,        \* "drain": the loop has ended, the next flush is the last
  ctx,         \* "done": the writer's context is cancelled, the process shuts down
  live,        \* rows of gate_tokens and real_tokens
  usageLogs,   \* the usage_logs table
  lastId,      \* its AUTOINCREMENT counter
  totals,      \* total_input_tokens + total_output_tokens of each token
  sent,        \* history: requests that have reported
  usable,      \* history: tokens a request of this process can be using
  inserted,    \* history: units ever inserted for each token
  missed       \* history: tokens whose totals were not updated for some rows

memory == <<usageCh, buf, retryBuf, retryCount, pc, due, mode, ctx>>
tables == <<live, usageLogs, lastId, totals>>
vars == <<memory, tables, sent, usable, inserted, missed>>

Rows(batch, id) == {[id |-> id + i, entry |-> batch[i]] : i \in 1..Len(batch)}

TokensOf(batch) == UNION {{batch[i].gate, batch[i].real} : i \in 1..Len(batch)}

\* What aggregating the batch gives for one token.
Usage(batch, t) == Cardinality({i \in 1..Len(batch) : t \in {batch[i].gate, batch[i].real}})

Init == /\ usageCh = <<>>
        /\ buf = <<>>
        /\ retryBuf = <<>>
        /\ retryCount = 0
        /\ pc = "select"
        /\ due = {}
        /\ mode = "run"
        /\ ctx = "open"
        /\ live = Tokens
        /\ usageLogs = {}
        /\ lastId = 0
        /\ totals = [t \in Tokens |-> 0]
        /\ sent = 0
        /\ usable = Tokens
        /\ inserted = [t \in Tokens |-> 0]
        /\ missed = {}

Restart == /\ "crash" \in Faults
           /\ usageCh' = <<>>
           /\ buf' = <<>>
           /\ retryBuf' = <<>>
           /\ retryCount' = 0
           /\ pc' = "select"
           /\ due' = {}
           /\ mode' = "run"
           /\ ctx' = "open"
           /\ usable' = live
           /\ missed' = missed \cup due
           /\ UNCHANGED <<tables, sent, inserted>>

----------------------------------------------------------------------------
(* Other goroutines. *)

\* sendUsage: a full channel drops the report.  Its tokens may have been deleted
\* while the request was running.
SendUsage == /\ sent < MaxEntries
             /\ sent' = sent + 1
             /\ \E g \in Gates \cap usable, r \in Reals \cap usable :
                  usageCh' = IF Len(usageCh) < ChannelSize
                             THEN Append(usageCh, [n |-> sent + 1, gate |-> g, real |-> r])
                             ELSE usageCh
             /\ UNCHANGED <<buf, retryBuf, retryCount, pc, due, mode, ctx, tables, usable,
                            inserted, missed>>

\* SIGTERM, or the cancel function Setup returned.
Shutdown == /\ ctx = "open"
            /\ ctx' = "done"
            /\ UNCHANGED <<usageCh, buf, retryBuf, retryCount, pc, due, mode, tables, sent, usable,
                           inserted, missed>>

DeleteToken(t) ==
  /\ t \in live
  /\ live' = live \ {t}
  /\ usageLogs' = {row \in usageLogs : t \notin {row.entry.gate, row.entry.real}}
  /\ UNCHANGED <<memory, lastId, totals, sent, usable, inserted, missed>>

----------------------------------------------------------------------------
(* The writer. *)

\* Mutant: the batch grows one entry too long.
ReceiveOneMore == /\ pc = "select"
                  /\ usageCh # <<>>
                  /\ usageCh' = Tail(usageCh)
                  /\ buf' = Append(buf, Head(usageCh))
                  /\ pc' = IF Len(buf') > BatchSize THEN "flush" ELSE "select"
                  /\ UNCHANGED <<retryBuf, retryCount, due, mode, ctx, tables, sent, usable,
                                 inserted, missed>>

Receive == /\ pc = "select"
           /\ usageCh # <<>>
           /\ usageCh' = Tail(usageCh)
           /\ buf' = Append(buf, Head(usageCh))
           /\ pc' = IF Len(buf') >= BatchSize THEN "flush" ELSE "select"
           /\ UNCHANGED <<retryBuf, retryCount, due, mode, ctx, tables, sent, usable, inserted,
                          missed>>

\* Mutant: the ticker looks at new entries only.
TickForNewOnly == /\ pc = "select"
                  /\ buf # <<>>
                  /\ pc' = "flush"
                  /\ UNCHANGED <<usageCh, buf, retryBuf, retryCount, due, mode, ctx, tables,
                                 sent, usable, inserted, missed>>

Tick == /\ pc = "select"
        /\ buf # <<>> \/ retryBuf # <<>>
        /\ pc' = "flush"
        /\ UNCHANGED <<usageCh, buf, retryBuf, retryCount, due, mode, ctx, tables, sent,
                       usable, inserted, missed>>

NoticeDone == /\ pc = "select"
              /\ ctx = "done"
              /\ pc' = "drain"
              /\ mode' = "drain"
              /\ UNCHANGED <<usageCh, buf, retryBuf, retryCount, due, ctx, tables, sent, usable,
                             inserted, missed>>

Drain == /\ pc = "drain"
         /\ usageCh # <<>>
         /\ usageCh' = Tail(usageCh)
         /\ buf' = Append(buf, Head(usageCh))
         /\ UNCHANGED <<retryBuf, retryCount, pc, due, mode, ctx, tables, sent, usable,
                        inserted, missed>>

DrainDone == /\ pc = "drain"
             /\ usageCh = <<>>
             /\ pc' = IF buf = <<>> /\ retryBuf = <<>> THEN "stopped" ELSE "flush"
             /\ UNCHANGED <<usageCh, buf, retryBuf, retryCount, due, mode, ctx, tables, sent,
                            usable, inserted, missed>>

\* Mutant: entries to retry go behind the new ones.
BatchNewestFirst == buf \o retryBuf

\* What flush inserts.
Batch == retryBuf \o buf

\* flush returns to Run.
Return == pc' = IF mode = "drain" THEN "stopped" ELSE "select"

\* BeginTx fails on a cancelled context; a foreign key of any entry fails them all.
MayInsert == ctx = "open" /\ TokensOf(Batch) \subseteq live
MustInsert == MayInsert /\ "store" \notin Faults

\* Mutant: the entries of an earlier attempt are recorded and kept for another.
InsertAndKeep ==
  /\ pc = "flush"
  /\ MayInsert
  /\ usageLogs' = usageLogs \cup Rows(Batch, lastId)
  /\ lastId' = lastId + Len(Batch)
  /\ inserted' = [t \in Tokens |-> inserted[t] + Usage(Batch, t)]
  /\ due' = TokensOf(Batch)
  /\ buf' = Batch
  /\ pc' = "totals"
  /\ UNCHANGED <<usageCh, retryBuf, retryCount, mode, ctx, live, totals, sent, usable, missed>>

InsertSucceeds ==
  /\ pc = "flush"
  /\ MayInsert
  /\ usageLogs' = usageLogs \cup Rows(Batch, lastId)
  /\ lastId' = lastId + Len(Batch)
  /\ inserted' = [t \in Tokens |-> inserted[t] + Usage(Batch, t)]
  /\ due' = TokensOf(Batch)
  /\ buf' = Batch
  /\ retryBuf' = <<>>
  /\ retryCount' = 0
  /\ pc' = "totals"
  /\ UNCHANGED <<usageCh, mode, ctx, live, totals, sent, usable, missed>>

\* Mutant: the failed entries are retried, and counted all the same.
KeepForRetryAndCount ==
  /\ pc = "flush"
  /\ ~MustInsert
  /\ retryCount < MaxRetries
  /\ retryBuf' = Batch
  /\ retryCount' = retryCount + 1
  /\ due' = TokensOf(Batch)
  /\ buf' = Batch
  /\ pc' = "totals"
  /\ UNCHANGED <<usageCh, mode, ctx, tables, sent, usable, inserted, missed>>

\* Mutant: one retry too many.
KeepForRetryOnceMore == /\ pc = "flush"
                        /\ ~MustInsert
                        /\ retryCount <= MaxRetries
                        /\ retryBuf' = Batch
                        /\ retryCount' = retryCount + 1
                        /\ buf' = <<>>
                        /\ Return
                        /\ UNCHANGED <<usageCh, due, mode, ctx, tables, sent, usable, inserted,
                                       missed>>

KeepForRetry == /\ pc = "flush"
                /\ ~MustInsert
                /\ retryCount < MaxRetries
                /\ retryBuf' = Batch
                /\ retryCount' = retryCount + 1
                /\ buf' = <<>>
                /\ Return
                /\ UNCHANGED <<usageCh, due, mode, ctx, tables, sent, usable, inserted, missed>>

DiscardBatch == /\ pc = "flush"
                /\ ~MustInsert
                /\ retryCount >= MaxRetries
                /\ retryBuf' = <<>>
                /\ retryCount' = 0
                /\ buf' = <<>>
                /\ Return
                /\ UNCHANGED <<usageCh, due, mode, ctx, tables, sent, usable, inserted, missed>>

\* One UPDATE per token, gate tokens first; a token deleted meanwhile has no row to
\* update, an error is logged and not retried.
UpdateTotal(t) ==
  /\ pc = "totals"
  /\ t \in due
  /\ t \in Gates \/ due \cap Gates = {}
  /\ due' = due \ {t}
  /\ \/ /\ ctx = "open"
        /\ totals' = IF t \in live THEN [totals EXCEPT ![t] = @ + Usage(buf, t)] ELSE totals
        /\ UNCHANGED missed
     \/ /\ ctx = "done" \/ "store" \in Faults
        /\ missed' = missed \cup {t}
        /\ UNCHANGED totals
  /\ UNCHANGED <<usageCh, buf, retryBuf, retryCount, pc, mode, ctx, live, usageLogs, lastId,
                 sent, usable, inserted>>

FlushDone == /\ pc = "totals"
             /\ due = {}
             /\ buf' = <<>>
             /\ Return
             /\ UNCHANGED <<usageCh, retryBuf, retryCount, due, mode, ctx, tables, sent, usable,
                            inserted, missed>>

----------------------------------------------------------------------------
Flush == InsertSucceeds \/ KeepForRetry \/ DiscardBatch

Writer == \/ Receive \/ Tick \/ NoticeDone
          \/ Drain \/ DrainDone
          \/ Flush
          \/ \E t \in Tokens : UpdateTotal(t)
          \/ FlushDone

Next == \/ SendUsage
        \/ Shutdown
        \/ \E t \in Tokens : DeleteToken(t)
        \/ Writer
        \/ Restart

Spec == Init /\ [][Next]_vars

\* The writer's goroutine keeps running and select picks among the ready cases at
\* random, so a case that is ready again and again is picked in the end.
Fairness == /\ WF_vars(Writer)
            /\ SF_vars(Receive)
            /\ SF_vars(Tick)

FairSpec == Spec /\ Fairness

----------------------------------------------------------------------------
(* Properties. *)

\* Every variable has its type: in particular the channel and the retry counter
\* stay within their limits (setup.go:11, usage_writer.go:113-119).
TypeOK ==
  /\ usageCh \in Seq(Entry) /\ Len(usageCh) <= ChannelSize
  /\ buf \in Seq(Entry)
  /\ retryBuf \in Seq(Entry)
  /\ retryCount \in 0..MaxRetries
  /\ pc \in {"select", "drain", "flush", "totals", "stopped"}
  /\ due \in SUBSET Tokens
  /\ mode \in {"run", "drain"}
  /\ ctx \in {"open", "done"}
  /\ live \in SUBSET Tokens
  /\ usageLogs \in SUBSET [id : Nat, entry : Entry]
  /\ lastId \in Nat
  /\ totals \in [Tokens -> Nat]
  /\ sent \in 0..MaxEntries
  /\ usable \in SUBSET Tokens
  /\ inserted \in [Tokens -> Nat]
  /\ missed \in SUBSET Tokens

\* Accepted entries that are neither in the table nor thrown away, oldest first.
Pending == retryBuf \o (IF pc = "totals" THEN <<>> ELSE buf) \o usageCh

Ledger == INSTANCE UsageLedger WITH queue <- Pending, attempts <- retryCount

\* The pipeline implements the ledger: whatever the interleaving of reports,
\* batches, retries, deletions and crashes, entries are recorded in the order they
\* were accepted, none twice, and none is thrown away before the last retry
\* (usage_writer.go:41-123).
ImplementsLedger == Ledger!Spec

\* The rows follow the order in which the requests reported, and no report has two of
\* them, however often its batch failed before (usage_writer.go:90-122, store/usage.go:
\* 46-80).
RecordedInOrder ==
  \A x, y \in usageLogs : x.id < y.id <=> x.entry.n < y.entry.n

\* Retried entries never pile up beyond what the retries allow: a database that
\* stays broken costs bounded memory until the drain at the end, which is limited
\* by what is in the channel only (usage_writer.go:58-61, 91-121).
BufferBound ==
  mode = "run" => /\ Len(retryBuf) <= retryCount * BatchSize
                  /\ pc = "totals" \/ Len(buf) <= BatchSize

\* A token's totals never exceed what was inserted for it, and fall short only
\* while the flush is at it or when an update failed: the retry of a failed batch
\* does not count it twice (usage_writer.go:111-154).
TotalsAgree ==
  \A t \in live : /\ totals[t] <= inserted[t]
                  /\ t \notin due \cup missed => totals[t] = inserted[t]

LoggedUnits(t) == Cardinality({row \in usageLogs : t \in {row.entry.gate, row.entry.real}})

\* The two accounts of a token's usage agree: its totals are what its rows of
\* usage_logs add up to, or more where the rows went with the other token they name.
\* Only a flush that is not over or an update that failed makes a difference
\* (usage_writer.go:111-154, store/usage.go:46-80).
TotalsCoverLogs ==
  \A t \in live \ (due \cup missed) : /\ LoggedUnits(t) <= totals[t]
                                      /\ live = Tokens => LoggedUnits(t) = totals[t]

InPipeline(n) == \E i \in 1..Len(Pending) : Pending[i].n = n

\* Every accepted entry is recorded or thrown away in the end, also when no further
\* request ever reports, unless the process shuts down (usage_writer.go:62-65).
EntriesSettle == \A n \in 1..MaxEntries : InPipeline(n) ~> (~InPipeline(n) \/ ctx = "done")

\* "Drain remaining entries" (usage_writer.go:49): when the writer has stopped, the
\* entries it took from the channel are recorded.
ShutdownDrains == pc = "stopped" => retryBuf \o buf = <<>>

\* "Per-token input/output token counts" (README.md:15): an entry whose tokens exist
\* is not thrown away by a healthy database in a running process.
NoCollateralLoss ==
  [][DiscardBatch /\ ctx = "open" => \A i \in 1..Len(Batch) : ~({Batch[i].gate, Batch[i].real} \subseteq live)]_vars
=============================================================================
