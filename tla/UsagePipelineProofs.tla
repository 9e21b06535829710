------------------------ MODULE UsagePipelineProofs ------------------------
(***************************************************************************)
(* Theorems about UsagePipeline for any tokens, sizes, retries and faults. *)
(***************************************************************************)
EXTENDS UsagePipeline, FiniteSetTheorems, FunctionTheorems, SequenceTheorems, TLAPS

LEMMA BatchElements ==
  ASSUME NEW batch \in Seq(Entry)
  PROVE  /\ Len(batch) \in Nat
         /\ \A i \in 1..Len(batch) : batch[i].gate \in Gates /\ batch[i].real \in Reals
<1>1. \A i \in 1..Len(batch) : batch[i] \in Entry
  BY ElementOfSeq
<1>2. QED
  BY <1>1, LenProperties DEF Entry

\* The rows of a batch are rows, its tokens are tokens.
LEMMA RowsType ==
  ASSUME NEW batch \in Seq(Entry), NEW id \in Nat
  PROVE  /\ Rows(batch, id) \in SUBSET [id : Nat, entry : Entry]
         /\ TokensOf(batch) \in SUBSET Tokens
<1>1. Len(batch) \in Nat /\ \A i \in 1..Len(batch) : batch[i] \in Entry /\ id + i \in Nat
  BY ElementOfSeq, LenProperties
<1>2. Rows(batch, id) \in SUBSET [id : Nat, entry : Entry]
  BY <1>1 DEF Rows
<1>3. TokensOf(batch) \in SUBSET Tokens
  BY BatchElements DEF TokensOf, Tokens
<1>4. QED
  BY <1>2, <1>3

LEMMA UsageType ==
  ASSUME NEW batch \in Seq(Entry), NEW t
  PROVE  Usage(batch, t) \in Nat
<1>1. IsFiniteSet(1..Len(batch))
  BY BatchElements, FS_Interval
<1>2. IsFiniteSet({i \in 1..Len(batch) : t \in {batch[i].gate, batch[i].real}})
  BY <1>1, FS_Subset
<1>3. QED
  BY <1>2, FS_CardinalityType DEF Usage

\* Receiving moves the head of the channel to the end of the buffer.
LEMMA MoveHead ==
  ASSUME NEW ch \in Seq(Entry), ch # <<>>, NEW b \in Seq(Entry)
  PROVE  /\ Tail(ch) \in Seq(Entry)
         /\ Len(Tail(ch)) = Len(ch) - 1
         /\ Append(b, Head(ch)) \in Seq(Entry)
         /\ Len(Append(b, Head(ch))) = Len(b) + 1
<1>1. Head(ch) \in Entry /\ Tail(ch) \in Seq(Entry) /\ Len(Tail(ch)) = Len(ch) - 1
  BY HeadTailProperties
<1>2. QED
  BY <1>1, AppendProperties

LEMMA TypeInit == Init => TypeOK
BY SizesAssumption DEF Init, TypeOK

LEMMA TypeNext == TypeOK /\ [Next]_vars => TypeOK'
<1> SUFFICES ASSUME TypeOK, [Next]_vars PROVE TypeOK'
  OBVIOUS
<1> USE SizesAssumption DEF TypeOK
<1>1. CASE SendUsage
  <2> PICK g \in Gates \cap usable, r \in Reals \cap usable :
        usageCh' = IF Len(usageCh) < ChannelSize
                   THEN Append(usageCh, [n |-> sent + 1, gate |-> g, real |-> r])
                   ELSE usageCh
    BY <1>1 DEF SendUsage
  <2>1. sent < MaxEntries /\ sent' = sent + 1
    BY <1>1 DEF SendUsage
  <2>2. [n |-> sent + 1, gate |-> g, real |-> r] \in Entry
    BY <2>1 DEF Entry
  <2>3. usageCh' \in Seq(Entry) /\ Len(usageCh') <= ChannelSize
    <3> DEFINE e == [n |-> sent + 1, gate |-> g, real |-> r]
    <3>1. Append(usageCh, e) \in Seq(Entry) /\ Len(Append(usageCh, e)) = Len(usageCh) + 1
      BY <2>2, AppendProperties
    <3>2. Len(usageCh) \in Nat
      BY LenProperties
    <3>3. QED
      BY <3>1, <3>2
  <2>4. QED
    BY <1>1, <2>1, <2>3 DEF SendUsage, tables
<1>2. CASE Shutdown
  BY <1>2 DEF Shutdown, tables
<1>3. ASSUME NEW t \in Tokens, DeleteToken(t) PROVE TypeOK'
  BY <1>3 DEF DeleteToken, memory
<1>4. CASE Receive \/ Drain
  <2>1. usageCh' \in Seq(Entry) /\ Len(usageCh') <= ChannelSize /\ buf' \in Seq(Entry)
    <3>1. /\ usageCh # <<>>
          /\ usageCh' = Tail(usageCh)
          /\ buf' = Append(buf, Head(usageCh))
      BY <1>4 DEF Receive, Drain
    <3>2. Len(usageCh) \in Nat
      BY LenProperties
    <3>3. QED
      BY <3>1, <3>2, MoveHead
  <2>2. QED
    BY <1>4, <2>1 DEF Receive, Drain, tables
<1>5. CASE Tick \/ NoticeDone \/ DrainDone
  BY <1>5 DEF Tick, NoticeDone, DrainDone, tables
<1>6. Batch \in Seq(Entry)
  BY DEF Batch
<1>7. CASE InsertSucceeds
  <2>1. usageLogs' \in SUBSET [id : Nat, entry : Entry] /\ lastId' \in Nat /\ due' \in SUBSET Tokens
    BY <1>6, <1>7, RowsType, BatchElements DEF InsertSucceeds
  <2>2. inserted' \in [Tokens -> Nat]
    BY <1>6, <1>7, UsageType DEF InsertSucceeds
  <2>3. QED
    BY <1>6, <1>7, <2>1, <2>2 DEF InsertSucceeds
<1>8. CASE KeepForRetry \/ DiscardBatch
  <2>1. pc' \in {"select", "stopped"} /\ retryBuf' \in {Batch, <<>>} /\ buf' = <<>>
    BY <1>8, Zenon DEF KeepForRetry, DiscardBatch, Return
  <2>2. retryCount' \in 0..MaxRetries
    BY <1>8 DEF KeepForRetry, DiscardBatch
  <2>3. retryBuf' \in Seq(Entry) /\ buf' \in Seq(Entry)
    <3>1. <<>> \in Seq(Entry)
      BY EmptySeq
    <3>2. QED
      BY <1>6, <2>1, <3>1, Zenon
  <2>4. QED
    BY <1>8, <2>1, <2>2, <2>3 DEF KeepForRetry, DiscardBatch, tables
<1>9. ASSUME NEW t \in Tokens, UpdateTotal(t) PROVE TypeOK'
  <2>1. Usage(buf, t) \in Nat
    BY UsageType
  <2>2. [totals EXCEPT ![t] = @ + Usage(buf, t)] \in [Tokens -> Nat]
    BY <2>1
  <2>3. totals' \in [Tokens -> Nat]
    BY <1>9, <2>2 DEF UpdateTotal
  <2>4. QED
    BY <1>9, <2>3 DEF UpdateTotal
<1>10. CASE FlushDone
  BY <1>10 DEF FlushDone, Return, tables
<1>11. CASE Restart
  BY <1>11 DEF Restart, tables
<1>12. CASE UNCHANGED vars
  BY <1>12 DEF vars, memory, tables
<1>13. QED
  BY <1>1, <1>2, <1>3, <1>4, <1>5, <1>7, <1>8, <1>9, <1>10, <1>11, <1>12 DEF Next, Writer, Flush

\* Every reachable state is well typed; the channel and the retry counter stay
\* within their limits (setup.go:11, usage_writer.go:113-119).
THEOREM TypeCorrect == Spec => []TypeOK
BY TypeInit, TypeNext, PTL DEF Spec

----------------------------------------------------------------------------
(* The buffers. *)

\* BufferBound is not inductive: it does not say that a full buffer is flushed
\* before the next entry is received, nor that only the drain passes through
\* "drain" and "stopped".
Bounded ==
  /\ BufferBound
  /\ mode = "run" /\ pc = "select" => Len(buf) < BatchSize
  /\ pc \in {"drain", "stopped"} => mode = "drain"

LEMMA BatchLength ==
  ASSUME TypeOK
  PROVE  /\ Len(Batch) = Len(retryBuf) + Len(buf)
         /\ Len(retryBuf) \in Nat /\ Len(buf) \in Nat /\ Len(<<>>) = 0
BY ConcatProperties, LenProperties DEF TypeOK, Batch

LEMMA BoundedNext == TypeOK /\ Bounded /\ [Next]_vars => Bounded'
<1> SUFFICES ASSUME TypeOK, Bounded, [Next]_vars PROVE Bounded'
  OBVIOUS
<1> USE SizesAssumption DEF Bounded, BufferBound
<1>1. retryCount \in Nat /\ BatchSize \in Nat \ {0}
  BY DEF TypeOK
<1>2. CASE SendUsage \/ Shutdown \/ UNCHANGED vars
  BY <1>2 DEF SendUsage, Shutdown, vars, memory
<1>3. ASSUME NEW t \in Tokens, DeleteToken(t) \/ UpdateTotal(t) PROVE Bounded'
  BY <1>3 DEF DeleteToken, UpdateTotal, memory
<1>4. CASE Receive
  <2>1. Len(buf') = Len(buf) + 1
    BY <1>4, MoveHead DEF Receive, TypeOK
  <2>2. Len(buf) \in Nat
    BY BatchLength
  <2>3. QED
    BY <1>4, <2>1, <2>2 DEF Receive
<1>5. CASE Tick
  BY <1>5, BatchLength DEF Tick
<1>6. CASE NoticeDone \/ Drain \/ DrainDone
  BY <1>6 DEF NoticeDone, Drain, DrainDone
<1>7. CASE InsertSucceeds
  <2>1. Len(retryBuf') = 0 /\ retryCount' = 0 /\ pc' = "totals"
    BY <1>7, BatchLength DEF InsertSucceeds
  <2>2. QED
    BY <2>1, <1>1
<1>8. CASE KeepForRetry
  <2>1. /\ retryBuf' = Batch /\ retryCount' = retryCount + 1
        /\ Len(buf') = 0 /\ mode' = mode /\ pc = "flush"
    BY <1>8, BatchLength DEF KeepForRetry
  <2>2. pc' \in {"select", "stopped"} /\ (pc' = "stopped" => mode = "drain")
    BY <1>8 DEF KeepForRetry, Return
  <2>3. (retryCount + 1) * BatchSize = retryCount * BatchSize + BatchSize
    BY <1>1
  <2>4. mode = "run" => Len(retryBuf') <= retryCount' * BatchSize
    <3> DEFINE product == retryCount * BatchSize
    <3>1. product \in Nat
      BY <1>1
    <3>2. mode = "run" => Len(retryBuf) <= product /\ Len(buf) <= BatchSize
      BY <2>1
    <3> HIDE DEF product
    <3>3. mode = "run" => Len(Batch) <= product + BatchSize
      BY <1>1, <3>1, <3>2, BatchLength
    <3>4. QED
      BY <2>1, <2>3, <3>3 DEF product
  <2>5. QED
    BY <1>1, <2>1, <2>2, <2>4
<1>9. CASE DiscardBatch
  <2>1. Len(retryBuf') = 0 /\ retryCount' = 0 /\ Len(buf') = 0 /\ mode' = mode
    BY <1>9, BatchLength DEF DiscardBatch
  <2>2. pc' \in {"select", "stopped"} /\ (pc' = "stopped" => mode = "drain")
    BY <1>9 DEF DiscardBatch, Return
  <2>3. QED
    BY <1>1, <2>1, <2>2
<1>10. CASE FlushDone
  <2>1. UNCHANGED <<retryBuf, retryCount, mode>> /\ Len(buf') = 0
    BY <1>10, BatchLength DEF FlushDone
  <2>2. pc' \in {"select", "stopped"} /\ (pc' = "stopped" => mode = "drain")
    BY <1>10 DEF FlushDone, Return
  <2>3. QED
    BY <1>1, <2>1, <2>2
<1>11. CASE Restart
  <2>1. Len(retryBuf') = 0 /\ retryCount' = 0 /\ Len(buf') = 0 /\ pc' = "select" /\ mode' = "run"
    BY <1>11, BatchLength DEF Restart
  <2>2. QED
    BY <1>1, <2>1
<1>12. QED
  BY <1>2, <1>3, <1>4, <1>5, <1>6, <1>7, <1>8, <1>9, <1>10, <1>11 DEF Next, Writer, Flush

\* Until the drain at the end of the process, the writer never holds more than the
\* retries allow, whatever fails (usage_writer.go:58-61, 91-121).
THEOREM BuffersAreBounded == Spec => []BufferBound
<1>1. Init => Bounded
  <2>1. Len(<<>>) = 0
    OBVIOUS
  <2>2. QED
    BY <2>1, SizesAssumption DEF Init, Bounded, BufferBound
<1>2. TypeOK /\ Bounded /\ [Next]_vars => Bounded'
  BY BoundedNext
<1>3. Bounded => BufferBound
  BY DEF Bounded
<1>4. QED
  BY <1>1, <1>2, <1>3, TypeCorrect, PTL DEF Spec

----------------------------------------------------------------------------
(* The totals. *)

\* What the flush in progress still has to add to the total of a token.
Outstanding(t) == IF pc = "totals" /\ t \in due THEN Usage(buf, t) ELSE 0

\* TotalsAgree is not inductive: it does not say by how much a total falls short
\* during a flush, nor that nothing is due outside a flush.
Balanced ==
  /\ pc # "totals" => due = {}
  /\ \A t \in live : /\ totals[t] + Outstanding(t) <= inserted[t]
                     /\ t \notin missed => totals[t] + Outstanding(t) = inserted[t]

LEMMA OutstandingType == TypeOK => \A t : Outstanding(t) \in Nat
BY UsageType DEF TypeOK, Outstanding

\* A batch holds no usage of a token it does not name.
LEMMA NoUsageOfOthers ==
  ASSUME NEW batch, NEW t, t \notin TokensOf(batch)
  PROVE  Usage(batch, t) = 0
<1>1. {i \in 1..Len(batch) : t \in {batch[i].gate, batch[i].real}} = {}
  BY DEF TokensOf
<1>2. QED
  BY <1>1, FS_EmptySet DEF Usage

LEMMA BalancedNext == TypeOK /\ Balanced /\ [Next]_vars => Balanced'
<1> SUFFICES ASSUME TypeOK, Balanced, [Next]_vars PROVE Balanced'
  OBVIOUS
<1>1. \A t \in live : totals[t] \in Nat /\ inserted[t] \in Nat /\ Outstanding(t) \in Nat
  BY OutstandingType DEF TypeOK, Tokens
\* Most steps leave the totals, the rows counted and the flush alone.
<1>2. ASSUME UNCHANGED <<totals, inserted, missed, due>>,
             due = {} \/ UNCHANGED <<pc, buf>>,
             live' \subseteq live,
             due # {} => pc' = "totals"
      PROVE  Balanced'
  BY <1>2 DEF Balanced, Outstanding
<1>3. CASE SendUsage \/ Shutdown \/ UNCHANGED vars
  BY <1>2, <1>3 DEF SendUsage, Shutdown, vars, memory, tables, Balanced
<1>4. ASSUME NEW t \in Tokens, DeleteToken(t) PROVE Balanced'
  BY <1>2, <1>4 DEF DeleteToken, memory, Balanced
<1>5. CASE Receive \/ Tick \/ NoticeDone \/ Drain \/ DrainDone
  <2>1. due = {}
    BY <1>5 DEF Receive, Tick, NoticeDone, Drain, DrainDone, Balanced
  <2>2. QED
    BY <1>2, <1>5, <2>1 DEF Receive, Tick, NoticeDone, Drain, DrainDone, tables
<1>6. CASE KeepForRetry \/ DiscardBatch \/ FlushDone
  <2>1. due = {} /\ UNCHANGED <<totals, inserted, missed, due, live>>
    BY <1>6 DEF KeepForRetry, DiscardBatch, FlushDone, tables, Balanced
  <2>2. QED
    BY <1>2, <2>1
<1>7. CASE InsertSucceeds
  <2>1. /\ pc' = "totals" /\ due' = TokensOf(Batch) /\ buf' = Batch
        /\ UNCHANGED <<live, totals, missed>>
        /\ due = {}
    BY <1>7 DEF InsertSucceeds, Balanced
  <2>2. \A t \in live : inserted'[t] = inserted[t] + Usage(Batch, t) /\ Usage(Batch, t) \in Nat
    <3>1. Batch \in Seq(Entry) /\ live \subseteq Tokens
      BY DEF TypeOK, Batch
    <3>2. inserted' = [u \in Tokens |-> inserted[u] + Usage(Batch, u)]
      BY <1>7 DEF InsertSucceeds
    <3>3. QED
      BY <3>1, <3>2, UsageType
  <2>3. \A t \in live : Outstanding(t) = 0 /\ Outstanding(t)' = Usage(Batch, t)
    BY <2>1, NoUsageOfOthers DEF Outstanding
  <2>4. QED
    BY <1>1, <2>1, <2>2, <2>3 DEF Balanced
<1>8. ASSUME NEW t \in Tokens, UpdateTotal(t) PROVE Balanced'
  <2>1. /\ pc = "totals" /\ pc' = "totals" /\ t \in due /\ due' = due \ {t}
        /\ UNCHANGED <<live, buf, inserted>>
    BY <1>8 DEF UpdateTotal
  <2>2. Usage(buf, t) \in Nat
    BY UsageType DEF TypeOK
  <2>3. ASSUME NEW u \in live, u # t
        PROVE  /\ Outstanding(u)' = Outstanding(u) /\ totals'[u] = totals[u]
               /\ u \in missed <=> u \in missed'
    BY <1>8, <2>1, <2>3 DEF UpdateTotal, Outstanding, TypeOK
  <2>4. Outstanding(t) = Usage(buf, t) /\ Outstanding(t)' = 0
    BY <2>1 DEF Outstanding
  <2>5. t \in live => \/ totals'[t] = totals[t] + Usage(buf, t) /\ missed' = missed
                      \/ totals'[t] = totals[t] /\ t \in missed'
    <3>1. [totals EXCEPT ![t] = @ + Usage(buf, t)][t] = totals[t] + Usage(buf, t)
      BY DEF TypeOK
    <3>2. t \in live => \/ totals' = [totals EXCEPT ![t] = @ + Usage(buf, t)] /\ missed' = missed
                        \/ totals' = totals /\ t \in missed'
      BY <1>8 DEF UpdateTotal
    <3>3. QED
      BY <3>1, <3>2
  <2>6. QED
    BY <1>1, <2>1, <2>2, <2>3, <2>4, <2>5 DEF Balanced
<1>9. CASE Restart
  <2>1. /\ pc' = "select" /\ due' = {} /\ missed' = missed \cup due
        /\ UNCHANGED <<live, totals, inserted>>
    BY <1>9 DEF Restart, tables
  <2>2. \A t : Outstanding(t)' = 0 /\ (t \notin due => Outstanding(t) = 0)
    BY <2>1 DEF Outstanding
  <2>3. QED
    BY <1>1, <2>1, <2>2 DEF Balanced
<1>10. QED
  BY <1>3, <1>4, <1>5, <1>6, <1>7, <1>8, <1>9 DEF Next, Writer, Flush

\* Whatever batches fail, are retried or cut short by a crash, a token's totals
\* count every row inserted for it exactly once, or fall short by a flush that is
\* not over or whose update failed (usage_writer.go:111-154).
THEOREM TotalsAreAgreed == Spec => []TotalsAgree
<1>1. Init => Balanced
  BY DEF Init, Balanced, Outstanding
<1>2. TypeOK /\ Balanced /\ [Next]_vars => Balanced'
  BY BalancedNext
<1>3. TypeOK /\ Balanced => TotalsAgree
  <2> SUFFICES ASSUME TypeOK, Balanced, NEW t \in live
               PROVE  /\ totals[t] <= inserted[t]
                      /\ t \notin due \cup missed => totals[t] = inserted[t]
    BY DEF TotalsAgree
  <2>1. totals[t] \in Nat /\ inserted[t] \in Nat /\ Outstanding(t) \in Nat
    BY OutstandingType DEF TypeOK, Tokens
  <2>2. t \notin due => Outstanding(t) = 0
    BY DEF Outstanding
  <2>3. QED
    BY <2>1, <2>2 DEF Balanced
<1>4. QED
  BY <1>1, <1>2, <1>3, TypeCorrect, PTL DEF Spec

\* Without faults no update is missed before the process is told to stop.
Undisturbed == ctx = "open" => missed = {}

\* So the totals of a process that nothing disturbs are exact, but for the flush it is at
\* (usage_writer.go:126-154).
THEOREM HealthyTotalsAreExact ==
  ASSUME Faults = {}
  PROVE  Spec => [](ctx = "open" => \A t \in live \ due : totals[t] = inserted[t])
<1>1. Init => Undisturbed
  BY DEF Init, Undisturbed
<1>2. Undisturbed /\ [Next]_vars => Undisturbed'
  <2> SUFFICES ASSUME Undisturbed, [Next]_vars PROVE Undisturbed'
    OBVIOUS
  <2>1. CASE \E t \in Tokens : UpdateTotal(t)
    BY <2>1 DEF UpdateTotal, Undisturbed
  <2>2. CASE \/ SendUsage \/ (\E t \in Tokens : DeleteToken(t)) \/ Receive \/ Tick \/ NoticeDone
             \/ Drain \/ DrainDone \/ InsertSucceeds \/ KeepForRetry \/ DiscardBatch
             \/ FlushDone \/ UNCHANGED vars
    <3>1. UNCHANGED <<ctx, missed>>
      BY <2>2
      DEF SendUsage, DeleteToken, Receive, Tick, NoticeDone, Drain, DrainDone, InsertSucceeds,
          KeepForRetry, DiscardBatch, FlushDone, vars, memory
    <3>2. QED
      BY <3>1 DEF Undisturbed
  <2>3. CASE Shutdown
    BY <2>3 DEF Shutdown, Undisturbed
  <2>4. ~Restart
    BY DEF Restart
  <2>5. QED
    BY <2>1, <2>2, <2>3, <2>4 DEF Next, Writer, Flush
<1>3. Undisturbed /\ TotalsAgree => (ctx = "open" => \A t \in live \ due : totals[t] = inserted[t])
  BY DEF Undisturbed, TotalsAgree
<1>4. QED
  BY <1>1, <1>2, <1>3, TotalsAreAgreed, PTL DEF Spec

----------------------------------------------------------------------------
(* The totals and the log. *)

OfToken(rows, t) == {row \in rows : t \in {row.entry.gate, row.entry.real}}

\* The rows of a batch that name a token are as many as the units it holds for it.
LEMMA RowsCounted ==
  ASSUME NEW batch \in Seq(Entry), NEW first \in Nat, NEW t
  PROVE  /\ IsFiniteSet(Rows(batch, first)) /\ IsFiniteSet(OfToken(Rows(batch, first), t))
         /\ Cardinality(OfToken(Rows(batch, first), t)) = Usage(batch, t)
<1> DEFINE J == {i \in 1..Len(batch) : t \in {batch[i].gate, batch[i].real}}
           R == OfToken(Rows(batch, first), t)
           row(i) == [id |-> first + i, entry |-> batch[i]]
           f == [i \in J |-> row(i)]
<1>1. Len(batch) \in Nat /\ IsFiniteSet(1..Len(batch))
  BY BatchElements, FS_Interval
<1>2. IsFiniteSet(J)
  BY <1>1, FS_Subset
<1>3. Rows(batch, first) = {row(i) : i \in 1..Len(batch)}
  BY DEF Rows
<1>4. IsFiniteSet(Rows(batch, first))
  <2>1. IsFiniteSet({row(i) : i \in 1..Len(batch)})
    <3> DEFINE g == [i \in 1..Len(batch) |-> row(i)]
               T == {row(i) : i \in 1..Len(batch)}
    <3>1. g \in [1..Len(batch) -> T] /\ \A y \in T : \E i \in 1..Len(batch) : g[i] = y
      OBVIOUS
    <3>2. g \in Surjection(1..Len(batch), T)
      BY <3>1, Fun_IsSurj
    <3>3. QED
      BY <1>1, <3>2, FS_Surjection
  <2>2. QED
    BY <1>3, <2>1
<1>5. f \in [J -> R] /\ \A y \in R : \E i \in J : f[i] = y
  BY <1>3 DEF OfToken
<1>6. \A i, j \in J : f[i] = f[j] => i = j
  <2>1. \A i, j \in J : row(i) = row(j) => first + i = first + j
    OBVIOUS
  <2>2. J \subseteq Nat
    BY <1>1
  <2>3. QED
    BY <2>1, <2>2
<1> HIDE DEF J, R, f
<1>7. f \in Bijection(J, R)
  BY <1>5, <1>6, Fun_IsBij
<1>8. ExistsBijection(J, R)
  BY <1>7, Fun_ExistsBij
<1>9. IsFiniteSet(R) /\ Cardinality(R) = Cardinality(J)
  BY <1>2, <1>8, FS_Bijection
<1>10. Cardinality(J) = Usage(batch, t)
  BY DEF Usage, J
<1>11. QED
  BY <1>4, <1>9, <1>10 DEF R

\* New rows have new ids.
LEMMA LoggedUnitsAdd ==
  ASSUME TypeOK, IsFiniteSet(usageLogs), \A row \in usageLogs : row.id <= lastId,
         NEW batch \in Seq(Entry), NEW t
  PROVE  Cardinality(OfToken(usageLogs \cup Rows(batch, lastId), t)) = LoggedUnits(t) + Usage(batch, t)
<1> DEFINE old == OfToken(usageLogs, t)
           new == OfToken(Rows(batch, lastId), t)
<1>1. lastId \in Nat /\ Len(batch) \in Nat
  BY BatchElements DEF TypeOK
<1>2. IsFiniteSet(old) /\ Cardinality(old) = LoggedUnits(t)
  BY FS_Subset DEF OfToken, LoggedUnits
<1>3. IsFiniteSet(new) /\ Cardinality(new) = Usage(batch, t)
  BY <1>1, RowsCounted
<1>4. \A row \in new : row.id > lastId
  BY <1>1 DEF OfToken, Rows
<1>5. old \cap new = {}
  <2>1. \A row \in old : row \in usageLogs
    BY DEF OfToken
  <2>2. \A row \in usageLogs : row.id \in Nat
    BY DEF TypeOK
  <2> HIDE DEF old, new
  <2>3. QED
    BY <1>1, <1>4, <2>1, <2>2
<1>6. OfToken(usageLogs \cup Rows(batch, lastId), t) = old \cup new
  BY DEF OfToken
<1> HIDE DEF old, new
<1>7. Cardinality(old \cap new) = 0
  BY <1>5, FS_EmptySet
<1>8. Cardinality(old \cup new) = Cardinality(old) + Cardinality(new) - Cardinality(old \cap new)
  BY <1>2, <1>3, FS_Union
<1>9. Cardinality(old) \in Nat /\ Cardinality(new) \in Nat
  BY <1>2, <1>3, FS_CardinalityType
<1>10. Cardinality(old \cup new) = Cardinality(old) + Cardinality(new)
  BY <1>7, <1>8, <1>9
<1>11. QED
  BY <1>2, <1>3, <1>6, <1>10

\* The rows of a token that is left are those inserted for it, but for the ones that went
\* with another token.
Logged ==
  /\ IsFiniteSet(usageLogs)
  /\ \A row \in usageLogs : row.id <= lastId
  /\ \A t \in live : /\ LoggedUnits(t) <= inserted[t]
                     /\ live = Tokens => LoggedUnits(t) = inserted[t]

LEMMA LoggedNext == TypeOK /\ Logged /\ [Next]_vars => Logged'
<1> SUFFICES ASSUME TypeOK, Logged, [Next]_vars PROVE Logged'
  OBVIOUS
<1>1. ASSUME UNCHANGED <<usageLogs, lastId, live, inserted>> PROVE Logged'
  BY <1>1 DEF Logged, LoggedUnits
<1>2. CASE InsertSucceeds
  <2>1. /\ usageLogs' = usageLogs \cup Rows(Batch, lastId)
        /\ lastId' = lastId + Len(Batch)
        /\ inserted' = [t \in Tokens |-> inserted[t] + Usage(Batch, t)]
        /\ live' = live
    BY <1>2 DEF InsertSucceeds
  <2>2. Batch \in Seq(Entry) /\ lastId \in Nat /\ live \subseteq Tokens /\ Len(Batch) \in Nat
    BY BatchElements DEF TypeOK, Batch
  <2>3. IsFiniteSet(usageLogs')
    <3>1. IsFiniteSet(Rows(Batch, lastId))
      BY <2>2, RowsCounted
    <3>2. QED
      BY <2>1, <3>1, FS_Union DEF Logged
  <2>4. \A row \in usageLogs' : row.id <= lastId'
    <3>1. \A row \in usageLogs : row.id \in Nat /\ row.id <= lastId
      BY DEF Logged, TypeOK
    <3>2. \A row \in Rows(Batch, lastId) : row.id <= lastId + Len(Batch)
      BY <2>2 DEF Rows
    <3>3. QED
      BY <2>1, <2>2, <3>1, <3>2
  <2>5. ASSUME NEW t \in live
        PROVE  /\ LoggedUnits(t)' <= inserted'[t]
               /\ live = Tokens => LoggedUnits(t)' = inserted'[t]
    <3>1. LoggedUnits(t)' = LoggedUnits(t) + Usage(Batch, t)
      <4>1. LoggedUnits(t)' = Cardinality(OfToken(usageLogs', t))
        BY DEF LoggedUnits, OfToken
      <4>2. Cardinality(OfToken(usageLogs \cup Rows(Batch, lastId), t)) = LoggedUnits(t) + Usage(Batch, t)
        BY <2>2, LoggedUnitsAdd DEF Logged
      <4>3. QED
        BY <2>1, <4>1, <4>2
    <3>2. inserted'[t] = inserted[t] + Usage(Batch, t)
      BY <2>1, <2>2
    <3>3. Usage(Batch, t) \in Nat /\ inserted[t] \in Nat
      BY <2>2, UsageType DEF TypeOK
    <3>4. LoggedUnits(t) \in Nat
      <4>1. IsFiniteSet(OfToken(usageLogs, t))
        BY FS_Subset DEF Logged, OfToken
      <4>2. QED
        BY <4>1, FS_CardinalityType DEF LoggedUnits, OfToken
    <3>5. LoggedUnits(t) <= inserted[t] /\ (live = Tokens => LoggedUnits(t) = inserted[t])
      BY DEF Logged
    <3>6. QED
      BY <3>1, <3>2, <3>3, <3>4, <3>5
  <2>6. QED
    BY <2>1, <2>3, <2>4, <2>5 DEF Logged
<1>3. ASSUME NEW u \in Tokens, DeleteToken(u) PROVE Logged'
  <2>1. /\ live' = live \ {u} /\ u \in live /\ usageLogs' \subseteq usageLogs
        /\ UNCHANGED <<lastId, inserted>>
    BY <1>3 DEF DeleteToken
  <2>2. IsFiniteSet(usageLogs')
    BY <2>1, FS_Subset DEF Logged
  <2>3. \A row \in usageLogs' : row.id <= lastId'
    BY <2>1 DEF Logged
  <2>4. live' # Tokens
    BY <2>1
  <2>5. ASSUME NEW t \in live' PROVE LoggedUnits(t)' <= inserted'[t]
    <3>1. OfToken(usageLogs', t) \subseteq OfToken(usageLogs, t) /\ IsFiniteSet(OfToken(usageLogs, t))
      BY <2>1, FS_Subset DEF OfToken, Logged
    <3>2. Cardinality(OfToken(usageLogs', t)) <= Cardinality(OfToken(usageLogs, t))
      BY <3>1, FS_Subset
    <3>3. LoggedUnits(t)' <= LoggedUnits(t)
      BY <3>2 DEF LoggedUnits, OfToken
    <3>4. LoggedUnits(t) <= inserted[t] /\ inserted'[t] = inserted[t] /\ inserted[t] \in Nat
      BY <2>1 DEF Logged, TypeOK
    <3>5. LoggedUnits(t) \in Nat /\ LoggedUnits(t)' \in Nat
      <4>1. IsFiniteSet(OfToken(usageLogs', t))
        BY <3>1, FS_Subset
      <4>2. QED
        BY <3>1, <4>1, FS_CardinalityType DEF LoggedUnits, OfToken
    <3>6. QED
      BY <3>3, <3>4, <3>5
  <2>6. QED
    BY <2>2, <2>3, <2>4, <2>5 DEF Logged
<1>4. CASE \/ SendUsage \/ Shutdown \/ Receive \/ Tick \/ NoticeDone \/ Drain \/ DrainDone
           \/ KeepForRetry \/ DiscardBatch \/ (\E t \in Tokens : UpdateTotal(t)) \/ FlushDone
           \/ Restart \/ UNCHANGED vars
  <2>1. UNCHANGED <<usageLogs, lastId, live, inserted>>
    BY <1>4
    DEF SendUsage, Shutdown, Receive, Tick, NoticeDone, Drain, DrainDone, KeepForRetry,
        DiscardBatch, UpdateTotal, FlushDone, Restart, vars, tables
  <2>2. QED
    BY <1>1, <2>1
<1>5. QED
  BY <1>2, <1>3, <1>4 DEF Next, Writer, Flush

\* The totals of a token and its rows of usage_logs are two accounts of the same usage:
\* they agree but for updates that failed or are still to come, and for rows that went
\* with the other token they name (usage_writer.go:111-154, store/usage.go:46-80).
THEOREM TotalsCoverTheLogs == Spec => []TotalsCoverLogs
<1>1. Init => Logged
  <2> SUFFICES ASSUME Init PROVE Logged
    OBVIOUS
  <2>1. IsFiniteSet({}) /\ Cardinality({}) = 0
    BY FS_EmptySet
  <2>2. usageLogs = {} /\ lastId = 0 /\ inserted = [t \in Tokens |-> 0] /\ live = Tokens
    BY DEF Init
  <2>3. \A t \in live : LoggedUnits(t) = 0 /\ inserted[t] = 0
    BY <2>1, <2>2 DEF LoggedUnits
  <2>4. QED
    BY <2>1, <2>2, <2>3 DEF Logged
<1>2. Logged /\ TotalsAgree => TotalsCoverLogs
  BY DEF Logged, TotalsAgree, TotalsCoverLogs
<1>3. QED
  BY <1>1, <1>2, LoggedNext, TotalsAreAgreed, TypeCorrect, PTL DEF Spec

----------------------------------------------------------------------------
(* What a healthy database can lose. *)

\* When no statement fails by itself, entries of a running process wait for another
\* attempt for one reason only: among them is one whose token has been deleted since
\* the process started (usage_writer.go:111-122, store/usage.go:46-80).
RetriesAwaitDeleted ==
  ctx = "open" /\ retryBuf # <<>> => TokensOf(retryBuf) \cap (usable \ live) # {}

\* Nor is a batch thrown away for another reason: what a running process loses it
\* loses to the deletion of a token that it started with (usage_writer.go:111-122).
LossesAreDeletions ==
  [][DiscardBatch /\ ctx = "open" => TokensOf(Batch) \cap (usable \ live) # {}]_vars

\* Every entry of s is about tokens of S.
About(s, S) == \A i \in 1..Len(s) : s[i].gate \in S /\ s[i].real \in S

LEMMA TokensAbout ==
  ASSUME NEW s, NEW S
  PROVE  TokensOf(s) \subseteq S <=> About(s, S)
BY DEF TokensOf, About

LEMMA ConcatAbout ==
  ASSUME NEW a \in Seq(Entry), NEW b \in Seq(Entry), NEW S, About(a, S), About(b, S)
  PROVE  About(a \o b, S)
<1> DEFINE c == a \o b
<1>1. /\ Len(a) \in Nat /\ Len(b) \in Nat /\ Len(c) = Len(a) + Len(b)
      /\ \A i \in 1..(Len(a) + Len(b)) : c[i] = IF i <= Len(a) THEN a[i] ELSE b[i - Len(a)]
  BY LenProperties, ConcatProperties
<1> HIDE DEF c
<1>2. ASSUME NEW i \in 1..Len(c) PROVE c[i].gate \in S /\ c[i].real \in S
  <2>1. CASE i <= Len(a)
    <3>1. i \in 1..Len(a) /\ c[i] = a[i]
      BY <1>1, <2>1
    <3>2. QED
      BY <3>1 DEF About
  <2>2. CASE ~(i <= Len(a))
    <3>1. i - Len(a) \in 1..Len(b) /\ c[i] = b[i - Len(a)]
      BY <1>1, <2>2
    <3>2. QED
      BY <3>1 DEF About
  <2>3. QED
    BY <2>1, <2>2
<1>3. About(c, S)
  BY <1>2 DEF About
<1>4. QED
  BY <1>3 DEF c

LEMMA AppendAbout ==
  ASSUME NEW b \in Seq(Entry), NEW e \in Entry, NEW S, About(b, S), e.gate \in S, e.real \in S
  PROVE  About(Append(b, e), S)
<1> DEFINE c == Append(b, e)
<1>1. /\ Len(b) \in Nat /\ Len(c) = Len(b) + 1
      /\ \A i \in 1..Len(b) : c[i] = b[i]
      /\ c[Len(b) + 1] = e
  BY LenProperties, AppendProperties
<1> HIDE DEF c
<1>2. ASSUME NEW i \in 1..Len(c) PROVE c[i].gate \in S /\ c[i].real \in S
  <2>1. CASE i = Len(b) + 1
    BY <1>1, <2>1
  <2>2. CASE i # Len(b) + 1
    <3>1. i \in 1..Len(b) /\ c[i] = b[i]
      BY <1>1, <2>2
    <3>2. QED
      BY <3>1 DEF About
  <2>3. QED
    BY <2>1, <2>2
<1>3. About(c, S)
  BY <1>2 DEF About
<1>4. QED
  BY <1>3 DEF c

LEMMA MoveAbout ==
  ASSUME NEW ch \in Seq(Entry), ch # <<>>, NEW b \in Seq(Entry), NEW S, About(ch, S), About(b, S)
  PROVE  About(Tail(ch), S) /\ About(Append(b, Head(ch)), S)
<1>1. /\ Head(ch) \in Entry /\ Head(ch) = ch[1]
      /\ Len(ch) \in Nat \ {0} /\ Len(Tail(ch)) = Len(ch) - 1
      /\ \A i \in 1..Len(Tail(ch)) : Tail(ch)[i] = ch[i + 1]
  BY HeadTailProperties, LenProperties, EmptySeq
<1>2. Head(ch).gate \in S /\ Head(ch).real \in S
  BY <1>1 DEF About
<1>3. About(Append(b, Head(ch)), S)
  BY <1>1, <1>2, AppendAbout
<1>4. ASSUME NEW i \in 1..Len(Tail(ch)) PROVE Tail(ch)[i].gate \in S /\ Tail(ch)[i].real \in S
  <2>1. Tail(ch)[i] = ch[i + 1] /\ i + 1 \in 1..Len(ch)
    BY <1>1
  <2>2. QED
    BY <2>1 DEF About
<1>5. QED
  BY <1>3, <1>4 DEF About

\* What the writer holds is about tokens that this process started with.
InUse ==
  /\ live \subseteq usable
  /\ About(usageCh, usable)
  /\ About(buf, usable)
  /\ About(retryBuf, usable)

LEMMA InUseNext == TypeOK /\ InUse /\ [Next]_vars => InUse'
<1> SUFFICES ASSUME TypeOK, InUse, [Next]_vars PROVE InUse'
  OBVIOUS
<1>1. /\ usageCh \in Seq(Entry) /\ buf \in Seq(Entry) /\ retryBuf \in Seq(Entry)
      /\ live \subseteq usable
      /\ About(usageCh, usable) /\ About(buf, usable) /\ About(retryBuf, usable)
  BY DEF TypeOK, InUse
<1>2. About(<<>>, usable)
  BY DEF About
<1>3. About(Batch, usable)
  BY <1>1, ConcatAbout DEF Batch
\* Most steps keep the tokens and move entries that are there already.
<1>4. ASSUME usable' = usable, live' \subseteq live,
             About(usageCh', usable), About(buf', usable), About(retryBuf', usable)
      PROVE  InUse'
  BY <1>1, <1>4 DEF InUse, About
<1>5. CASE SendUsage
  <2>1. PICK g \in Gates \cap usable, r \in Reals \cap usable :
          usageCh' = IF Len(usageCh) < ChannelSize
                     THEN Append(usageCh, [n |-> sent + 1, gate |-> g, real |-> r])
                     ELSE usageCh
    BY <1>5 DEF SendUsage
  <2> DEFINE e == [n |-> sent + 1, gate |-> g, real |-> r]
  <2>2. e \in Entry /\ e.gate \in usable /\ e.real \in usable
    BY <1>5, SizesAssumption DEF SendUsage, TypeOK, Entry
  <2>3. usageCh' = Append(usageCh, e) \/ usageCh' = usageCh
    BY <2>1
  <2> HIDE DEF e
  <2>4. About(usageCh', usable)
    BY <1>1, <2>2, <2>3, AppendAbout
  <2>5. UNCHANGED <<buf, retryBuf, usable, live>>
    BY <1>5 DEF SendUsage, tables
  <2>6. QED
    BY <1>1, <1>4, <2>4, <2>5
<1>6. CASE Receive \/ Drain
  <2>1. /\ usageCh # <<>> /\ usageCh' = Tail(usageCh) /\ buf' = Append(buf, Head(usageCh))
        /\ UNCHANGED <<retryBuf, usable, live>>
    BY <1>6 DEF Receive, Drain, tables
  <2>2. About(usageCh', usable) /\ About(buf', usable)
    BY <1>1, <2>1, MoveAbout
  <2>3. QED
    BY <1>1, <1>4, <2>1, <2>2
<1>7. CASE InsertSucceeds \/ KeepForRetry \/ DiscardBatch
  <2>1. /\ buf' = Batch \/ buf' = <<>>
        /\ retryBuf' = Batch \/ retryBuf' = <<>>
        /\ UNCHANGED <<usageCh, usable, live>>
    BY <1>7 DEF InsertSucceeds, KeepForRetry, DiscardBatch, tables
  <2>2. About(buf', usable) /\ About(retryBuf', usable)
    BY <1>2, <1>3, <2>1
  <2>3. QED
    BY <1>1, <1>4, <2>1, <2>2
<1>8. CASE FlushDone
  <2>1. buf' = <<>> /\ UNCHANGED <<usageCh, retryBuf, usable, live>>
    BY <1>8 DEF FlushDone, tables
  <2>2. QED
    BY <1>1, <1>2, <1>4, <2>1
<1>9. CASE \/ Shutdown \/ (\E t \in Tokens : DeleteToken(t)) \/ Tick \/ NoticeDone \/ DrainDone
           \/ (\E t \in Tokens : UpdateTotal(t)) \/ UNCHANGED vars
  <2>1. UNCHANGED <<usageCh, buf, retryBuf, usable>> /\ live' \subseteq live
    BY <1>9
    DEF Shutdown, DeleteToken, Tick, NoticeDone, DrainDone, UpdateTotal, vars, memory, tables
  <2>2. QED
    BY <1>1, <1>4, <2>1
<1>10. CASE Restart
  <2>1. /\ usageCh' = <<>> /\ buf' = <<>> /\ retryBuf' = <<>> /\ usable' = live /\ live' = live
    BY <1>10 DEF Restart, tables
  <2>2. About(<<>>, live)
    BY DEF About
  <2>3. QED
    BY <2>1, <2>2 DEF InUse, About
<1>11. QED
  BY <1>5, <1>6, <1>7, <1>8, <1>9, <1>10 DEF Next, Writer, Flush

\* A statement fails only because of a deletion, or at the end of the process.
LEMMA FailureNeedsDeletion ==
  ASSUME "store" \notin Faults, TypeOK, InUse, ~MustInsert, ctx = "open"
  PROVE  TokensOf(Batch) \cap (usable \ live) # {}
<1>1. ~(TokensOf(Batch) \subseteq live)
  BY DEF MustInsert, MayInsert
<1>2. About(Batch, usable)
  BY ConcatAbout DEF InUse, TypeOK, Batch
<1>3. TokensOf(Batch) \subseteq usable
  BY <1>2, TokensAbout
<1>4. QED
  BY <1>1, <1>3

LEMMA AwaitNext ==
  ASSUME "store" \notin Faults, TypeOK, InUse, RetriesAwaitDeleted, [Next]_vars
  PROVE  RetriesAwaitDeleted'
<1>1. ASSUME UNCHANGED <<retryBuf, usable>>, live' \subseteq live, ctx' = ctx \/ ctx' = "done"
      PROVE  RetriesAwaitDeleted'
  <2> SUFFICES ASSUME ctx' = "open", retryBuf' # <<>>
               PROVE  TokensOf(retryBuf') \cap (usable' \ live') # {}
    BY DEF RetriesAwaitDeleted
  <2>1. TokensOf(retryBuf) \cap (usable \ live) # {}
    BY <1>1 DEF RetriesAwaitDeleted
  <2>2. QED
    BY <1>1, <2>1
<1>2. CASE KeepForRetry
  <2>1. retryBuf' = Batch /\ UNCHANGED <<ctx, usable, live>> /\ ~MustInsert
    BY <1>2 DEF KeepForRetry, tables
  <2>2. QED
    BY <2>1, FailureNeedsDeletion DEF RetriesAwaitDeleted
<1>3. CASE InsertSucceeds \/ DiscardBatch \/ Restart
  <2>1. retryBuf' = <<>>
    BY <1>3 DEF InsertSucceeds, DiscardBatch, Restart
  <2>2. QED
    BY <2>1 DEF RetriesAwaitDeleted
<1>4. CASE SendUsage \/ Shutdown \/ (\E t \in Tokens : DeleteToken(t)) \/ UNCHANGED vars
  <2>1. UNCHANGED <<retryBuf, usable>> /\ live' \subseteq live /\ (ctx' = ctx \/ ctx' = "done")
    BY <1>4 DEF SendUsage, Shutdown, DeleteToken, vars, memory, tables
  <2>2. QED
    BY <1>1, <2>1
<1>5. CASE \/ Receive \/ Tick \/ NoticeDone \/ Drain \/ DrainDone
           \/ (\E t \in Tokens : UpdateTotal(t)) \/ FlushDone
  <2>1. UNCHANGED <<retryBuf, usable, live, ctx>>
    BY <1>5 DEF Receive, Tick, NoticeDone, Drain, DrainDone, UpdateTotal, FlushDone, tables
  <2>2. QED
    BY <1>1, <2>1
<1>6. QED
  BY <1>2, <1>3, <1>4, <1>5 DEF Next, Writer, Flush

LEMMA AlwaysInUse == Spec => []InUse
<1>1. Init => InUse
  BY DEF Init, InUse, About
<1>2. QED
  BY <1>1, InUseNext, TypeCorrect, PTL DEF Spec

\* Where no statement fails by itself, entries wait for a retry only in a batch with
\* an entry whose token was deleted while the process ran (usage_writer.go:111-122).
THEOREM RetriesAreOfDeleted ==
  ASSUME "store" \notin Faults
  PROVE  Spec => []RetriesAwaitDeleted
<1>1. Init => RetriesAwaitDeleted
  BY DEF Init, RetriesAwaitDeleted
<1>2. TypeOK /\ InUse /\ RetriesAwaitDeleted /\ [Next]_vars => RetriesAwaitDeleted'
  BY AwaitNext
<1>3. QED
  BY <1>1, <1>2, AlwaysInUse, TypeCorrect, PTL DEF Spec

\* Nor is anything lost for another reason: until one of the tokens it started with is
\* deleted, a running process gives up none of the entries it took (usage_writer.go:111-122).
THEOREM LossesAreOfDeleted ==
  ASSUME "store" \notin Faults
  PROVE  Spec => LossesAreDeletions
<1>1. TypeOK /\ InUse =>
        (DiscardBatch /\ ctx = "open" => TokensOf(Batch) \cap (usable \ live) # {})
  BY FailureNeedsDeletion DEF DiscardBatch
<1>2. QED
  BY <1>1, AlwaysInUse, TypeCorrect, PTL DEF LossesAreDeletions
=============================================================================
