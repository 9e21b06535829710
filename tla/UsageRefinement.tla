-------------------------- MODULE UsageRefinement --------------------------
(***************************************************************************)
(* UsagePipeline implements UsageLedger: every step of the pipeline maps,  *)
(* under the mapping of the instance Ledger, to a step of the ledger or to *)
(* none.  How the queue of the ledger moves also gives the order of the    *)
(* rows.                                                                   *)
(***************************************************************************)
EXTENDS UsagePipelineProofs

\* The mapping needs one invariant beyond the types: a flush has something to insert.
FlushHasBatch == pc = "flush" => Batch # <<>>

LEMMA FlushHasBatchNext == TypeOK /\ FlushHasBatch /\ [Next]_vars => FlushHasBatch'
<1> SUFFICES ASSUME TypeOK, FlushHasBatch, [Next]_vars, pc' = "flush" PROVE Batch' # <<>>
  BY DEF FlushHasBatch
<1>1. ASSUME pc = "flush", UNCHANGED <<buf, retryBuf>> PROVE Batch' # <<>>
  BY <1>1 DEF FlushHasBatch, Batch
<1>2. ASSUME buf' \in Seq(Entry), retryBuf' \in Seq(Entry), buf' # <<>> \/ retryBuf' # <<>>
      PROVE  Batch' # <<>>
  BY <1>2, ConcatEqualIffEmpty DEF Batch
<1>3. CASE Receive
  <2>1. buf' = Append(buf, Head(usageCh)) /\ retryBuf' = retryBuf /\ usageCh # <<>>
    BY <1>3 DEF Receive
  <2>2. buf' \in Seq(Entry) /\ buf' # <<>>
    BY <2>1, HeadTailProperties, AppendProperties DEF TypeOK
  <2>3. QED
    BY <1>2, <2>1, <2>2 DEF TypeOK
<1>4. CASE Tick \/ DrainDone
  BY <1>2, <1>4 DEF Tick, DrainDone, TypeOK
<1>5. CASE SendUsage \/ Shutdown \/ (\E t \in Tokens : DeleteToken(t)) \/ UNCHANGED vars
  BY <1>1, <1>5 DEF SendUsage, Shutdown, DeleteToken, vars, memory
<1>6. CASE NoticeDone \/ Drain \/ InsertSucceeds \/ Restart \/ (\E t \in Tokens : UpdateTotal(t))
  BY <1>6 DEF NoticeDone, Drain, InsertSucceeds, Restart, UpdateTotal
<1>7. CASE KeepForRetry \/ DiscardBatch \/ FlushDone
  BY <1>7 DEF KeepForRetry, DiscardBatch, FlushDone, Return
<1>8. QED
  BY <1>3, <1>4, <1>5, <1>6, <1>7 DEF Next, Writer, Flush

----------------------------------------------------------------------------
(* Sequences. *)

\* Taking a prefix off a sequence leaves the rest.
LEMMA TakePrefix ==
  ASSUME NEW b \in Seq(Entry), NEW c \in Seq(Entry), b # <<>>
  PROVE  /\ Len(b) \in 1..Len(b \o c)
         /\ SubSeq(b \o c, 1, Len(b)) = b
         /\ SubSeq(b \o c, Len(b) + 1, Len(b \o c)) = c
<1>1. /\ Len(b) \in Nat \ {0} /\ Len(c) \in Nat
      /\ Len(b \o c) = Len(b) + Len(c)
  BY EmptySeq, LenProperties, ConcatProperties
<1>2. SubSeq(b \o c, 1, Len(b)) = b
  BY <1>1, SubSeqOfConcat1, SubSeqFull
<1>3. SubSeq(b \o c, Len(b) + 1, Len(b \o c)) = c
  <2>1. CASE c = <<>>
    <3>1. Len(c) = 0
      BY <2>1, EmptySeq
    <3>2. QED
      BY <1>1, <2>1, <3>1, SubSeqEmpty
  <2>2. CASE c # <<>>
    <3>1. Len(c) \in Nat \ {0}
      BY <2>2, EmptySeq
    <3>2. SubSeq(b \o c, Len(b) + 1, Len(b) + Len(c)) = SubSeq(c, 1, Len(c))
      BY <1>1, <3>1, SubSeqOfConcat2
    <3>3. QED
      BY <1>1, <3>2, SubSeqFull
  <2>3. QED
    BY <2>1, <2>2
<1>4. QED
  BY <1>1, <1>2, <1>3

\* Moving the head of one sequence to the end of the other does not change both together.
LEMMA MoveKeepsOrder ==
  ASSUME NEW b \in Seq(Entry), NEW c \in Seq(Entry), c # <<>>
  PROVE  Append(b, Head(c)) \o Tail(c) = b \o c
<1>1. /\ Head(c) \in Entry /\ Tail(c) \in Seq(Entry)
      /\ Len(Tail(c)) = Len(c) - 1
      /\ \A i \in 1..Len(Tail(c)) : Tail(c)[i] = c[i + 1]
  BY HeadTailProperties
<1>2. Len(b) \in Nat /\ Len(c) \in Nat \ {0} /\ Head(c) = c[1]
  BY LenProperties, EmptySeq
<1> DEFINE a == Append(b, Head(c))
<1>3. /\ a \in Seq(Entry) /\ Len(a) = Len(b) + 1
      /\ \A i \in 1..Len(b) : a[i] = b[i]
      /\ a[Len(b) + 1] = Head(c)
  BY <1>1, AppendProperties
<1> HIDE DEF a
<1>4. /\ a \o Tail(c) \in Seq(Entry)
      /\ Len(a \o Tail(c)) = Len(b) + Len(c)
      /\ \A i \in 1..Len(b) + Len(c) :
           (a \o Tail(c))[i] = IF i <= Len(b) + 1 THEN a[i] ELSE Tail(c)[i - (Len(b) + 1)]
  <2>1. Len(a) + Len(Tail(c)) = Len(b) + Len(c)
    BY <1>1, <1>2, <1>3
  <2>2. /\ a \o Tail(c) \in Seq(Entry)
        /\ Len(a \o Tail(c)) = Len(a) + Len(Tail(c))
        /\ \A i \in 1..Len(a) + Len(Tail(c)) :
             (a \o Tail(c))[i] = IF i <= Len(a) THEN a[i] ELSE Tail(c)[i - Len(a)]
    BY <1>1, <1>3, ConcatProperties
  <2>3. QED
    BY <1>3, <2>1, <2>2
<1>5. /\ b \o c \in Seq(Entry)
      /\ Len(b \o c) = Len(b) + Len(c)
      /\ \A i \in 1..Len(b) + Len(c) : (b \o c)[i] = IF i <= Len(b) THEN b[i] ELSE c[i - Len(b)]
  BY ConcatProperties
<1>6. ASSUME NEW i \in 1..Len(b) + Len(c) PROVE (a \o Tail(c))[i] = (b \o c)[i]
  <2>1. CASE i <= Len(b)
    BY <1>2, <1>3, <1>4, <1>5, <2>1
  <2>2. CASE i = Len(b) + 1
    BY <1>2, <1>3, <1>4, <1>5, <2>2
  <2>3. CASE i > Len(b) + 1
    <3>1. i - (Len(b) + 1) \in 1..Len(Tail(c))
      BY <1>1, <1>2, <2>3
    <3>2. Tail(c)[i - (Len(b) + 1)] = c[i - Len(b)]
      BY <1>1, <1>2, <3>1
    <3>3. (a \o Tail(c))[i] = Tail(c)[i - (Len(b) + 1)]
      BY <1>2, <1>4, <2>3
    <3>4. (b \o c)[i] = c[i - Len(b)]
      BY <1>2, <1>5, <2>3
    <3>5. QED
      BY <3>2, <3>3, <3>4
  <2>4. i <= Len(b) \/ i = Len(b) + 1 \/ i > Len(b) + 1
    BY <1>2
  <2>5. QED
    BY <2>1, <2>2, <2>3, <2>4
<1>7. QED
  BY <1>4, <1>5, <1>6, SeqEqual DEF a

\* Appending to the second of two sequences is appending to both together.
LEMMA AppendToBoth ==
  ASSUME NEW b \in Seq(Entry), NEW c \in Seq(Entry), NEW e \in Entry
  PROVE  b \o Append(c, e) = Append(b \o c, e)
<1>1. <<e>> \in Seq(Entry) /\ b \o c \in Seq(Entry)
  BY ConcatProperties
<1>2. b \o (c \o <<e>>) = (b \o c) \o <<e>>
  BY <1>1, ConcatAssociative
<1>3. QED
  BY <1>1, <1>2, AppendIsConcat

LEMMA EntriesAssociative ==
  \A a, b, c \in Seq(Entry) : (a \o b) \o c = a \o (b \o c)
BY ConcatAssociative

----------------------------------------------------------------------------
(* Each action of the pipeline and the step of the ledger it maps to. *)

LEMMA PendingType == TypeOK => /\ Pending \in Seq(Entry)
                               /\ retryBuf \o (IF pc = "totals" THEN <<>> ELSE buf) \in Seq(Entry)
<1>1. TypeOK => /\ retryBuf \in Seq(Entry) /\ usageCh \in Seq(Entry)
                /\ (IF pc = "totals" THEN <<>> ELSE buf) \in Seq(Entry)
  BY EmptySeq DEF TypeOK
<1>2. QED
  BY <1>1, ConcatProperties DEF Pending

\* A report that fits into the channel is the newest in the queue, another leaves no trace.
LEMMA SendAppends ==
  ASSUME TypeOK, SendUsage
  PROVE  /\ sent' = sent + 1
         /\ UNCHANGED <<retryCount, usageLogs, lastId, live>>
         /\ \/ \E e \in Entry : e.n = sent + 1 /\ Pending' = Append(Pending, e)
            \/ Pending' = Pending
<1>1. PICK g \in Gates \cap usable, r \in Reals \cap usable :
        usageCh' = IF Len(usageCh) < ChannelSize
                   THEN Append(usageCh, [n |-> sent + 1, gate |-> g, real |-> r])
                   ELSE usageCh
  BY DEF SendUsage
<1>2. sent' = sent + 1 /\ UNCHANGED <<retryBuf, buf, pc, retryCount, usageLogs, lastId, live>>
  BY DEF SendUsage, tables
<1>3. [n |-> sent + 1, gate |-> g, real |-> r] \in Entry
  BY SizesAssumption DEF SendUsage, TypeOK, Entry
<1> DEFINE e == [n |-> sent + 1, gate |-> g, real |-> r]
           b == retryBuf \o (IF pc = "totals" THEN <<>> ELSE buf)
<1>4. CASE usageCh' = Append(usageCh, e)
  <2>1. Pending' = b \o Append(usageCh, e)
    BY <1>2, <1>4 DEF Pending
  <2>2. b \o Append(usageCh, e) = Append(Pending, e)
    <3>1. b \in Seq(Entry) /\ usageCh \in Seq(Entry) /\ e \in Entry
      BY <1>3, PendingType DEF TypeOK
    <3>2. Pending = b \o usageCh
      BY DEF Pending
    <3> HIDE DEF b, e
    <3>3. QED
      BY <3>1, <3>2, AppendToBoth
  <2>3. QED
    BY <1>2, <1>3, <2>1, <2>2
<1>5. CASE usageCh' = usageCh
  BY <1>2, <1>5 DEF Pending
<1>6. QED
  BY <1>1, <1>4, <1>5

LEMMA SendAccepts ==
  ASSUME TypeOK, SendUsage
  PROVE  Ledger!Accept \/ UNCHANGED Ledger!ledger
BY SendAppends DEF Ledger!Accept, Ledger!ledger

\* The writer moves reports from the channel to its buffer: the ledger sees nothing.
LEMMA ReceiveStutters ==
  ASSUME TypeOK, Receive \/ Drain
  PROVE  UNCHANGED Ledger!ledger
<1>1. /\ usageCh # <<>> /\ usageCh' = Tail(usageCh) /\ buf' = Append(buf, Head(usageCh))
      /\ pc # "totals" /\ pc' # "totals"
      /\ UNCHANGED <<retryBuf, retryCount, usageLogs, lastId, live>>
  BY DEF Receive, Drain, tables
<1>2. /\ usageCh \in Seq(Entry) /\ buf \in Seq(Entry) /\ retryBuf \in Seq(Entry)
      /\ usageCh' \in Seq(Entry) /\ buf' \in Seq(Entry)
  BY <1>1, MoveHead DEF TypeOK
<1>3. Pending = (retryBuf \o buf) \o usageCh /\ Pending' = (retryBuf \o buf') \o usageCh'
  BY <1>1 DEF Pending
<1>4. (retryBuf \o buf) \o usageCh = retryBuf \o (buf \o usageCh)
  <2>1. retryBuf \in Seq(Entry) /\ buf \in Seq(Entry) /\ usageCh \in Seq(Entry)
    BY <1>2
  <2>2. QED
    BY <2>1, EntriesAssociative
<1>5. (retryBuf \o buf') \o usageCh' = retryBuf \o (buf' \o usageCh')
  <2>1. retryBuf \in Seq(Entry) /\ buf' \in Seq(Entry) /\ usageCh' \in Seq(Entry)
    BY <1>2
  <2>2. QED
    BY <2>1, EntriesAssociative
<1>6. buf' \o usageCh' = buf \o usageCh
  BY <1>1, <1>2, MoveKeepsOrder
<1>7. QED
  BY <1>1, <1>3, <1>4, <1>5, <1>6 DEF Ledger!ledger

\* A failed flush keeps every entry in its place.
LEMMA RetryFailsAttempt ==
  ASSUME TypeOK, KeepForRetry
  PROVE  Ledger!FailAttempt
<1>1. /\ pc = "flush" /\ retryCount < MaxRetries /\ retryCount' = retryCount + 1
      /\ retryBuf' = Batch /\ buf' = <<>>
      /\ UNCHANGED <<usageCh, usageLogs, lastId, live>>
  BY DEF KeepForRetry, tables
<1>2. pc' # "totals"
  BY DEF KeepForRetry, Return
<1>3. Pending' = (Batch \o <<>>) \o usageCh
  BY <1>1, <1>2 DEF Pending
<1>4. Batch \in Seq(Entry)
  BY ConcatProperties DEF TypeOK, Batch
<1>5. Pending' = Pending
  BY <1>1, <1>3, <1>4, ConcatEmptySeq DEF Pending, Batch
<1>6. QED
  BY <1>1, <1>5 DEF Ledger!FailAttempt

\* What a flush inserts or throws away is taken off the front of the queue.
LEMMA FlushTakesBatch ==
  ASSUME TypeOK, FlushHasBatch, pc = "flush", Pending' = usageCh
  PROVE  /\ Len(Batch) \in 1..Len(Pending)
         /\ SubSeq(Pending, 1, Len(Batch)) = Batch
         /\ Ledger!TakeBatch(Batch)
<1>1. Batch \in Seq(Entry) /\ Batch # <<>> /\ usageCh \in Seq(Entry)
  BY ConcatProperties DEF TypeOK, FlushHasBatch, Batch
<1>2. Pending = Batch \o usageCh
  BY DEF Pending, Batch
<1>3. QED
  BY <1>1, <1>2, TakePrefix DEF Ledger!TakeBatch

LEMMA InsertRecords ==
  ASSUME TypeOK, FlushHasBatch, InsertSucceeds
  PROVE  Ledger!Record
<1>1. /\ pc = "flush" /\ pc' = "totals" /\ MayInsert
      /\ usageLogs' = usageLogs \cup Rows(Batch, lastId)
      /\ lastId' = lastId + Len(Batch)
      /\ retryBuf' = <<>> /\ retryCount' = 0
      /\ UNCHANGED <<usageCh, live>>
  BY DEF InsertSucceeds
<1>2. Pending' = usageCh
  <2>1. Pending' = (<<>> \o <<>>) \o usageCh
    BY <1>1 DEF Pending
  <2>2. QED
    BY <2>1, EmptySeq, ConcatEmptySeq DEF TypeOK
<1>3. Ledger!Recordable(Batch)
  BY <1>1 DEF Ledger!Recordable, MayInsert, TokensOf
<1>4. /\ Len(Batch) \in 1..Len(Pending)
      /\ SubSeq(Pending, 1, Len(Batch)) = Batch
      /\ Ledger!TakeBatch(Batch)
  BY <1>1, <1>2, FlushTakesBatch
<1>5. Ledger!Rows(Batch, lastId) = Rows(Batch, lastId)
  BY DEF Ledger!Rows, Rows
<1>6. QED
  BY <1>1, <1>3, <1>4, <1>5 DEF Ledger!Record

LEMMA DiscardDiscards ==
  ASSUME TypeOK, FlushHasBatch, DiscardBatch
  PROVE  Ledger!Discard
<1>1. /\ pc = "flush" /\ retryBuf' = <<>> /\ buf' = <<>> /\ retryCount' = 0
      /\ UNCHANGED <<usageCh, usageLogs, lastId, live>>
  BY DEF DiscardBatch, tables
<1>2. retryCount = MaxRetries
  BY SizesAssumption DEF DiscardBatch, TypeOK
<1>3. Pending' = usageCh
  <2>1. Pending' = (<<>> \o <<>>) \o usageCh
    BY <1>1 DEF Pending
  <2>2. QED
    BY <2>1, EmptySeq, ConcatEmptySeq DEF TypeOK
<1>4. QED
  BY <1>1, <1>2, <1>3, FlushTakesBatch DEF Ledger!Discard

\* Bookkeeping of the writer.
LEMMA OthersStutter ==
  ASSUME TypeOK,
         \/ Shutdown \/ Tick \/ NoticeDone \/ DrainDone
         \/ \E t \in Tokens : UpdateTotal(t)
         \/ FlushDone \/ UNCHANGED vars
  PROVE  UNCHANGED Ledger!ledger
<1>1. CASE Shutdown \/ Tick \/ NoticeDone \/ DrainDone
  BY <1>1 DEF Shutdown, Tick, NoticeDone, DrainDone, tables, Pending, Ledger!ledger
<1>2. CASE (\E t \in Tokens : UpdateTotal(t)) \/ UNCHANGED vars
  BY <1>2 DEF UpdateTotal, vars, memory, tables, Pending, Ledger!ledger
<1>3. CASE FlushDone
  BY <1>3 DEF FlushDone, Return, tables, Pending, Ledger!ledger
<1>4. QED
  BY <1>1, <1>2, <1>3

LEMMA StepSimulates ==
  TypeOK /\ FlushHasBatch /\ [Next]_vars => [Ledger!Next]_(Ledger!ledger)
<1> SUFFICES ASSUME TypeOK, FlushHasBatch, [Next]_vars
             PROVE  Ledger!Next \/ UNCHANGED Ledger!ledger
  OBVIOUS
<1>1. CASE SendUsage
  BY <1>1, SendAccepts DEF Ledger!Next
<1>2. ASSUME NEW t \in Tokens, DeleteToken(t) PROVE Ledger!Delete
  BY <1>2 DEF DeleteToken, memory, Pending, Ledger!Delete
<1>3. CASE Receive \/ Drain
  BY <1>3, ReceiveStutters
<1>4. CASE Flush
  BY <1>4, InsertRecords, RetryFailsAttempt, DiscardDiscards DEF Flush, Ledger!Next
<1>5. CASE Restart
  <2>1. Pending' = (<<>> \o <<>>) \o <<>>
    BY <1>5 DEF Restart, Pending
  <2>2. Pending' = <<>>
    BY <2>1, EmptySeq, ConcatEmptySeq
  <2>3. QED
    BY <1>5, <2>2 DEF Restart, tables, Ledger!Lose, Ledger!Next
<1>6. CASE \/ Shutdown \/ Tick \/ NoticeDone \/ DrainDone
           \/ \E t \in Tokens : UpdateTotal(t)
           \/ FlushDone \/ UNCHANGED vars
  BY <1>6, OthersStutter
<1>7. QED
  BY <1>1, <1>2, <1>3, <1>4, <1>5, <1>6 DEF Next, Writer, Ledger!Next

LEMMA BatchesAreNotEmpty == Spec => []FlushHasBatch
<1>1. Init => FlushHasBatch
  BY DEF Init, FlushHasBatch
<1>2. QED
  BY <1>1, FlushHasBatchNext, TypeCorrect, PTL DEF Spec

\* For any sizes and faults, what the pipeline does is what the ledger allows: reports
\* are recorded in the order they were accepted, none twice, none for a token that is
\* gone, and none is thrown away before the last retry (usage_writer.go:39-158).
THEOREM PipelineImplementsLedger == Spec => ImplementsLedger
<1>1. Init => Ledger!Init
  <2>1. Init => Pending = (<<>> \o <<>>) \o <<>>
    BY DEF Init, Pending
  <2>2. (<<>> \o <<>>) \o <<>> = <<>>
    BY EmptySeq, ConcatEmptySeq
  <2>3. QED
    BY <2>1, <2>2 DEF Init, Ledger!Init
<1>2. QED
  BY <1>1, StepSimulates, BatchesAreNotEmpty, TypeCorrect, PTL DEF Spec, ImplementsLedger, Ledger!Spec

----------------------------------------------------------------------------
(* The order of the rows. *)

Increasing(queue) == \A i, j \in 1..Len(queue) : i < j => queue[i].n < queue[j].n

\* RecordedInOrder is not inductive: what still waits must be in order too, and must
\* have reported after everything that is recorded.
Queued ==
  /\ Increasing(Pending)
  /\ \A i \in 1..Len(Pending) : Pending[i].n <= sent
  /\ \A row \in usageLogs : /\ row.id <= lastId
                            /\ row.entry.n <= sent
                            /\ \A i \in 1..Len(Pending) : row.entry.n < Pending[i].n
  /\ RecordedInOrder

\* Of the queue, a step takes a prefix off the front, which is recorded or lost, or it
\* appends the newest report.
LEMMA QueueMoves ==
  ASSUME TypeOK, FlushHasBatch, [Next]_vars
  PROVE  \/ /\ sent' = sent + 1
            /\ UNCHANGED <<usageLogs, lastId>>
            /\ \/ \E e \in Entry : e.n = sent + 1 /\ Pending' = Append(Pending, e)
               \/ Pending' = Pending
         \/ /\ sent' = sent
            /\ \E b, c \in Seq(Entry) :
                 /\ Pending = b \o c
                 /\ Pending' = c
                 /\ \/ usageLogs' \subseteq usageLogs /\ lastId' = lastId
                    \/ /\ usageLogs' = usageLogs \cup Rows(b, lastId)
                       /\ lastId' = lastId + Len(b)
<1>1. CASE SendUsage
  BY <1>1, SendAppends
<1>2. <<>> \in Seq(Entry) /\ Pending \in Seq(Entry) /\ usageCh \in Seq(Entry)
  BY PendingType, EmptySeq DEF TypeOK
<1>3. Pending = <<>> \o Pending /\ Pending = Pending \o <<>>
  BY <1>2, ConcatEmptySeq
<1>4. ASSUME Pending' = Pending, sent' = sent, usageLogs' \subseteq usageLogs, lastId' = lastId
      PROVE  \E b, c \in Seq(Entry) : /\ Pending = b \o c
                                      /\ Pending' = c
                                      /\ usageLogs' \subseteq usageLogs
                                      /\ lastId' = lastId
  BY <1>2, <1>3, <1>4
<1>5. CASE \E t \in Tokens : DeleteToken(t)
  <2>1. Pending' = Pending /\ sent' = sent /\ usageLogs' \subseteq usageLogs /\ lastId' = lastId
    BY <1>5 DEF DeleteToken, memory, Pending
  <2>2. QED
    BY <1>4, <2>1
<1>6. CASE Receive \/ Drain
  <2>1. sent' = sent
    BY <1>6 DEF Receive, Drain
  <2>2. QED
    BY <1>4, <1>6, <2>1, ReceiveStutters DEF Ledger!ledger
<1>7. CASE \/ Shutdown \/ Tick \/ NoticeDone \/ DrainDone
           \/ \E t \in Tokens : UpdateTotal(t)
           \/ FlushDone \/ UNCHANGED vars
  <2>1. sent' = sent
    BY <1>7 DEF Shutdown, Tick, NoticeDone, DrainDone, UpdateTotal, FlushDone, vars
  <2>2. QED
    BY <1>4, <1>7, <2>1, OthersStutter DEF Ledger!ledger
<1>8. CASE KeepForRetry
  <2>1. sent' = sent
    BY <1>8 DEF KeepForRetry
  <2>2. QED
    BY <1>4, <1>8, <2>1, RetryFailsAttempt DEF Ledger!FailAttempt
<1>9. CASE InsertSucceeds \/ DiscardBatch
  <2>1. sent' = sent /\ pc = "flush" /\ pc' # "flush" /\ retryBuf' = <<>> /\ UNCHANGED usageCh
        /\ (IF pc' = "totals" THEN <<>> ELSE buf') = <<>>
    BY <1>9 DEF InsertSucceeds, DiscardBatch, Return
  <2>2. Pending' = usageCh
    <3>1. Pending' = (<<>> \o <<>>) \o usageCh
      BY <2>1 DEF Pending
    <3>2. QED
      BY <1>2, <3>1, ConcatEmptySeq
  <2>3. Pending = Batch \o usageCh /\ Batch \in Seq(Entry)
    BY <2>1, ConcatProperties DEF Pending, Batch, TypeOK
  <2>4. \/ usageLogs' \subseteq usageLogs /\ lastId' = lastId
        \/ usageLogs' = usageLogs \cup Rows(Batch, lastId) /\ lastId' = lastId + Len(Batch)
    BY <1>9 DEF InsertSucceeds, DiscardBatch, tables
  <2>5. QED
    BY <1>2, <2>1, <2>2, <2>3, <2>4
<1>10. CASE Restart
  <2>1. sent' = sent /\ Pending' = (<<>> \o <<>>) \o <<>> /\ UNCHANGED <<usageLogs, lastId>>
    BY <1>10 DEF Restart, tables, Pending
  <2>2. Pending' = <<>>
    BY <1>2, <2>1, ConcatEmptySeq
  <2>3. QED
    BY <1>2, <1>3, <2>1, <2>2
<1>11. QED
  BY <1>1, <1>5, <1>6, <1>7, <1>8, <1>9, <1>10 DEF Next, Writer, Flush

LEMMA QueuedNext == TypeOK /\ FlushHasBatch /\ Queued /\ [Next]_vars => Queued'
<1> SUFFICES ASSUME TypeOK, FlushHasBatch, Queued, [Next]_vars PROVE Queued'
  OBVIOUS
<1>1. /\ Pending \in Seq(Entry) /\ Len(Pending) \in Nat
      /\ \A i \in 1..Len(Pending) : Pending[i].n \in Nat
      /\ \A row \in usageLogs : row.id \in Nat /\ row.entry.n \in Nat
      /\ sent \in Nat /\ lastId \in Nat
  <2>1. Pending \in Seq(Entry)
    BY PendingType
  <2>2. Len(Pending) \in Nat /\ \A i \in 1..Len(Pending) : Pending[i] \in Entry
    BY <2>1, LenProperties, ElementOfSeq
  <2>3. QED
    BY <2>1, <2>2, SizesAssumption DEF TypeOK, Entry
<1>2. CASE /\ sent' = sent + 1
           /\ UNCHANGED <<usageLogs, lastId>>
           /\ \/ \E e \in Entry : e.n = sent + 1 /\ Pending' = Append(Pending, e)
              \/ Pending' = Pending
  <2>1. ASSUME NEW e \in Entry, e.n = sent + 1, Pending' = Append(Pending, e) PROVE Queued'
    <3>1. /\ Len(Pending') = Len(Pending) + 1
          /\ \A i \in 1..Len(Pending) : Pending'[i] = Pending[i]
          /\ Pending'[Len(Pending) + 1] = e
      BY <1>1, <2>1, AppendProperties
    <3> DEFINE q == Pending
               p == Pending'
    <3>2. \A i \in 1..Len(p) : i \in 1..Len(q) \/ i = Len(q) + 1
      BY <1>1, <3>1
    <3>3. \A i \in 1..Len(p) : p[i].n <= sent' /\ \A row \in usageLogs' : row.entry.n < p[i].n
      BY <1>1, <1>2, <2>1, <3>1, <3>2 DEF Queued
    <3>4. Increasing(p)
      <4> SUFFICES ASSUME NEW i \in 1..Len(p), NEW j \in 1..Len(p), i < j PROVE p[i].n < p[j].n
        BY DEF Increasing
      <4>1. /\ i \in 1..Len(q) /\ p[i] = q[i] /\ q[i].n <= sent /\ q[i].n \in Nat
            /\ \A k \in 1..Len(q) : i < k => q[i].n < q[k].n
        BY <1>1, <3>1, <3>2 DEF Queued, Increasing
      <4> HIDE DEF p, q
      <4>2. CASE j \in 1..Len(q)
        BY <3>1, <4>1, <4>2 DEF p, q
      <4>3. CASE j = Len(q) + 1
        BY <1>1, <2>1, <3>1, <4>1, <4>3 DEF p, q
      <4>4. QED
        BY <3>2, <4>2, <4>3
    <3>5. RecordedInOrder' /\ \A row \in usageLogs' : row.id <= lastId' /\ row.entry.n <= sent'
      BY <1>1, <1>2 DEF Queued, RecordedInOrder
    <3>6. QED
      BY <3>3, <3>4, <3>5 DEF Queued, Increasing
  <2>2. CASE Pending' = Pending
    BY <1>1, <1>2, <2>2 DEF Queued, Increasing, RecordedInOrder
  <2>3. QED
    BY <1>2, <2>1, <2>2
<1>3. ASSUME sent' = sent,
             NEW b \in Seq(Entry), NEW c \in Seq(Entry), Pending = b \o c, Pending' = c,
             \/ usageLogs' \subseteq usageLogs /\ lastId' = lastId
             \/ usageLogs' = usageLogs \cup Rows(b, lastId) /\ lastId' = lastId + Len(b)
      PROVE  Queued'
  <2>1. /\ Len(b) \in Nat /\ Len(c) \in Nat
        /\ Len(Pending) = Len(b) + Len(c)
        /\ \A i \in 1..Len(b) : Pending[i] = b[i]
        /\ \A i \in 1..Len(c) : Pending[i + Len(b)] = c[i] /\ i + Len(b) \in 1..Len(Pending)
    BY <1>3, LenProperties, ConcatProperties
  <2>2. Increasing(c) /\ \A i \in 1..Len(c) : c[i].n <= sent'
    <3>1. ASSUME NEW i \in 1..Len(c) PROVE c[i].n <= sent'
      <4>1. c[i] = Pending[i + Len(b)] /\ i + Len(b) \in 1..Len(Pending)
        BY <2>1
      <4>2. QED
        BY <1>3, <4>1 DEF Queued
    <3>2. ASSUME NEW i \in 1..Len(c), NEW j \in 1..Len(c), i < j PROVE c[i].n < c[j].n
      <4>1. /\ c[i] = Pending[i + Len(b)] /\ i + Len(b) \in 1..Len(Pending)
            /\ c[j] = Pending[j + Len(b)] /\ j + Len(b) \in 1..Len(Pending)
        BY <2>1
      <4>2. i + Len(b) < j + Len(b)
        BY <2>1, <3>2
      <4>3. QED
        BY <4>1, <4>2 DEF Queued, Increasing
    <3>3. QED
      BY <3>1, <3>2 DEF Increasing
  <2>3. CASE usageLogs' \subseteq usageLogs /\ lastId' = lastId
    <3>1. \A row \in usageLogs' : /\ row.id <= lastId' /\ row.entry.n <= sent'
                                  /\ \A i \in 1..Len(c) : row.entry.n < c[i].n
      BY <1>1, <1>3, <2>1, <2>3 DEF Queued
    <3>2. RecordedInOrder'
      BY <2>3 DEF Queued, RecordedInOrder
    <3>3. QED
      BY <1>3, <2>2, <3>1, <3>2 DEF Queued, Increasing
  <2>4. CASE usageLogs' = usageLogs \cup Rows(b, lastId) /\ lastId' = lastId + Len(b)
    \* A new row comes from a place in the batch, before what still waits.
    <3>1. ASSUME NEW row \in Rows(b, lastId)
          PROVE  \E i \in 1..Len(b) : row.id = lastId + i /\ row.entry = Pending[i]
      BY <2>1 DEF Rows
    <3>2. ASSUME NEW row \in Rows(b, lastId)
          PROVE  /\ row.id \in Nat /\ lastId < row.id /\ row.id <= lastId'
                 /\ row.entry.n \in Nat /\ row.entry.n <= sent
                 /\ \A i \in 1..Len(c) : row.entry.n < c[i].n
                 /\ \A old \in usageLogs : old.entry.n < row.entry.n
      <4>1. PICK k \in 1..Len(b) : row.id = lastId + k /\ row.entry = Pending[k]
        BY <3>1
      <4>2. k \in 1..Len(Pending)
        BY <2>1
      <4>3. ASSUME NEW i \in 1..Len(c) PROVE Pending[k].n < c[i].n
        <5>1. c[i] = Pending[i + Len(b)] /\ i + Len(b) \in 1..Len(Pending) /\ k < i + Len(b)
          BY <2>1
        <5>2. QED
          BY <4>2, <5>1 DEF Queued, Increasing
      <4>4. Pending[k].n \in Nat /\ Pending[k].n <= sent
        BY <1>1, <4>2 DEF Queued
      <4>5. \A old \in usageLogs : old.entry.n < Pending[k].n
        BY <4>2 DEF Queued
      <4>6. row.id \in Nat /\ lastId < row.id /\ row.id <= lastId'
        BY <1>1, <2>1, <2>4, <4>1
      <4>7. QED
        BY <4>1, <4>3, <4>4, <4>5, <4>6
    <3>3. ASSUME NEW x \in Rows(b, lastId), NEW y \in Rows(b, lastId)
          PROVE  x.id < y.id <=> x.entry.n < y.entry.n
      <4>1. PICK i \in 1..Len(b) : x.id = lastId + i /\ x.entry = Pending[i]
        BY <3>1
      <4>2. PICK j \in 1..Len(b) : y.id = lastId + j /\ y.entry = Pending[j]
        BY <3>1
      <4>3. /\ i \in 1..Len(Pending) /\ j \in 1..Len(Pending)
            /\ i < j => Pending[i].n < Pending[j].n
            /\ j < i => Pending[j].n < Pending[i].n
        BY <2>1 DEF Queued, Increasing
      <4>4. QED
        BY <1>1, <4>1, <4>2, <4>3
    <3>4. RecordedInOrder'
      <4> SUFFICES ASSUME NEW x \in usageLogs', NEW y \in usageLogs'
                   PROVE  x.id < y.id <=> x.entry.n < y.entry.n
        BY DEF RecordedInOrder
      <4>1. CASE x \in usageLogs /\ y \in usageLogs
        BY <4>1 DEF Queued, RecordedInOrder
      <4>2. CASE x \in usageLogs /\ y \in Rows(b, lastId)
        BY <1>1, <3>2, <4>2 DEF Queued
      <4>3. CASE x \in Rows(b, lastId) /\ y \in usageLogs
        BY <1>1, <3>2, <4>3 DEF Queued
      <4>4. CASE x \in Rows(b, lastId) /\ y \in Rows(b, lastId)
        BY <3>3, <4>4
      <4>5. QED
        BY <2>4, <4>1, <4>2, <4>3, <4>4
    <3>5. \A row \in usageLogs : /\ row.id <= lastId'
                                 /\ \A i \in 1..Len(c) : row.entry.n < c[i].n
      <4> SUFFICES ASSUME NEW row \in usageLogs
                   PROVE  /\ row.id <= lastId'
                          /\ \A i \in 1..Len(c) : row.entry.n < c[i].n
        OBVIOUS
      <4>1. row.id <= lastId'
        BY <1>1, <2>1, <2>4 DEF Queued
      <4>2. \A i \in 1..Len(c) : row.entry.n < Pending[i + Len(b)].n
        BY <2>1 DEF Queued
      <4>3. QED
        BY <2>1, <4>1, <4>2
    <3>6. \A row \in usageLogs' : /\ row.id <= lastId' /\ row.entry.n <= sent'
                                  /\ \A i \in 1..Len(c) : row.entry.n < c[i].n
      BY <1>3, <2>4, <3>2, <3>5 DEF Queued
    <3>7. QED
      BY <1>3, <2>2, <3>4, <3>6 DEF Queued, Increasing
  <2>5. QED
    BY <1>3, <2>3, <2>4
<1>4. QED
  BY <1>2, <1>3, QueueMoves

\* However often a batch fails before it is inserted, no report has two rows, and the
\* rows follow the order of the reports (usage_writer.go:90-122).
THEOREM EachRecordedOnce == Spec => []RecordedInOrder
<1>1. Init => Queued
  <2>1. Init => Pending = (<<>> \o <<>>) \o <<>>
    BY DEF Init, Pending
  <2>2. (<<>> \o <<>>) \o <<>> = <<>> /\ Len(<<>>) = 0
    BY EmptySeq, ConcatEmptySeq
  <2>3. QED
    BY <2>1, <2>2 DEF Init, Queued, Increasing, RecordedInOrder
<1>2. Queued => RecordedInOrder
  BY DEF Queued
<1>3. QED
  BY <1>1, <1>2, QueuedNext, BatchesAreNotEmpty, TypeCorrect, PTL DEF Spec

----------------------------------------------------------------------------
(* The end of the process. *)

\* The retry counter tells whether anything waits, and the writer drains only once
\* its context is cancelled.
Attempts ==
  /\ retryBuf = <<>> <=> retryCount = 0
  /\ mode = "drain" \/ pc \in {"drain", "stopped"} => ctx = "done"
  /\ pc = "stopped" => buf = <<>>

LEMMA AttemptsNext == TypeOK /\ FlushHasBatch /\ Attempts /\ [Next]_vars => Attempts'
<1> SUFFICES ASSUME TypeOK, FlushHasBatch, Attempts, [Next]_vars PROVE Attempts'
  OBVIOUS
<1> USE DEF Attempts
<1>1. CASE \/ SendUsage \/ Shutdown \/ (\E t \in Tokens : DeleteToken(t))
           \/ (\E t \in Tokens : UpdateTotal(t)) \/ UNCHANGED vars
  <2>1. /\ UNCHANGED <<retryBuf, retryCount, mode, pc, buf>>
        /\ ctx' = ctx \/ ctx' = "done"
    BY <1>1 DEF SendUsage, Shutdown, DeleteToken, UpdateTotal, vars, memory
  <2>2. QED
    BY <2>1
<1>2. CASE Receive \/ Tick
  BY <1>2 DEF Receive, Tick
<1>3. CASE NoticeDone \/ Drain
  BY <1>3 DEF NoticeDone, Drain
<1>4. CASE DrainDone
  BY <1>4 DEF DrainDone
<1>5. CASE InsertSucceeds
  <2>1. /\ retryBuf' = <<>> /\ retryCount' = 0 /\ pc' = "totals" /\ UNCHANGED <<mode, ctx>>
    BY <1>5 DEF InsertSucceeds
  <2>2. QED
    BY <2>1
<1>6. CASE KeepForRetry
  <2>1. /\ pc = "flush" /\ retryBuf' = Batch /\ retryCount' = retryCount + 1
        /\ buf' = <<>> /\ UNCHANGED <<mode, ctx>>
        /\ pc' \in {"select", "stopped"} /\ (pc' = "stopped" => mode = "drain")
    BY <1>6 DEF KeepForRetry, Return
  <2>2. retryBuf' # <<>> /\ retryCount' # 0
    BY <2>1 DEF FlushHasBatch, TypeOK
  <2>3. QED
    BY <2>1, <2>2
<1>7. CASE DiscardBatch
  <2>1. /\ retryBuf' = <<>> /\ retryCount' = 0 /\ buf' = <<>> /\ UNCHANGED <<mode, ctx>>
        /\ pc' \in {"select", "stopped"} /\ (pc' = "stopped" => mode = "drain")
    BY <1>7 DEF DiscardBatch, Return
  <2>2. QED
    BY <2>1
<1>8. CASE FlushDone
  <2>1. /\ buf' = <<>> /\ UNCHANGED <<retryBuf, retryCount, mode, ctx>>
        /\ pc' \in {"select", "stopped"} /\ (pc' = "stopped" => mode = "drain")
    BY <1>8 DEF FlushDone, Return
  <2>2. QED
    BY <2>1
<1>9. CASE Restart
  BY <1>9 DEF Restart
<1>10. QED
  BY <1>1, <1>2, <1>3, <1>4, <1>5, <1>6, <1>7, <1>8, <1>9 DEF Next, Writer, Flush

LEMMA AlwaysAttempts == Spec => []Attempts
<1>1. Init => Attempts
  BY DEF Init, Attempts
<1>2. QED
  BY <1>1, AttemptsNext, BatchesAreNotEmpty, TypeCorrect, PTL DEF Spec

\* What a stopped writer leaves behind is the batch of its last flush, kept for a retry
\* that never comes: the drain is complete exactly when the retry counter is zero
\* (usage_writer.go:48-52, 111-121).
THEOREM StoppedHoldsLastBatch ==
  Spec => [](pc = "stopped" => /\ ctx = "done" /\ buf = <<>>
                               /\ ShutdownDrains <=> retryCount = 0)
<1>1. TypeOK /\ Attempts => (pc = "stopped" => /\ ctx = "done" /\ buf = <<>>
                                               /\ ShutdownDrains <=> retryCount = 0)
  <2> SUFFICES ASSUME TypeOK, Attempts, pc = "stopped"
               PROVE  retryBuf \o buf = <<>> <=> retryCount = 0
    BY DEF Attempts, ShutdownDrains
  <2>1. buf = <<>> /\ (retryBuf = <<>> <=> retryCount = 0) /\ retryBuf \in Seq(Entry)
    BY DEF Attempts, TypeOK
  <2>2. retryBuf \o <<>> = retryBuf
    BY <2>1, ConcatEmptySeq
  <2>3. QED
    BY <2>1, <2>2
<1>2. QED
  BY <1>1, AlwaysAttempts, TypeCorrect, PTL

\* The flush after the drain inserts nothing, whatever the database does: the context
\* of its transaction is cancelled by then (usage_writer.go:48-52, store/usage.go:46-54).
THEOREM DrainRecordsNothing == Spec => [][mode = "drain" => ~InsertSucceeds]_vars
<1>1. Attempts => (mode = "drain" => ~InsertSucceeds)
  BY DEF Attempts, InsertSucceeds, MayInsert
<1>2. QED
  BY <1>1, AlwaysAttempts, PTL
=============================================================================
