------------------------- MODULE TokenRoutingProofs -------------------------
(***************************************************************************)
(* Theorems about TokenRouting for any tokens, requests, times and faults. *)
(***************************************************************************)
EXTENDS TokenRouting, SequenceTheorems, TLAPS

\* A pool lists every one of its tokens once.
LEMMA PoolProperties ==
  ASSUME NEW pool \in Pools
  PROVE  /\ pool \in Seq(Reals)
         /\ Len(pool) \in Nat
         /\ pool # <<>> => Len(pool) > 0
         /\ \A i \in 1..Len(pool) : pool[i] \in Reals
         /\ \A i, j \in 1..Len(pool) : pool[i] = pool[j] => i = j
<1>1. pool \in Seq(Reals)
  BY SeqDef DEF Pools
<1>2. Len(pool) \in Nat /\ \A i \in 1..Len(pool) : pool[i] \in Reals
  BY <1>1, LenProperties, ElementOfSeq
<1>3. pool # <<>> => Len(pool) > 0
  BY <1>1, EmptySeq
<1>4. ASSUME NEW i \in 1..Len(pool), NEW j \in 1..Len(pool), i # j PROVE pool[i] # pool[j]
  <2>1. \A a, b \in 1..Len(pool) : a < b => pool[a] < pool[b]
    BY DEF Pools
  <2>2. i < j \/ j < i
    BY <1>2, <1>4
  <2>3. QED
    BY <1>2, <2>1, <2>2 DEF Reals
<1>5. QED
  BY <1>1, <1>2, <1>3, <1>4

LEMMA EmptyPool == <<>> \in Pools
<1>1. <<>> \in Seq(Reals) /\ Len(<<>>) = 0
  BY EmptySeq
<1>2. <<>> \in [1..0 -> Reals]
  BY <1>1, LenProperties
<1>3. QED
  BY <1>1, <1>2, RoutingAssumption DEF Pools

LEMMA NoRealIsNone == NoReal \notin Reals
BY DEF NoReal, Reals

LEMMA IndexInPool ==
  ASSUME NEW start \in Nat, NEW n \in Nat \ {0}
  PROVE  Index(start, n) \in 1..n
<1>1. start % n \in 0..(n - 1)
  OBVIOUS
<1>2. QED
  BY <1>1 DEF Index

----------------------------------------------------------------------------
(* Types. *)

\* TypeOK is not inductive: it does not say that a request has a token when it is
\* about to use one, nor that it selects from a pool that is not empty.
StateTyped ==
  /\ liveGates \subseteq Gates
  /\ liveReals \subseteq Reals
  /\ tokens \in Pools
  /\ counter \in 0..(CounterRange - 1)
  /\ cache \in [Gates -> [real : Reals, left : 1..StickyTTL, ttl : 1..StickyTTL] \cup {NoItem}]
  /\ table \in [Gates -> [real : Reals, left : 0..StickyTTL] \cup {NoRow}]
  /\ bound \in [Gates -> [real : Reals, left : 1..StickyTTL] \cup {NoRow}]
  /\ slice \in [Requests -> Pools]

RequestsTyped ==
  /\ pc \in [Requests -> {"idle", "read", "populate", "member", "select", "draw",
                            "upsert", "cache"}]
  /\ real \in [Requests -> Reals \cup {NoReal}]
  /\ left \in [Requests -> 0..StickyTTL]
  /\ \A r \in Requests : pc[r] \in {"populate", "member", "upsert", "cache"} => real[r] # NoReal
  /\ \A r \in Requests : pc[r] = "draw" => slice[r] # <<>>

Typed == StateTyped /\ RequestsTyped

\* Where a request goes, with what token and what time.
LEMMA GotoTyped ==
  ASSUME RequestsTyped, NEW r \in Requests,
         NEW there \in {"idle", "read", "populate", "member", "select", "draw", "upsert", "cache"},
         NEW t \in Reals \cup {NoReal}, NEW time \in 0..StickyTTL,
         Goto(r, there, t, time),
         there \in {"populate", "member", "upsert", "cache"} => t # NoReal,
         there = "draw" => slice'[r] # <<>>,
         \A q \in Requests \ {r} : slice'[q] = slice[q]
  PROVE  RequestsTyped'
<1>1. /\ pc' = [pc EXCEPT ![r] = there]
      /\ real' = [real EXCEPT ![r] = t]
      /\ left' = [left EXCEPT ![r] = time]
  BY DEF Goto
<1>2. QED
  BY <1>1 DEF RequestsTyped

\* What is cached and stored, and promised.
LEMMA RowsType ==
  ASSUME Typed, NEW g \in Gates
  PROVE  /\ cache[g] # NoItem => /\ cache[g].real \in Reals
                                 /\ cache[g].left \in 1..StickyTTL
                                 /\ cache[g].ttl \in 1..StickyTTL
                                 /\ cache[g] = [real |-> cache[g].real, left |-> cache[g].left,
                                                ttl |-> cache[g].ttl]
         /\ table[g].real \in Reals \cup {NoReal} /\ table[g].left \in 0..StickyTTL
         /\ table[g].left > 0 => table[g].real \in Reals
         /\ bound[g] # NoRow => bound[g].real \in Reals /\ bound[g].left \in 1..StickyTTL
         /\ table[g] = [real |-> table[g].real, left |-> table[g].left]
         /\ bound[g] = [real |-> bound[g].real, left |-> bound[g].left]
BY RoutingAssumption DEF Typed, StateTyped, RequestsTyped, NoRow, NoItem, NoReal

LEMMA TickTyped == Typed /\ Tick => Typed'
<1> SUFFICES ASSUME Typed, Tick PROVE Typed'
  OBVIOUS
<1> USE RoutingAssumption
<1>1. cache' \in [Gates -> [real : Reals, left : 1..StickyTTL, ttl : 1..StickyTTL] \cup {NoItem}]
  <2>1. ASSUME NEW g \in Gates, ~(cache[g].left <= 1)
        PROVE  [cache[g] EXCEPT !.left = @ - 1]
                 \in [real : Reals, left : 1..StickyTTL, ttl : 1..StickyTTL]
    <3>1. cache[g] # NoItem
      BY <2>1 DEF NoItem
    <3>2. /\ cache[g].real \in Reals /\ cache[g].left \in 1..StickyTTL /\ cache[g].ttl \in 1..StickyTTL
          /\ cache[g] = [real |-> cache[g].real, left |-> cache[g].left, ttl |-> cache[g].ttl]
      BY <3>1, RowsType
    <3>3. [cache[g] EXCEPT !.left = @ - 1]
            = [real |-> cache[g].real, left |-> cache[g].left - 1, ttl |-> cache[g].ttl]
      BY <3>2
    <3>4. cache[g].left - 1 \in 1..StickyTTL
      BY <2>1, <3>2
    <3>5. QED
      BY <3>2, <3>3, <3>4
  <2>2. QED
    BY <2>1 DEF Tick
<1>2. table' \in [Gates -> [real : Reals, left : 0..StickyTTL] \cup {NoRow}]
  <2>1. ASSUME NEW g \in Gates
        PROVE  [table[g] EXCEPT !.left = Less(@)] \in [real : Reals, left : 0..StickyTTL] \cup {NoRow}
    <3>1. table[g].left \in 0..StickyTTL /\ table[g] = [real |-> table[g].real, left |-> table[g].left]
      BY RowsType
    <3>2. /\ [table[g] EXCEPT !.left = Less(@)] = [real |-> table[g].real, left |-> Less(table[g].left)]
          /\ Less(table[g].left) \in 0..StickyTTL
      BY <3>1 DEF Less
    <3>3. CASE table[g] = NoRow
      BY <3>2, <3>3 DEF NoRow, Less
    <3>4. CASE table[g] # NoRow
      BY <3>2, <3>4 DEF Typed, StateTyped
    <3>5. QED
      BY <3>3, <3>4
  <2>2. QED
    BY <2>1 DEF Tick
<1>3. bound' \in [Gates -> [real : Reals, left : 1..StickyTTL] \cup {NoRow}]
  <2>1. ASSUME NEW g \in Gates
        PROVE  Expire(bound[g]) \in [real : Reals, left : 1..StickyTTL] \cup {NoRow}
    <3>1. CASE bound[g].left <= 1
      BY <3>1 DEF Expire
    <3>2. CASE ~(bound[g].left <= 1)
      <4>1. bound[g] # NoRow
        BY <3>2 DEF NoRow
      <4>2. /\ bound[g].real \in Reals /\ bound[g].left \in 1..StickyTTL
            /\ bound[g] = [real |-> bound[g].real, left |-> bound[g].left]
        BY <4>1, RowsType
      <4>3. bound[g].left - 1 \in 1..StickyTTL
        BY <3>2, <4>2
      <4>4. Expire(bound[g]) = [real |-> bound[g].real, left |-> bound[g].left - 1]
        BY <3>2, <4>2 DEF Expire
      <4>5. QED
        BY <4>2, <4>3, <4>4
    <3>3. QED
      BY <3>1, <3>2
  <2>2. QED
    BY <2>1 DEF Tick
<1>4. left' \in [Requests -> 0..StickyTTL]
  BY DEF Tick, Less, Typed, StateTyped, RequestsTyped
<1>5. QED
  BY <1>1, <1>2, <1>3, <1>4 DEF Tick, tokenVars, Typed, StateTyped, RequestsTyped

LEMMA SurroundingsTyped ==
  ASSUME Typed,
         \/ DeleteExpired \/ RefreshPool \/ Restart
         \/ \E t \in Reals : DeleteReal(t)
         \/ \E g \in Gates : DeleteGate(g)
  PROVE  Typed'
<1> USE DEF Typed, StateTyped, RequestsTyped
<1>1. CASE DeleteExpired
  BY <1>1 DEF DeleteExpired, tokenVars
<1>2. CASE RefreshPool
  BY <1>2 DEF RefreshPool
<1>3. CASE Restart
  <2>1. <<>> \in Pools
    BY EmptyPool
  <2>2. tokens' \in Pools /\ bound' \in [Gates -> [real : Reals, left : 1..StickyTTL] \cup {NoRow}]
    BY <1>3 DEF Restart
  <2>3. QED
    BY <1>3, <2>1, <2>2, RoutingAssumption DEF Restart
<1>4. CASE \E t \in Reals : DeleteReal(t)
  BY <1>4 DEF DeleteReal
<1>5. CASE \E g \in Gates : DeleteGate(g)
  BY <1>5 DEF DeleteGate
<1>6. QED
  BY <1>1, <1>2, <1>3, <1>4, <1>5

LEMMA ResolveTyped ==
  ASSUME Typed, NEW r \in Requests, ResolveToken(r)
  PROVE  Typed'
<1> USE RoutingAssumption
<1> DEFINE g == GateOf[r]
<1>1. /\ g \in Gates
      /\ pc[r] \in {"populate", "member", "upsert", "cache"} => real[r] \in Reals
      /\ real[r] \in Reals \cup {NoReal}
      /\ left[r] \in 0..StickyTTL
  BY DEF Typed, StateTyped, RequestsTyped
\* Steps that leave the bindings and the pool alone.
<1>2. ASSUME UNCHANGED <<tokenVars, counter, cache, table, slice, bound>>,
             NEW there \in {"idle", "read", "populate", "member", "select"},
             NEW t \in Reals \cup {NoReal}, NEW time \in 0..StickyTTL,
             Goto(r, there, t, time),
             there \in {"populate", "member"} => t # NoReal
      PROVE  Typed'
  <2>1. RequestsTyped'
    BY <1>2, GotoTyped DEF Typed
  <2>2. QED
    BY <1>2, <2>1 DEF Typed, StateTyped, tokenVars
<1>3. CASE AskCache(r)
  <2>1. CASE cache[g] # NoItem /\ cache' = [cache EXCEPT ![g] = Touch(@)] /\ Goto(r, "member", cache[g].real, 0)
    <3>1. Touch(cache[g]) \in [real : Reals, left : 1..StickyTTL, ttl : 1..StickyTTL]
      <4>1. cache[g] \in [real : Reals, left : 1..StickyTTL, ttl : 1..StickyTTL]
        BY <1>1, <2>1 DEF Typed, StateTyped
      <4> DEFINE item == cache[g]
      <4> HIDE DEF item
      <4>2. Touch(item) \in [real : Reals, left : 1..StickyTTL, ttl : 1..StickyTTL]
        BY <4>1 DEF Touch, item
      <4>3. QED
        BY <4>2 DEF item
    <3>2. cache' \in [Gates -> [real : Reals, left : 1..StickyTTL, ttl : 1..StickyTTL] \cup {NoItem}]
      BY <2>1, <3>1 DEF Typed, StateTyped, RequestsTyped
    <3>3. cache[g].real \in Reals /\ cache[g].real # NoReal
      BY <1>1, <2>1, RowsType, NoRealIsNone
    <3>4. RequestsTyped'
      BY <1>3, <2>1, <3>2, <3>3, GotoTyped DEF AskCache, Typed
    <3>5. QED
      BY <1>3, <2>1, <3>2, <3>3, <3>4 DEF AskCache, tokenVars, Typed, StateTyped
  <2>2. CASE Goto(r, "read", NoReal, 0) /\ UNCHANGED cache
    BY <1>2, <1>3, <2>2 DEF AskCache
  <2>3. QED
    BY <1>3, <2>1, <2>2 DEF AskCache
<1>4. CASE ReadTable(r)
  <2>1. CASE table[g].left > 0
    <3>1. table[g].real \in Reals /\ table[g].left \in 0..StickyTTL /\ table[g].real # NoReal
      BY <1>1, <2>1, RowsType, NoRealIsNone
    <3>2. Goto(r, "populate", table[g].real, table[g].left)
      BY <1>4, <2>1 DEF ReadTable
    <3>3. QED
      BY <1>2, <1>4, <3>1, <3>2 DEF ReadTable
  <2>2. CASE ~(table[g].left > 0)
    BY <1>2, <1>4, <2>2 DEF ReadTable
  <2>3. QED
    BY <2>1, <2>2
<1>5. CASE ReadFails(r)
  <2>1. bound' \in [Gates -> [real : Reals, left : 1..StickyTTL] \cup {NoRow}]
    BY <1>5 DEF ReadFails, Typed, StateTyped
  <2>2. RequestsTyped'
    <3>1. /\ Goto(r, "select", NoReal, 0) /\ slice' = slice
          /\ RequestsTyped /\ 0 \in 0..StickyTTL
      BY <1>5, RoutingAssumption DEF ReadFails, Typed
    <3>2. QED
      BY <3>1, GotoTyped
  <2>3. QED
    BY <1>5, <2>1, <2>2 DEF ReadFails, tokenVars, Typed, StateTyped
<1>6. CASE Populate(r)
  <2>1. CASE left[r] = 0
    BY <1>2, <1>6, <2>1 DEF Populate
  <2>2. CASE left[r] # 0
    <3>1. real[r] \in Reals /\ real[r] # NoReal /\ left[r] \in 1..StickyTTL
      BY <1>1, <1>6, <2>2, NoRealIsNone DEF Populate, At
    <3>2. cache' \in [Gates -> [real : Reals, left : 1..StickyTTL, ttl : 1..StickyTTL] \cup {NoItem}]
      <4>1. cache' = [cache EXCEPT ![g] = [real |-> real[r], left |-> left[r], ttl |-> left[r]]]
        BY <1>6, <2>2 DEF Populate
      <4>2. QED
        BY <3>1, <4>1 DEF Typed, StateTyped
    <3>3. Goto(r, "member", real[r], 0)
      BY <1>6, <2>2 DEF Populate
    <3>4. RequestsTyped'
      BY <1>6, <3>1, <3>2, <3>3, GotoTyped DEF Populate, Typed
    <3>5. QED
      BY <1>6, <3>1, <3>2, <3>3, <3>4 DEF Populate, tokenVars, Typed, StateTyped
  <2>3. QED
    BY <2>1, <2>2
<1>7. CASE CheckMember(r)
  BY <1>2, <1>7 DEF CheckMember, Finish
<1>8. CASE Select(r)
  <2>1. slice' \in [Requests -> Pools] /\ slice'[r] = tokens /\ \A q \in Requests \ {r} : slice'[q] = slice[q]
    BY <1>8 DEF Select, Typed, StateTyped, RequestsTyped
  <2>2. CASE tokens = <<>>
    <3>1. RequestsTyped'
      <4>1. Goto(r, "idle", NoReal, 0) /\ 0 \in 0..StickyTTL
        BY <1>8, <2>2 DEF Select, Finish
      <4>2. QED
        BY <2>1, <4>1, GotoTyped DEF Typed
    <3>2. QED
      BY <1>8, <2>1, <3>1 DEF Select, tokenVars, Typed, StateTyped
  <2>3. CASE tokens # <<>>
    <3>1. RequestsTyped'
      BY <1>8, <2>1, <2>3, GotoTyped DEF Select, Typed
    <3>2. QED
      BY <1>8, <2>1, <3>1 DEF Select, tokenVars, Typed, StateTyped
  <2>4. QED
    BY <2>2, <2>3
<1>9. CASE Draw(r)
  <2> DEFINE t == slice[r][Index(counter, Len(slice[r]))]
  <2>1. t \in Reals /\ t # NoReal
    <3>1. slice[r] \in Pools /\ slice[r] # <<>> /\ counter \in Nat
      BY <1>9 DEF Draw, At, Typed, StateTyped, RequestsTyped
    <3>2. Len(slice[r]) \in Nat \ {0}
      BY <3>1, PoolProperties
    <3> DEFINE pool == slice[r]
               i == Index(counter, Len(pool))
    <3>3. i \in 1..Len(pool)
      BY <3>1, <3>2, IndexInPool
    <3> HIDE DEF i
    <3>4. pool[i] \in Reals
      BY <3>1, <3>3, PoolProperties
    <3>5. QED
      BY <3>4, NoRealIsNone DEF i
  <2>2. slice' \in [Requests -> Pools] /\ \A q \in Requests \ {r} : slice'[q] = slice[q]
    BY <1>9, EmptyPool DEF Draw, Typed, StateTyped, RequestsTyped
  <2>3. counter' \in 0..(CounterRange - 1)
    BY <1>9 DEF Draw, Typed, StateTyped, RequestsTyped
  <2>4. Goto(r, "upsert", t, StickyTTL) /\ UNCHANGED <<tokenVars, cache, table, bound>>
    BY <1>9 DEF Draw
  <2> HIDE DEF t
  <2>5. RequestsTyped'
    BY <2>1, <2>2, <2>3, <2>4, GotoTyped DEF Typed
  <2>6. QED
    BY <2>1, <2>2, <2>3, <2>4, <2>5 DEF tokenVars, Typed, StateTyped
<1>10. CASE Upsert(r)
  <2>1. real[r] \in Reals /\ real[r] # NoReal
    BY <1>1, <1>10, NoRealIsNone DEF Upsert, At
  <2>2. table' \in [Gates -> [real : Reals, left : 0..StickyTTL] \cup {NoRow}]
    BY <1>1, <1>10, <2>1 DEF Upsert, UpsertRow, Typed, StateTyped, RequestsTyped
  <2>3. RequestsTyped'
    BY <1>1, <1>10, <2>1, <2>2, GotoTyped DEF Upsert, Typed
  <2>4. QED
    BY <1>1, <1>10, <2>1, <2>2, <2>3 DEF Upsert, tokenVars, Typed, StateTyped
<1>11. CASE UpsertFails(r)
  BY <1>2, <1>11 DEF UpsertFails, Finish
<1>12. CASE CacheBinding(r)
  <2>1. real[r] \in Reals
    BY <1>1, <1>12 DEF CacheBinding, At
  <2>2. cache' \in [Gates -> [real : Reals, left : 1..StickyTTL, ttl : 1..StickyTTL] \cup {NoItem}]
    BY <1>1, <1>12, <2>1 DEF CacheBinding, Typed, StateTyped, RequestsTyped
  <2>3. bound' \in [Gates -> [real : Reals, left : 1..StickyTTL] \cup {NoRow}]
    BY <1>1, <1>12, <2>1 DEF CacheBinding, Typed, StateTyped, RequestsTyped
  <2>4. RequestsTyped'
    <3>1. Goto(r, "idle", NoReal, 0) /\ UNCHANGED slice /\ 0 \in 0..StickyTTL
      BY <1>12 DEF CacheBinding, Finish
    <3>2. QED
      BY <3>1, GotoTyped DEF Typed
  <2>5. QED
    BY <1>12, <2>2, <2>3, <2>4 DEF CacheBinding, Finish, tokenVars, Typed, StateTyped
<1>13. QED
  BY <1>3, <1>4, <1>5, <1>6, <1>7, <1>8, <1>9, <1>10, <1>11, <1>12 DEF ResolveToken

LEMMA TypedNext == Typed /\ [Next]_vars => Typed'
<1>1. Typed /\ UNCHANGED vars => Typed'
  BY DEF vars, tokenVars, Typed, StateTyped, RequestsTyped
<1>2. QED
  BY <1>1, TickTyped, SurroundingsTyped, ResolveTyped DEF Next

LEMMA TypedInit == Init => Typed
<1> SUFFICES ASSUME Init PROVE Typed
  OBVIOUS
<1> USE RoutingAssumption
<1>1. tokens \in Pools
  <2>1. tokens \in [1..NumReals -> Reals] /\ \A i \in 1..NumReals : tokens[i] = i
    BY DEF Init, Reals
  <2>2. Len(tokens) = NumReals
    BY <2>1, LenProperties, SeqDef
  <2>3. QED
    BY <2>1, <2>2 DEF Pools
<1>2. QED
  BY <1>1, EmptyPool DEF Init, Typed, StateTyped, RequestsTyped, Reals, NoReal, NoRow, NoItem

LEMMA AlwaysTyped == Spec => []Typed
BY TypedInit, TypedNext, PTL DEF Spec

\* Every reachable state is well typed, for any number of tokens and requests: a
\* request that uses a token has one, and nothing is kept longer than one sticky
\* period after its last use (sticky.go:57-88, pool.go:52-72).
THEOREM TypeCorrect == Spec => []TypeOK
<1>1. Typed => TypeOK
  BY DEF Typed, StateTyped, RequestsTyped, TypeOK
<1>2. QED
  BY <1>1, AlwaysTyped, PTL

----------------------------------------------------------------------------
(* Round robin. *)

\* Fewer than n steps of the counter lead to another remainder.
LEMMA RemaindersDiffer ==
  ASSUME NEW n \in Nat \ {0}, NEW x \in Nat, NEW y \in Nat, x < y, y < x + n
  PROVE  x % n # y % n
<1> SUFFICES ASSUME x % n = y % n PROVE FALSE
  OBVIOUS
<1> DEFINE qx == x \div n
           qy == y \div n
<1>1. /\ qx \in Int /\ qy \in Int
      /\ x = n * qx + (x % n) /\ y = n * qy + (y % n)
      /\ x % n \in Int /\ y % n \in Int
  OBVIOUS
<1> HIDE DEF qx, qy
<1>2. y - x = n * (qy - qx)
  BY <1>1
<1> DEFINE d == qy - qx
<1>3. d \in Int /\ 0 < n * d /\ n * d < n
  BY <1>1, <1>2
<1> HIDE DEF d
<1>4. CASE d <= 0
  BY <1>3, <1>4
<1>5. CASE d >= 1
  BY <1>3, <1>5
<1>6. QED
  BY <1>3, <1>4, <1>5

\* EvenTurns is not inductive: it does not say that the latest selections are those of
\* the latest values of the counter.
InTurn(row) ==
  /\ row \in Seq(Reals)
  /\ Len(row) <= Len(tokens) /\ Len(row) <= counter
  /\ \A i \in 1..Len(row) :
       row[i] = tokens[Index(counter - Len(row) + i - 1, Len(tokens))]

\* Dropping the oldest selection leaves the others in turn.
LEMMA TailInTurn ==
  ASSUME Typed, InTurn(picks), picks # <<>>
  PROVE  InTurn(Tail(picks)) /\ Len(Tail(picks)) = Len(picks) - 1
<1>1. /\ Tail(picks) \in Seq(Reals) /\ Len(Tail(picks)) = Len(picks) - 1
      /\ \A i \in 1..Len(Tail(picks)) : Tail(picks)[i] = picks[i + 1]
  BY HeadTailProperties DEF InTurn
<1>2. Len(picks) \in Nat \ {0} /\ Len(tokens) \in Nat /\ counter \in Nat
  BY EmptySeq, PoolProperties, RoutingAssumption DEF InTurn, Typed, StateTyped
<1>3. ASSUME NEW i \in 1..Len(Tail(picks))
      PROVE  Tail(picks)[i] = tokens[Index(counter - Len(Tail(picks)) + i - 1, Len(tokens))]
  <2>1. i + 1 \in 1..Len(picks) /\ counter - Len(picks) + (i + 1) - 1 = counter - Len(Tail(picks)) + i - 1
    BY <1>1, <1>2
  <2>2. picks[i + 1] = tokens[Index(counter - Len(picks) + (i + 1) - 1, Len(tokens))]
    BY <2>1 DEF InTurn
  <2>3. QED
    BY <1>1, <2>1, <2>2
<1>4. QED
  BY <1>1, <1>2, <1>3 DEF InTurn

\* The next selection continues the row.
LEMMA DrawInTurn ==
  ASSUME Typed, InTurn(picks), NEW r \in Requests, Draw(r)
  PROVE  InTurn(picks)'
<1> DEFINE n == Len(slice[r])
           t == slice[r][Index(counter, n)]
           row == IF Len(picks) = n THEN Tail(picks) ELSE picks
<1>1. /\ UNCHANGED tokens /\ counter' = (counter + 1) % CounterRange
      /\ picks' = IF counter' = 0 \/ slice[r] # tokens THEN <<>> ELSE Append(row, t)
  BY DEF Draw, tokenVars
<1>2. /\ slice[r] \in Pools /\ tokens \in Pools /\ n \in Nat \ {0} /\ Len(tokens) \in Nat
      /\ counter \in 0..(CounterRange - 1) /\ CounterRange \in Nat \ {0}
  BY PoolProperties, RoutingAssumption DEF Draw, At, Typed, StateTyped, RequestsTyped
<1>3. counter' \in Nat
  BY <1>1, <1>2
<1>4. CASE counter' = 0 \/ slice[r] # tokens
  <2>1. picks' = <<>> /\ <<>> \in Seq(Reals) /\ Len(<<>>) = 0
    BY <1>1, <1>4, EmptySeq
  <2>2. UNCHANGED tokens /\ \A i \in 1..0 : FALSE
    BY <1>1
  <2> DEFINE none == picks'
  <2>3. none \in Seq(Reals) /\ Len(none) = 0
    BY <2>1
  <2> HIDE DEF none
  <2>4. Len(none) <= Len(tokens) /\ Len(none) <= counter'
    BY <1>2, <1>3, <2>3
  <2>5. QED
    BY <2>2, <2>3, <2>4 DEF InTurn, none
<1>5. CASE counter' # 0 /\ slice[r] = tokens
  <2>1. counter' = counter + 1
    <3>1. counter + 1 < CounterRange \/ counter + 1 = CounterRange
      BY <1>2
    <3>2. counter + 1 = CounterRange => (counter + 1) % CounterRange = 0
      BY <1>2
    <3>3. counter + 1 < CounterRange => (counter + 1) % CounterRange = counter + 1
      BY <1>2
    <3>4. QED
      BY <1>1, <1>5, <3>1, <3>2, <3>3
  <2>2. InTurn(row) /\ Len(row) < n /\ Len(row) \in Nat
    <3>1. Len(picks) \in Nat /\ Len(picks) <= n /\ (Len(picks) = n => picks # <<>>)
      BY <1>2, <1>5, LenProperties, EmptySeq DEF InTurn
    <3>2. CASE Len(picks) = n
      BY <1>2, <3>1, <3>2, TailInTurn
    <3>3. CASE Len(picks) # n
      BY <1>2, <3>1, <3>3
    <3>4. QED
      BY <3>2, <3>3
  <2>3. t = tokens[Index(counter, Len(tokens))] /\ t \in Reals
    BY <1>2, <1>5, IndexInPool, PoolProperties
  <2>4. picks' = Append(row, t)
    BY <1>1, <1>5
  <2> HIDE DEF row, t
  <2>5. /\ picks' \in Seq(Reals) /\ Len(picks') = Len(row) + 1
        /\ \A i \in 1..Len(row) : picks'[i] = row[i]
        /\ picks'[Len(row) + 1] = t
    BY <2>2, <2>3, <2>4, AppendProperties DEF InTurn
  <2>6. ASSUME NEW i \in 1..Len(picks')
        PROVE  picks'[i] = tokens[Index(counter' - Len(picks') + i - 1, Len(tokens))]
    <3>1. counter' - Len(picks') + i - 1 = counter - Len(row) + i - 1
      BY <1>2, <2>1, <2>2, <2>5
    <3>2. CASE i \in 1..Len(row)
      BY <2>2, <2>5, <3>1, <3>2 DEF InTurn
    <3>3. CASE i = Len(row) + 1
      <4>1. counter - Len(row) + i - 1 = counter
        BY <1>2, <2>2, <3>3
      <4>2. QED
        BY <2>3, <2>5, <3>1, <3>3, <4>1
    <3>4. QED
      BY <2>2, <2>5, <3>2, <3>3
  <2>7. Len(picks') <= Len(tokens) /\ Len(picks') <= counter'
    BY <1>2, <1>5, <2>1, <2>2, <2>5 DEF InTurn
  <2>8. QED
    BY <1>1, <2>5, <2>6, <2>7 DEF InTurn
<1>6. QED
  BY <1>4, <1>5

LEMMA InTurnNext == Typed /\ InTurn(picks) /\ [Next]_vars => InTurn(picks)'
<1> SUFFICES ASSUME Typed, InTurn(picks), [Next]_vars PROVE InTurn(picks)'
  OBVIOUS
<1>1. ASSUME UNCHANGED <<tokens, counter, picks>> PROVE InTurn(picks)'
  BY <1>1 DEF InTurn
<1>2. ASSUME picks' = <<>>, tokens' \in Pools, counter' \in Nat PROVE InTurn(picks)'
  <2>1. <<>> \in Seq(Reals) /\ Len(<<>>) = 0 /\ Len(tokens') \in Nat
    BY <1>2, EmptySeq, PoolProperties
  <2>2. QED
    BY <1>2, <2>1 DEF InTurn
<1>3. ASSUME NEW r \in Requests, ResolveToken(r) PROVE InTurn(picks)'
  <2>1. CASE Draw(r)
    BY <2>1, DrawInTurn
  <2>2. CASE \/ AskCache(r) \/ ReadTable(r) \/ ReadFails(r) \/ Populate(r) \/ CheckMember(r)
             \/ Select(r) \/ Upsert(r) \/ UpsertFails(r) \/ CacheBinding(r)
    BY <1>1, <2>2 DEF AskCache, ReadTable, ReadFails, Populate, CheckMember, Select, Upsert,
                      UpsertFails, CacheBinding, tokenVars
  <2>3. QED
    BY <1>3, <2>1, <2>2 DEF ResolveToken
<1>4. CASE \/ Tick \/ DeleteExpired \/ UNCHANGED vars
           \/ \E t \in Reals : DeleteReal(t)
           \/ \E g \in Gates : DeleteGate(g)
  BY <1>1, <1>4 DEF Tick, DeleteExpired, vars, tokenVars, DeleteReal, DeleteGate
<1>5. CASE RefreshPool \/ Restart
  <2>1. picks' = <<>> /\ tokens' \in Pools /\ counter' \in Nat
    BY <1>5, RoutingAssumption DEF RefreshPool, Restart, Typed, StateTyped
  <2>2. QED
    BY <1>2, <2>1
<1>6. QED
  BY <1>3, <1>4, <1>5 DEF Next

\* Requests that select at the same time share one counter, and still no token is
\* selected twice in a round, until the counter turns over (pool.go:50-72).
THEOREM TurnsAreEven == Spec => []EvenTurns
<1>1. Init => InTurn(picks)
  <2>1. <<>> \in Seq(Reals) /\ Len(<<>>) = 0
    BY EmptySeq
  <2>2. Init => Len(tokens) \in Nat
    BY TypedInit, PoolProperties DEF Typed, StateTyped
  <2>3. Init => picks = <<>> /\ counter = 0
    BY DEF Init
  <2>4. QED
    BY <2>1, <2>2, <2>3 DEF InTurn
<1>2. Typed /\ InTurn(picks) => EvenTurns
  <2> SUFFICES ASSUME Typed, InTurn(picks), NEW a \in 1..Len(picks), NEW b \in 1..Len(picks), a < b
               PROVE  picks[a] # picks[b]
    <3>1. Typed /\ InTurn(picks) => DOMAIN picks = 1..Len(picks) /\ Len(picks) \in Nat
      BY LenProperties DEF InTurn
    <3>2. QED
      BY <3>1 DEF EvenTurns, IsInjective
  <2> DEFINE n == Len(tokens)
             x == counter - Len(picks) + a - 1
             y == counter - Len(picks) + b - 1
  <2>1. /\ tokens \in Pools /\ n \in Nat \ {0} /\ x \in Nat /\ y \in Nat
        /\ x < y /\ y < x + n
    BY PoolProperties, LenProperties, RoutingAssumption DEF InTurn, Typed, StateTyped
  <2>2. picks[a] = tokens[Index(x, n)] /\ picks[b] = tokens[Index(y, n)]
    BY DEF InTurn
  <2> HIDE DEF n, x, y
  <2>3. Index(x, n) # Index(y, n)
    <3>1. x % n # y % n
      BY <2>1, RemaindersDiffer
    <3>2. x % n \in Int /\ y % n \in Int
      BY <2>1
    <3>3. QED
      BY <3>1, <3>2 DEF Index
  <2>4. Index(x, n) \in 1..n /\ Index(y, n) \in 1..n
    BY <2>1, IndexInPool
  <2>5. QED
    BY <2>1, <2>2, <2>3, <2>4, PoolProperties DEF n
<1>3. QED
  BY <1>1, <1>2, InTurnNext, AlwaysTyped, PTL DEF Spec

----------------------------------------------------------------------------
(* Sticky sessions.  Two requests of one gate token at a time can bind it to two real  *)
(* tokens: the theorems are about a gate token that one client uses, which waits for   *)
(* an answer before it sends the next request.  Of the others they assume nothing.     *)

OnlyClient(r) == \A q \in Requests : GateOf[q] = GateOf[r] => q = r

OneClientPerGate == \A r \in Requests : OnlyClient(r)

\* While a gate token is promised a real token, that token is in the pool and in the
\* table, for at least as long as promised; the cache names no other; and its client
\* has not begun to select another.
PromiseKept(r) ==
  LET promise == bound[GateOf[r]]
      row == table[GateOf[r]]
  IN  promise # NoRow =>
        /\ InPool(promise.real)
        /\ row.real = promise.real /\ row.left >= promise.left
        /\ cache[GateOf[r]].real \in {NoReal, promise.real}
        /\ pc[r] \in {"idle", "read", "populate", "member"}
        /\ pc[r] \in {"populate", "member"} => real[r] = promise.real
        /\ pc[r] = "populate" => left[r] >= promise.left

\* Cache and table name the same real token, unless the client is at the cache next.
CacheFollows(r) ==
  LET item == cache[GateOf[r]]
      row == table[GateOf[r]]
  IN  /\ pc[r] \in {"read", "populate"} => item = NoItem
      /\ pc[r] \in {"populate", "cache"} => row.real \in {NoReal, real[r]}
      /\ pc[r] # "cache" => item = NoItem \/ row.real \in {NoReal, item.real}

\* Before Bind ends, the row is there for as long as Bind believes, unless an
\* administrator deleted it.
RowStored(r) ==
  LET row == table[GateOf[r]]
  IN  pc[r] = "cache" =>
        \/ row.real = real[r] /\ row.left >= left[r]
        \/ GateOf[r] \notin liveGates \/ real[r] \notin liveReals \/ left[r] = 0

Bonded(r) == PromiseKept(r) /\ CacheFollows(r) /\ RowStored(r)

\* Only a client's requests bring a gate token into the cache.
CachedByClient == \A g \in Gates : cache[g] # NoItem => \E r \in Requests : GateOf[r] = g

\* What is the same for r and its gate token before and after a step of another client.
LEMMA Undisturbed ==
  ASSUME NEW r \in Requests, Bonded(r),
         UNCHANGED <<tokenVars, pc[r], real[r], left[r], cache[GateOf[r]], table[GateOf[r]], bound[GateOf[r]]>>
  PROVE  Bonded(r)'
BY DEF Bonded, PromiseKept, CacheFollows, RowStored, tokenVars, InPool

\* A step of another client changes neither the gate token's rows nor r.
LEMMA OthersStep ==
  ASSUME Typed, NEW r \in Requests, OnlyClient(r), Bonded(r),
         NEW q \in Requests, q # r, ResolveToken(q)
  PROVE  Bonded(r)'
<1>1. GateOf[q] # GateOf[r] /\ GateOf[r] \in Gates /\ GateOf[q] \in Gates
  BY RoutingAssumption DEF OnlyClient
<1>2. ASSUME NEW there, NEW t, NEW time, Goto(q, there, t, time)
      PROVE  UNCHANGED <<pc[r], real[r], left[r]>>
  BY <1>2 DEF Goto, Typed, RequestsTyped
<1>3. UNCHANGED <<pc[r], real[r], left[r]>>
  BY <1>2 DEF ResolveToken, AskCache, ReadTable, ReadFails, Populate, CheckMember, Select, Draw,
              Upsert, UpsertFails, CacheBinding, Finish
<1>4. UNCHANGED <<tokenVars, cache[GateOf[r]], table[GateOf[r]], bound[GateOf[r]]>>
  BY <1>1 DEF ResolveToken, AskCache, ReadTable, ReadFails, Populate, CheckMember, Select, Draw,
              Upsert, UpsertRow, UpsertFails, CacheBinding, Typed, StateTyped
<1>5. QED
  BY <1>3, <1>4, Undisturbed

\* Time passes for the promise no later than for the row and for what the client has read.
LEMMA TickBonded ==
  ASSUME Typed, NEW r \in Requests, Bonded(r), Tick
  PROVE  Bonded(r)'
<1> DEFINE g == GateOf[r]
<1>1. g \in Gates /\ left[r] \in Nat /\ left' = [q \in Requests |-> Less(left[q])]
  BY RoutingAssumption DEF Typed, RequestsTyped, Tick
<1>2. /\ UNCHANGED <<tokenVars, pc, real>>
      /\ left'[r] = Less(left[r])
      /\ cache'[g] = IF cache[g].left <= 1 THEN NoItem ELSE [cache[g] EXCEPT !.left = @ - 1]
      /\ table'[g] = [table[g] EXCEPT !.left = Less(@)]
      /\ bound'[g] = Expire(bound[g])
  BY <1>1 DEF Tick
<1>3. table'[g].real = table[g].real /\ table'[g].left = Less(table[g].left) /\ table[g].left \in Nat
  <2>1. table[g] = [real |-> table[g].real, left |-> table[g].left] /\ table[g].left \in Nat
    <3>1. table[g] = [real |-> table[g].real, left |-> table[g].left] /\ table[g].left \in 0..StickyTTL
      BY <1>1, RowsType
    <3>2. QED
      BY <3>1, RoutingAssumption
  <2>2. QED
    BY <1>2, <2>1
<1>4. cache'[g] # NoItem => cache[g] # NoItem /\ cache'[g].real = cache[g].real
  <2>1. cache[g] # NoItem => cache[g] = [real |-> cache[g].real, left |-> cache[g].left, ttl |-> cache[g].ttl]
    BY <1>1, RowsType
  <2>2. cache[g] = NoItem => cache[g].left <= 1
    BY DEF NoItem
  <2>3. QED
    BY <1>2, <2>1, <2>2
<1>5. bound'[g] # NoRow => /\ bound[g] # NoRow
                           /\ bound'[g].real = bound[g].real
                           /\ bound'[g].left = bound[g].left - 1
                           /\ bound[g].left \in Nat
  <2>1. bound[g] = [real |-> bound[g].real, left |-> bound[g].left]
    BY <1>1, RowsType
  <2>2. bound[g] # NoRow => bound[g].left \in Nat
    <3>1. bound[g] # NoRow => bound[g].left \in 1..StickyTTL
      BY <1>1, RowsType
    <3>2. QED
      BY <3>1, RoutingAssumption
  <2>3. QED
    BY <1>2, <2>1, <2>2 DEF Expire, NoRow
<1> HIDE DEF g
<1>6. PromiseKept(r)'
  <2>1. SUFFICES ASSUME bound'[g] # NoRow
                 PROVE  /\ Contains(tokens', bound'[g].real)
                        /\ table'[g].real = bound'[g].real /\ table'[g].left >= bound'[g].left
                        /\ cache'[g].real \in {NoReal, bound'[g].real}
                        /\ pc'[r] \in {"idle", "read", "populate", "member"}
                        /\ pc'[r] \in {"populate", "member"} => real'[r] = bound'[g].real
                        /\ pc'[r] = "populate" => left'[r] >= bound'[g].left
    BY DEF PromiseKept, InPool, g
  <2>2. /\ Contains(tokens, bound[g].real)
        /\ table[g].real = bound[g].real /\ table[g].left >= bound[g].left
        /\ cache[g].real \in {NoReal, bound[g].real}
        /\ pc[r] \in {"idle", "read", "populate", "member"}
        /\ pc[r] \in {"populate", "member"} => real[r] = bound[g].real
        /\ pc[r] = "populate" => left[r] >= bound[g].left
    BY <1>5, <2>1 DEF Bonded, PromiseKept, InPool, g
  <2>3. Contains(tokens', bound'[g].real)
    BY <1>2, <1>5, <2>1, <2>2 DEF tokenVars
  <2>4. cache'[g].real \in {NoReal, bound'[g].real}
    BY <1>4, <1>5, <2>1, <2>2 DEF NoItem
  <2>5. QED
    BY <1>1, <1>2, <1>3, <1>5, <2>1, <2>2, <2>3, <2>4 DEF Less
<1>7. CacheFollows(r)'
  BY <1>2, <1>3, <1>4 DEF Bonded, CacheFollows, g
<1>8. RowStored(r)'
  BY <1>1, <1>2, <1>3 DEF Bonded, RowStored, Less, tokenVars, g
<1>9. QED
  BY <1>6, <1>7, <1>8 DEF Bonded

\* The surroundings take a promise back before they break it.
LEMMA SurroundingsBonded ==
  ASSUME Typed, NEW r \in Requests, Bonded(r),
         \/ DeleteExpired \/ RefreshPool \/ Restart
         \/ \E t \in Reals : DeleteReal(t)
         \/ \E g \in Gates : DeleteGate(g)
  PROVE  Bonded(r)'
<1>1. GateOf[r] \in Gates /\ left[r] \in Nat
  BY RoutingAssumption DEF Typed, RequestsTyped
<1>2. /\ table[GateOf[r]].left \in Nat
      /\ bound[GateOf[r]] # NoRow => bound[GateOf[r]].left \in Nat \ {0}
  <2>1. /\ table[GateOf[r]].left \in 0..StickyTTL
        /\ bound[GateOf[r]] # NoRow => bound[GateOf[r]].left \in 1..StickyTTL
    BY <1>1, RowsType
  <2>2. QED
    BY <2>1, RoutingAssumption
<1>3. NoItem.real = NoReal /\ NoRow.real = NoReal
  BY DEF NoItem, NoRow
<1>4. CASE DeleteExpired
  <2>1. /\ UNCHANGED <<tokenVars, cache, pc, real, left, bound>>
        /\ table'[GateOf[r]] = IF table[GateOf[r]].left = 0 THEN NoRow ELSE table[GateOf[r]]
    BY <1>1, <1>4 DEF DeleteExpired
  <2>2. PromiseKept(r)'
    <3>1. bound[GateOf[r]] # NoRow => table[GateOf[r]].left >= bound[GateOf[r]].left
      BY DEF Bonded, PromiseKept
    <3>2. bound[GateOf[r]] # NoRow => table'[GateOf[r]] = table[GateOf[r]]
      BY <1>2, <2>1, <3>1
    <3>3. QED
      BY <2>1, <3>2 DEF Bonded, PromiseKept, InPool, tokenVars
  <2>3. CacheFollows(r)' /\ RowStored(r)'
    BY <1>1, <1>2, <1>3, <2>1 DEF Bonded, CacheFollows, RowStored, tokenVars
  <2>4. QED
    BY <2>2, <2>3 DEF Bonded
<1>5. CASE RefreshPool \/ Restart
  <2>1. /\ UNCHANGED <<liveGates, liveReals, table>>
        /\ bound'[GateOf[r]] # NoRow => /\ bound'[GateOf[r]] = bound[GateOf[r]]
                                        /\ Contains(tokens', bound[GateOf[r]].real)
        /\ \/ UNCHANGED <<cache, pc, real, left>>
           \/ pc'[r] = "idle" /\ cache'[GateOf[r]] = NoItem
    BY <1>1, <1>5 DEF RefreshPool, Restart
  <2>2. PromiseKept(r)'
    BY <1>3, <2>1 DEF Bonded, PromiseKept, InPool
  <2>3. CacheFollows(r)' /\ RowStored(r)'
    BY <2>1 DEF Bonded, CacheFollows, RowStored
  <2>4. QED
    BY <2>2, <2>3 DEF Bonded
<1>6. ASSUME NEW t \in Reals, DeleteReal(t) PROVE Bonded(r)'
  <2>1. /\ UNCHANGED <<liveGates, tokens, cache, pc, real, left>>
        /\ liveReals' = liveReals \ {t}
        /\ table'[GateOf[r]] = IF table[GateOf[r]].real = t THEN NoRow ELSE table[GateOf[r]]
        /\ bound'[GateOf[r]] = IF bound[GateOf[r]].real = t THEN NoRow ELSE bound[GateOf[r]]
    BY <1>1, <1>6 DEF DeleteReal
  <2>2. PromiseKept(r)'
    BY <2>1 DEF Bonded, PromiseKept, InPool
  <2>3. CacheFollows(r)' /\ RowStored(r)'
    BY <1>3, <2>1 DEF Bonded, CacheFollows, RowStored
  <2>4. QED
    BY <2>2, <2>3 DEF Bonded
<1>7. ASSUME NEW g \in Gates, DeleteGate(g) PROVE Bonded(r)'
  <2>1. /\ UNCHANGED <<liveReals, tokens, cache, pc, real, left>>
        /\ liveGates' = liveGates \ {g}
        /\ table'[GateOf[r]] = IF GateOf[r] = g THEN NoRow ELSE table[GateOf[r]]
        /\ bound'[GateOf[r]] = IF GateOf[r] = g THEN NoRow ELSE bound[GateOf[r]]
    BY <1>1, <1>7 DEF DeleteGate, Typed, StateTyped
  <2>2. PromiseKept(r)'
    BY <2>1 DEF Bonded, PromiseKept, InPool
  <2>3. CacheFollows(r)' /\ RowStored(r)'
    BY <1>3, <2>1 DEF Bonded, CacheFollows, RowStored
  <2>4. QED
    BY <2>2, <2>3 DEF Bonded
<1>8. QED
  BY <1>4, <1>5, <1>6, <1>7

\* The client's own steps: it begins to select, and to bind, only when nothing is
\* promised, and the promise it makes names what it has stored and cached.
LEMMA OwnStep ==
  ASSUME Typed, NEW r \in Requests, Bonded(r), ResolveToken(r)
  PROVE  Bonded(r)'
<1> DEFINE g == GateOf[r]
<1>1. /\ g \in Gates
      /\ pc \in [Requests -> {"idle", "read", "populate", "member", "select", "draw", "upsert", "cache"}]
      /\ real \in [Requests -> Reals \cup {NoReal}]
      /\ left \in [Requests -> 0..StickyTTL]
      /\ DOMAIN cache = Gates /\ DOMAIN table = Gates /\ DOMAIN bound = Gates
      /\ pc[r] \in {"populate", "member", "upsert", "cache"} => real[r] \in Reals
  BY RoutingAssumption DEF Typed, StateTyped, RequestsTyped
<1>2. /\ table[g].left \in Nat
      /\ left[r] \in Nat
      /\ bound[g] # NoRow => bound[g].left \in Nat \ {0}
  <2>1. /\ table[g].left \in 0..StickyTTL
        /\ bound[g] # NoRow => bound[g].left \in 1..StickyTTL
    BY <1>1, RowsType
  <2>2. QED
    BY <1>1, <2>1, RoutingAssumption
<1>3. NoItem.real = NoReal /\ NoRow.real = NoReal
  BY DEF NoItem, NoRow
<1>4. cache[g] # NoItem => cache[g].real \in Reals /\ cache[g].real # NoReal
  BY <1>1, RowsType, NoRealIsNone
<1>5. ASSUME NEW there, NEW t, NEW time, Goto(r, there, t, time)
      PROVE  pc'[r] = there /\ real'[r] = t /\ left'[r] = time
  BY <1>1, <1>5 DEF Goto
<1> HIDE DEF g
<1>6. CASE AskCache(r)
  <2>1. CASE cache[g] # NoItem
    <3>1. /\ UNCHANGED <<tokenVars, table, bound>>
          /\ pc[r] = "idle" /\ pc'[r] = "member" /\ real'[r] = cache[g].real
          /\ cache' = [cache EXCEPT ![g] = Touch(@)]
      BY <1>5, <1>6, <2>1 DEF AskCache, At, g
    <3>2. cache'[g].real = cache[g].real
      <4>1. cache[g] = [real |-> cache[g].real, left |-> cache[g].left, ttl |-> cache[g].ttl]
        BY <1>1, <2>1, RowsType
      <4>2. cache'[g] = Touch(cache[g])
        BY <1>1, <3>1
      <4>3. QED
        BY <4>1, <4>2 DEF Touch
    <3>3. PromiseKept(r)'
      BY <1>4, <2>1, <3>1, <3>2 DEF Bonded, PromiseKept, InPool, tokenVars, g
    <3>4. CacheFollows(r)' /\ RowStored(r)'
      BY <2>1, <3>1, <3>2 DEF Bonded, CacheFollows, RowStored, g
    <3>5. QED
      BY <3>3, <3>4 DEF Bonded
  <2>2. CASE cache[g] = NoItem
    <3>1. /\ UNCHANGED <<tokenVars, cache, table, bound>>
          /\ pc[r] = "idle" /\ pc'[r] = "read"
      BY <1>5, <1>6, <2>2 DEF AskCache, At, g
    <3>2. QED
      BY <2>2, <3>1 DEF Bonded, PromiseKept, CacheFollows, RowStored, InPool, tokenVars, g
  <2>3. QED
    BY <2>1, <2>2
<1>7. CASE ReadTable(r)
  <2>1. UNCHANGED <<tokenVars, cache, table, bound>> /\ pc[r] = "read"
    BY <1>7 DEF ReadTable, At
  <2>2. CASE table[g].left > 0
    <3>1. pc'[r] = "populate" /\ real'[r] = table[g].real /\ left'[r] = table[g].left
      BY <1>5, <1>7, <2>2 DEF ReadTable, g
    <3>2. QED
      BY <2>1, <3>1 DEF Bonded, PromiseKept, CacheFollows, RowStored, InPool, tokenVars, g
  <2>3. CASE ~(table[g].left > 0)
    <3>1. pc'[r] = "select"
      BY <1>5, <1>7, <2>3 DEF ReadTable, g
    <3>2. bound[g] = NoRow
      BY <1>2, <2>3 DEF Bonded, PromiseKept, g
    <3>3. QED
      BY <2>1, <3>1, <3>2 DEF Bonded, PromiseKept, CacheFollows, RowStored, g
  <2>4. QED
    BY <2>2, <2>3
<1>8. CASE ReadFails(r)
  <2>1. UNCHANGED <<cache, table>> /\ pc[r] = "read" /\ bound'[g] = NoRow /\ pc'[r] = "select"
    BY <1>1, <1>5, <1>8 DEF ReadFails, At, g
  <2>2. QED
    BY <2>1 DEF Bonded, PromiseKept, CacheFollows, RowStored, g
<1>9. CASE Populate(r)
  <2>1. UNCHANGED <<tokenVars, table, bound>> /\ pc[r] = "populate"
    BY <1>9 DEF Populate, At
  <2>2. CASE left[r] = 0
    <3>1. pc'[r] = "select" /\ UNCHANGED cache
      BY <1>5, <1>9, <2>2 DEF Populate
    <3>2. bound[g] = NoRow
      BY <1>2, <2>1, <2>2 DEF Bonded, PromiseKept, g
    <3>3. QED
      BY <2>1, <3>1, <3>2 DEF Bonded, PromiseKept, CacheFollows, RowStored, g
  <2>3. CASE left[r] # 0
    <3>1. /\ cache' = [cache EXCEPT ![g] = [real |-> real[r], left |-> left[r], ttl |-> left[r]]]
          /\ pc'[r] = "member" /\ real'[r] = real[r]
      BY <1>5, <1>9, <2>3 DEF Populate, g
    <3>2. cache'[g].real = real[r]
      BY <1>1, <3>1
    <3>3. QED
      BY <2>1, <3>1, <3>2 DEF Bonded, PromiseKept, CacheFollows, RowStored, InPool, tokenVars, g
  <2>4. QED
    BY <2>2, <2>3
<1>10. CASE CheckMember(r)
  <2>1. UNCHANGED <<tokenVars, cache, table, bound>> /\ pc[r] = "member"
    BY <1>10 DEF CheckMember, At
  <2>2. pc'[r] = IF InPool(real[r]) THEN "idle" ELSE "select"
    BY <1>5, <1>10 DEF CheckMember, Finish
  <2>3. ~InPool(real[r]) => bound[g] = NoRow
    BY <2>1 DEF Bonded, PromiseKept, g
  <2>4. QED
    BY <2>1, <2>2, <2>3 DEF Bonded, PromiseKept, CacheFollows, RowStored, InPool, tokenVars, g
<1>11. CASE Select(r) \/ Draw(r) \/ UpsertFails(r)
  <2>1. UNCHANGED <<cache, table, bound>> /\ pc[r] \in {"select", "draw", "upsert"}
    BY <1>11 DEF Select, Draw, UpsertFails, At
  <2>2. bound[g] = NoRow
    BY <2>1 DEF Bonded, PromiseKept, g
  <2>3. pc'[r] \in {"idle", "draw", "upsert"}
    BY <1>5, <1>11 DEF Select, Draw, UpsertFails, Finish
  <2>4. QED
    BY <2>1, <2>2, <2>3 DEF Bonded, PromiseKept, CacheFollows, RowStored, g
<1>12. CASE Upsert(r)
  <2>1. UNCHANGED <<cache, bound>> /\ pc[r] = "upsert"
    BY <1>12 DEF Upsert, At
  <2>2. table'[g].real = real[r] /\ table'[g].left = left[r]
    BY <1>1, <1>12 DEF Upsert, UpsertRow, g
  <2>3. pc'[r] = "cache" /\ real'[r] = real[r] /\ left'[r] = left[r]
    BY <1>5, <1>12 DEF Upsert
  <2>4. bound[g] = NoRow
    BY <2>1 DEF Bonded, PromiseKept, g
  <2>5. QED
    BY <1>2, <2>1, <2>2, <2>3, <2>4 DEF Bonded, PromiseKept, CacheFollows, RowStored, g
<1>13. CASE CacheBinding(r)
  <2>1. UNCHANGED <<tokenVars, table>> /\ pc[r] = "cache" /\ pc'[r] = "idle"
    BY <1>5, <1>13 DEF CacheBinding, At, Finish
  <2>2. cache'[g].real = real[r]
    BY <1>1, <1>13 DEF CacheBinding, g
  <2>3. bound'[g] # NoRow => /\ left[r] # 0 /\ InPool(real[r]) /\ real[r] \in liveReals /\ g \in liveGates
                             /\ bound'[g].real = real[r] /\ bound'[g].left = left[r]
    BY <1>1, <1>13 DEF CacheBinding, g
  <2>4. bound'[g] # NoRow => table[g].real = real[r] /\ table[g].left >= left[r]
    BY <2>1, <2>3 DEF Bonded, RowStored, g
  <2>5. PromiseKept(r)'
    BY <2>1, <2>2, <2>3, <2>4 DEF PromiseKept, InPool, tokenVars, g
  <2>6. CacheFollows(r)' /\ RowStored(r)'
    BY <2>1, <2>2 DEF Bonded, CacheFollows, RowStored, g
  <2>7. QED
    BY <2>5, <2>6 DEF Bonded
<1>14. QED
  BY <1>6, <1>7, <1>8, <1>9, <1>10, <1>11, <1>12, <1>13 DEF ResolveToken

AllBonded == \A r \in Requests : OnlyClient(r) => Bonded(r)

LEMMA AllBondedInit == Init => AllBonded
BY RoutingAssumption DEF Init, AllBonded, Bonded, PromiseKept, CacheFollows, RowStored, NoItem

LEMMA AllBondedNext == Typed /\ AllBonded /\ [Next]_vars => AllBonded'
<1> SUFFICES ASSUME Typed, AllBonded, [Next]_vars, NEW r \in Requests, OnlyClient(r)
             PROVE  Bonded(r)'
  BY DEF AllBonded, OnlyClient
<1>1. Bonded(r)
  BY DEF AllBonded
<1>2. ASSUME NEW q \in Requests, ResolveToken(q) PROVE Bonded(r)'
  BY <1>1, <1>2, OwnStep, OthersStep
<1>3. CASE UNCHANGED vars
  BY <1>1, <1>3, Undisturbed DEF vars, tokenVars
<1>4. QED
  BY <1>1, <1>2, <1>3, TickBonded, SurroundingsBonded DEF Next

LEMMA AlwaysBonded == Spec => []AllBonded
BY AllBondedInit, AllBondedNext, AlwaysTyped, PTL DEF Spec

\* Whatever the clients of other gate tokens do, and whatever fails, is deleted or
\* restarted: the only client of a gate token gets the real token it is bound to, from
\* the end of Bind until the time it stored (manager.go:40-76, sticky.go:57-88).
THEOREM OnlyClientKeepsItsToken ==
  Spec => [][\A r \in Requests :
               OnlyClient(r) /\ Answered(r) /\ bound[GateOf[r]] # NoRow
                 => real[r] = bound[GateOf[r]].real]_vars
<1>1. AllBonded => \A r \in Requests :
                     OnlyClient(r) /\ Answered(r) /\ bound[GateOf[r]] # NoRow
                       => real[r] = bound[GateOf[r]].real
  BY DEF AllBonded, Bonded, PromiseKept, Answered
<1>2. QED
  BY <1>1, AlwaysBonded, PTL

\* Hence StickyAffinity, when no two requests use one gate token at a time; when two
\* do, TLC finds it violated (manager.go:40-76).
THEOREM StickyWithOneClient ==
  ASSUME OneClientPerGate
  PROVE  Spec => StickyAffinity
<1>1. AllBonded => (~Restart => \A r \in Requests :
                      Answered(r) /\ bound[GateOf[r]] # NoRow => real[r] = bound[GateOf[r]].real)
  BY OneClientPerGate DEF OneClientPerGate, AllBonded, Bonded, PromiseKept, Answered
<1>2. QED
  BY <1>1, AlwaysBonded, PTL DEF StickyAffinity

LEMMA CachedByClientNext == Typed /\ CachedByClient /\ [Next]_vars => CachedByClient'
<1> SUFFICES ASSUME Typed, CachedByClient, [Next]_vars, NEW g \in Gates,
                    \A r \in Requests : GateOf[r] # g
             PROVE  cache'[g] = NoItem
  BY DEF CachedByClient
<1>1. cache[g] = NoItem
  BY DEF CachedByClient
<1>2. ASSUME NEW r \in Requests, ResolveToken(r) PROVE cache'[g] = cache[g]
  BY <1>2 DEF ResolveToken, AskCache, ReadTable, ReadFails, Populate, CheckMember, Select, Draw,
              Upsert, UpsertFails, CacheBinding, Typed, StateTyped
<1>3. CASE Tick
  BY <1>1, <1>3 DEF Tick, NoItem
<1>4. CASE \/ DeleteExpired \/ RefreshPool \/ Restart \/ UNCHANGED vars
           \/ \E t \in Reals : DeleteReal(t)
           \/ \E h \in Gates : DeleteGate(h)
  BY <1>1, <1>4 DEF DeleteExpired, RefreshPool, Restart, DeleteReal, DeleteGate, vars
<1>5. QED
  BY <1>1, <1>2, <1>3, <1>4 DEF Next

\* The cache and the table never name two real tokens, unless the client itself is
\* about to write the cache, when no two requests use one gate token at a time
\* (sticky.go:34-88).
THEOREM CacheNeverContradictsTable ==
  ASSUME OneClientPerGate
  PROVE  Spec => []CacheAgrees
<1>1. AllBonded /\ CachedByClient => CacheAgrees
  <2> SUFFICES ASSUME AllBonded, CachedByClient, NEW g \in Gates, cache[g].real # NoReal
               PROVE  \/ table[g].real \in {NoReal, cache[g].real}
                      \/ \E r \in Requests : GateOf[r] = g /\ pc[r] \in {"populate", "cache"}
    BY DEF CacheAgrees
  <2>1. cache[g] # NoItem
    BY DEF NoItem
  <2>2. PICK r \in Requests : GateOf[r] = g
    BY <2>1 DEF CachedByClient
  <2>3. CacheFollows(r)
    BY OneClientPerGate DEF OneClientPerGate, AllBonded, Bonded
  <2>4. QED
    BY <2>1, <2>2, <2>3 DEF CacheFollows
<1>2. Init => CachedByClient
  BY DEF Init, CachedByClient
<1>3. QED
  BY <1>1, <1>2, CachedByClientNext, AlwaysTyped, AlwaysBonded, PTL DEF Spec
=============================================================================
