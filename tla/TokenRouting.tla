---------------------------- MODULE TokenRouting ----------------------------
(***************************************************************************)
(* internal/token/manager.go ResolveToken with sticky.go, store/sticky.go  *)
(* and TokenPool.Select: which real token a request of a gate token gets.  *)
(*                                                                         *)
(* A binding of a gate token lives in a cache, whose items are kept alive  *)
(* by use, and in the sticky_sessions table, which survives a restart.     *)
(* Requests look up, select and bind in steps that interleave with each    *)
(* other, with the clock, the cleanup of the table, deletions of tokens    *)
(* and refreshes of the pool.  Times are what is left until expiry, so the *)
(* clock needs no bound.                                                   *)
(***************************************************************************)
EXTENDS Integers, SequencesExt

CONSTANTS Gates,        \* ids of gate tokens
          NumReals,     \* real tokens are 1..NumReals, in the order of created_at
          Requests,     \* goroutines serving proxied requests
          GateOf,       \* the gate token each of them uses
          StickyTTL,    \* Manager.stickyTTL, in clock ticks
          MaxDeletions, \* bound: how many tokens the admin deletes
          CounterRange, \* 2^64: the counter is a uint64
          Faults        \* which faults happen

ASSUME RoutingAssumption == /\ NumReals \in Nat
                            /\ GateOf \in [Requests -> Gates]
                            /\ StickyTTL \in Nat \ {0}
                            /\ MaxDeletions \in Nat
                            /\ CounterRange \in Nat \ {0}

\* "store": a statement fails; "crash": the process dies and is restarted.
ASSUME FaultsAssumption == Faults \subseteq {"store", "crash"}

Reals == 1..NumReals
NoReal == 0

\* What ListActive can return: some of the real tokens, in order.
Pools == {pool \in UNION {[1..n -> Reals] : n \in 0..NumReals} :
            \A i, j \in 1..Len(pool) : i < j => pool[i] < pool[j]}

VARIABLES
  liveGates, liveReals,  \* rows of gate_tokens and real_tokens
  tokens,   \* TokenPool.tokens, in the order of the query
  counter,  \* TokenPool.counter
  cache,    \* StickyManager.cache: real token, time left, time to live
  table,    \* sticky_sessions: real token, time left
  pc,       \* where each request is in ResolveToken
  real,     \* the real token it has found or selected
  left,     \* time left until the expires_at it holds
  slice,    \* the pool it selects from
  bound,    \* history: the binding each gate token has been promised
  picks     \* history: latest selections from an unchanged pool, oldest first

tokenVars == <<liveGates, liveReals, tokens>>
vars == <<tokenVars, counter, cache, table, pc, real, left, slice, bound, picks>>

NoItem == [real |-> NoReal, left |-> 0, ttl |-> 0]
NoRow == [real |-> NoReal, left |-> 0]

Init == /\ liveGates = Gates
        /\ liveReals = Reals
        /\ tokens = [i \in 1..NumReals |-> i]
        /\ counter = 0
        /\ cache = [g \in Gates |-> NoItem]
        /\ table = [g \in Gates |-> NoRow]
        /\ pc = [r \in Requests |-> "idle"]
        /\ real = [r \in Requests |-> NoReal]
        /\ left = [r \in Requests |-> 0]
        /\ slice = [r \in Requests |-> <<>>]
        /\ bound = [g \in Gates |-> NoRow]
        /\ picks = <<>>

----------------------------------------------------------------------------
(* The surroundings. *)

Less(n) == IF n = 0 THEN 0 ELSE n - 1
Expire(row) == IF row.left <= 1 THEN NoRow ELSE [row EXCEPT !.left = @ - 1]

\* An expired item is not found in the cache; an expired row stays until the cleanup.
Tick == /\ cache' = [g \in Gates |-> IF cache[g].left <= 1 THEN NoItem
                                     ELSE [cache[g] EXCEPT !.left = @ - 1]]
        /\ table' = [g \in Gates |-> [table[g] EXCEPT !.left = Less(@)]]
        /\ left' = [r \in Requests |-> Less(left[r])]
        /\ bound' = [g \in Gates |-> Expire(bound[g])]
        /\ UNCHANGED <<tokenVars, counter, pc, real, slice, picks>>

\* dbCleanupLoop
DeleteExpired == /\ table' = [g \in Gates |-> IF table[g].left = 0 THEN NoRow ELSE table[g]]
                 /\ table' # table
                 /\ UNCHANGED <<tokenVars, counter, cache, pc, real, left, slice, bound, picks>>

\* The listing may be older than a deletion.  A binding is promised only as long as
\* its token is in the pool.
RefreshPool == \E pool \in Pools :
                 /\ tokens' = pool
                 /\ tokens' # tokens
                 /\ picks' = <<>>
                 /\ bound' = [g \in Gates |-> IF Contains(pool, bound[g].real) THEN bound[g] ELSE NoRow]
                 /\ UNCHANGED <<liveGates, liveReals, counter, cache, table, pc, real, left, slice>>

MayDelete == Cardinality(Gates \ liveGates) + Cardinality(Reals \ liveReals) < MaxDeletions

\* The cascade takes the bindings with it, the cache and the pool do not know.
DeleteReal(t) ==
  /\ t \in liveReals
  /\ MayDelete
  /\ liveReals' = liveReals \ {t}
  /\ table' = [g \in Gates |-> IF table[g].real = t THEN NoRow ELSE table[g]]
  /\ bound' = [g \in Gates |-> IF bound[g].real = t THEN NoRow ELSE bound[g]]
  /\ UNCHANGED <<liveGates, tokens, counter, cache, pc, real, left, slice, picks>>

DeleteGate(g) == /\ g \in liveGates
                 /\ MayDelete
                 /\ liveGates' = liveGates \ {g}
                 /\ table' = [table EXCEPT ![g] = NoRow]
                 /\ bound' = [bound EXCEPT ![g] = NoRow]
                 /\ UNCHANGED <<liveReals, tokens, counter, cache, pc, real, left, slice, picks>>

Restart == /\ "crash" \in Faults
           /\ \E pool \in Pools :
                /\ Range(pool) \subseteq liveReals
                /\ tokens' = pool
                /\ bound' = [g \in Gates |-> IF Contains(pool, bound[g].real) THEN bound[g] ELSE NoRow]
           /\ counter' = 0
           /\ cache' = [g \in Gates |-> NoItem]
           /\ pc' = [r \in Requests |-> "idle"]
           /\ real' = [r \in Requests |-> NoReal]
           /\ left' = [r \in Requests |-> 0]
           /\ slice' = [r \in Requests |-> <<>>]
           /\ picks' = <<>>
           /\ UNCHANGED <<liveGates, liveReals, table>>

----------------------------------------------------------------------------
(* ResolveToken. *)

At(r, here) == pc[r] = here

Goto(r, there, t, time) == /\ pc' = [pc EXCEPT ![r] = there]
                           /\ real' = [real EXCEPT ![r] = t]
                           /\ left' = [left EXCEPT ![r] = time]

Finish(r) == Goto(r, "idle", NoReal, 0)

\* A hit starts the item's time to live afresh.
Touch(item) == [item EXCEPT !.left = item.ttl]

\* ServeHTTP finds the gate token, then Resolve asks the cache: a deletion between
\* the two may as well come after both.
AskCache(r) ==
  LET g == GateOf[r]
  IN  /\ At(r, "idle")
      /\ g \in liveGates
      /\ \/ /\ cache[g] # NoItem
            /\ cache' = [cache EXCEPT ![g] = Touch(@)]
            /\ Goto(r, "member", cache[g].real, 0)
         \/ /\ cache[g] = NoItem
            /\ Goto(r, "read", NoReal, 0)
            /\ UNCHANGED cache
      /\ UNCHANGED <<tokenVars, counter, table, slice, bound, picks>>

ReadTable(r) ==
  LET row == table[GateOf[r]]
  IN  /\ At(r, "read")
      /\ IF row.left > 0 THEN Goto(r, "populate", row.real, row.left) ELSE Goto(r, "select", NoReal, 0)
      /\ UNCHANGED <<tokenVars, counter, cache, table, slice, bound, picks>>

\* An error counts as no binding.
ReadFails(r) == /\ "store" \in Faults
                /\ At(r, "read")
                /\ Goto(r, "select", NoReal, 0)
                /\ bound' = [bound EXCEPT ![GateOf[r]] = NoRow]
                /\ UNCHANGED <<tokenVars, counter, cache, table, slice, picks>>

\* Mutant: a row that has expired since it was read is cached.
PopulateExpired(r) ==
  /\ At(r, "populate")
  /\ cache' = [cache EXCEPT ![GateOf[r]] = [real |-> real[r], left |-> left[r], ttl |-> left[r]]]
  /\ Goto(r, "member", real[r], 0)
  /\ UNCHANGED <<tokenVars, counter, table, slice, bound, picks>>

Populate(r) ==
  /\ At(r, "populate")
  /\ IF left[r] = 0
     THEN /\ Goto(r, "select", NoReal, 0)
          /\ UNCHANGED cache
     ELSE /\ cache' = [cache EXCEPT ![GateOf[r]] = [real |-> real[r], left |-> left[r], ttl |-> left[r]]]
          /\ Goto(r, "member", real[r], 0)
  /\ UNCHANGED <<tokenVars, counter, table, slice, bound, picks>>

InPool(t) == Contains(tokens, t)

\* pool.GetByID
CheckMember(r) == /\ At(r, "member")
                  /\ IF InPool(real[r]) THEN Finish(r) ELSE Goto(r, "select", NoReal, 0)
                  /\ UNCHANGED <<tokenVars, counter, cache, table, slice, bound, picks>>

\* Select reads the slice under the lock and draws its number after it.
Select(r) == /\ At(r, "select")
             /\ IF tokens = <<>> THEN Finish(r) ELSE Goto(r, "draw", NoReal, 0)
             /\ slice' = [slice EXCEPT ![r] = tokens]
             /\ UNCHANGED <<tokenVars, counter, cache, table, bound, picks>>

\* Mutant: the first index is used twice, before and after the first addition.
IndexFromOne(start, n) == IF start = 0 THEN 1 ELSE ((start - 1) % n) + 1

Index(start, n) == (start % n) + 1

\* Select(nil) has read the slice; it draws a number and returns, and Bind computes
\* the expiry time.  picks keeps one round, of selections from one slice.
Draw(r) ==
  LET n == Len(slice[r])
      t == slice[r][Index(counter, n)]
  IN  /\ At(r, "draw")
      /\ counter' = (counter + 1) % CounterRange
      /\ picks' = IF counter' = 0 \/ slice[r] # tokens THEN <<>>
                  ELSE Append(IF Len(picks) = n THEN Tail(picks) ELSE picks, t)
      /\ Goto(r, "upsert", t, StickyTTL)
      /\ slice' = [slice EXCEPT ![r] = <<>>]
      /\ UNCHANGED <<tokenVars, cache, table, bound>>

\* Mutant: the row is left to a later write.
UpsertNothing(r) == UNCHANGED table

UpsertRow(r) == table' = [table EXCEPT ![GateOf[r]] = [real |-> real[r], left |-> left[r]]]

Upsert(r) == /\ At(r, "upsert")
             /\ GateOf[r] \in liveGates
             /\ real[r] \in liveReals
             /\ UpsertRow(r)
             /\ Goto(r, "cache", real[r], left[r])
             /\ UNCHANGED <<tokenVars, counter, cache, slice, bound, picks>>

\* Mutant: the binding is cached although it could not be stored.
UpsertFailsButCaches(r) ==
  /\ At(r, "upsert")
  /\ "store" \in Faults
  /\ cache' = [cache EXCEPT ![GateOf[r]] = [real |-> real[r], left |-> StickyTTL, ttl |-> StickyTTL]]
  /\ Finish(r)
  /\ UNCHANGED <<tokenVars, counter, table, slice, bound, picks>>

\* A foreign key or another error: ResolveToken ignores it and uses the token.
UpsertFails(r) ==
  /\ At(r, "upsert")
  /\ "store" \in Faults \/ GateOf[r] \notin liveGates \/ real[r] \notin liveReals
  /\ Finish(r)
  /\ UNCHANGED <<tokenVars, counter, cache, table, slice, bound, picks>>

\* The end of Bind: the gate token is promised its real token until the row expires.
CacheBinding(r) ==
  LET g == GateOf[r]
  IN  /\ At(r, "cache")
      /\ cache' = [cache EXCEPT ![g] = [real |-> real[r], left |-> StickyTTL, ttl |-> StickyTTL]]
      /\ bound' = [bound EXCEPT ![g] =
                     IF left[r] > 0 /\ InPool(real[r]) /\ real[r] \in liveReals /\ g \in liveGates
                     THEN [real |-> real[r], left |-> left[r]] ELSE NoRow]
      /\ Finish(r)
      /\ UNCHANGED <<tokenVars, counter, table, slice, picks>>

----------------------------------------------------------------------------
ResolveToken(r) == \/ AskCache(r) \/ ReadTable(r) \/ ReadFails(r) \/ Populate(r)
                   \/ CheckMember(r) \/ Select(r) \/ Draw(r)
                   \/ Upsert(r) \/ UpsertFails(r) \/ CacheBinding(r)

Next == \/ \E r \in Requests : ResolveToken(r)
        \/ Tick
        \/ DeleteExpired
        \/ RefreshPool
        \/ \E t \in Reals : DeleteReal(t)
        \/ \E g \in Gates : DeleteGate(g)
        \/ Restart

Spec == Init /\ [][Next]_vars

----------------------------------------------------------------------------
(* Properties. *)

\* Every variable has its type: in particular nothing is kept longer than one
\* sticky period after its last use (sticky.go:57-88).
TypeOK ==
  /\ liveGates \subseteq Gates
  /\ liveReals \subseteq Reals
  /\ tokens \in Pools
  /\ counter \in 0..(CounterRange - 1)
  /\ cache \in [Gates -> [real : Reals, left : 1..StickyTTL, ttl : 1..StickyTTL] \cup {NoItem}]
  /\ table \in [Gates -> [real : Reals, left : 0..StickyTTL] \cup {NoRow}]
  /\ pc \in [Requests -> {"idle", "read", "populate", "member", "select", "draw",
                            "upsert", "cache"}]
  /\ real \in [Requests -> Reals \cup {NoReal}]
  /\ left \in [Requests -> 0..StickyTTL]
  /\ slice \in [Requests -> Pools]
  /\ bound \in [Gates -> [real : Reals, left : 1..StickyTTL] \cup {NoRow}]

\* ResolveToken returns a token, not an error.
Answered(r) == pc[r] \in {"member", "upsert", "cache"} /\ pc'[r] = "idle" /\ real[r] # NoReal

\* "Same gate token routes to the same real token for 10 minutes" (README.md:14): from
\* the end of Bind until the time it stored, and as long as that token stays in the
\* pool, every request of the gate token gets it, also after a restart.
StickyAffinity ==
  [][~Restart => \A r \in Requests :
       Answered(r) /\ bound[GateOf[r]] # NoRow => real[r] = bound[GateOf[r]].real]_vars

\* An "in-memory cache backed by the database" (sticky.go:14-15): unless a request of
\* the gate token is writing one or the other, cache and table do not name
\* different real tokens.
CacheAgrees ==
  \A g \in Gates :
    \/ cache[g].real = NoReal
    \/ table[g].real \in {NoReal, cache[g].real}
    \/ \E r \in Requests : GateOf[r] = g /\ pc[r] \in {"populate", "cache"}

\* Round robin: in as many selections in a row as the pool has tokens, none is
\* selected twice, whoever makes them; the turn of the counter, once in 2^64
\* selections, starts a new row (pool.go:52-72).
EvenTurns == IsInjective(picks)
=============================================================================
