--------------------------- MODULE RealTokenStore ---------------------------
(***************************************************************************)
(* The real_tokens table and the statements internal/store/real_token.go   *)
(* runs against it, as operators from a table to a table.  SQLite executes *)
(* each of them atomically: writes go through one connection.              *)
(*                                                                         *)
(* A table maps every token id to a row.  Ids are random and never reused, *)
(* so an id is "unissued", then "live", then "deleted" for good.           *)
(* failure_count stops at MaxFailures: the program only compares it with   *)
(* that threshold and resets it, so larger counts are indistinguishable.   *)
(***************************************************************************)
EXTENDS Integers

CONSTANTS RealTokens,   \* ids newID() can return
          MaxFailures   \* CLAUDE_GATE_MAX_FAILURES

ASSUME MaxFailuresAssumption == MaxFailures \in Nat

Status == {"unissued", "live", "deleted"}

RealToken == [status : Status, is_active : BOOLEAN, failure_count : 0..MaxFailures]

NoRow(status) == [status |-> status, is_active |-> FALSE, failure_count |-> 0]

EmptyTable == [t \in RealTokens |-> NoRow("unissued")]

HasRow(table, t) == table[t].status = "live"

CreateRealToken(table, t) ==
  [table EXCEPT ![t] = [status |-> "live", is_active |-> TRUE, failure_count |-> 0]]

DeleteRealToken(table, t) == [table EXCEPT ![t] = NoRow("deleted")]

SetRealTokenActive(table, t, active) ==
  [table EXCEPT ![t] =
     [status |-> table[t].status,
      is_active |-> active,
      failure_count |-> IF active THEN 0 ELSE table[t].failure_count]]

\* An UPDATE of a missing row changes nothing and is not an error.
IncrementRealTokenFailure(table, t) ==
  IF HasRow(table, t) /\ table[t].failure_count < MaxFailures
  THEN [table EXCEPT ![t].failure_count = @ + 1]
  ELSE table

ListActiveRealTokens(table) ==
  {t \in RealTokens : /\ HasRow(table, t)
                      /\ table[t].is_active
                      /\ table[t].failure_count < MaxFailures}
=============================================================================
