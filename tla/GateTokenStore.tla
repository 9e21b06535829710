--------------------------- MODULE GateTokenStore ---------------------------
(***************************************************************************)
(* The gate_tokens table and the statements of internal/store/gate_token.go*)
(* on it, each of which SQLite executes atomically.  A row's id is random  *)
(* and never issued twice; its token, the string clients present, may be   *)
(* chosen by the administrator, so a string can come back under a new id.  *)
(***************************************************************************)
EXTENDS Integers

CONSTANTS GateTokens,  \* ids newID() can return
          Bearers,     \* strings clients present
          NoToken      \* no id, or no string

ASSUME NoTokenAssumption == NoToken \notin GateTokens \cup Bearers

VARIABLE gateTokens    \* the gate_tokens table

GateToken == [status : {"unissued", "active", "inactive", "deleted"},
              token : Bearers \cup {NoToken}]

EmptyGateTable == [g \in GateTokens |-> [status |-> "unissued", token |-> NoToken]]

HasGateRow(g) == gateTokens[g].status \in {"active", "inactive"}

\* The UNIQUE constraint on the column token.
Taken(token) == \E g \in GateTokens : HasGateRow(g) /\ gateTokens[g].token = token

CreateGateToken(g, token) ==
  /\ gateTokens[g].status = "unissued"
  /\ ~Taken(token)
  /\ gateTokens' = [gateTokens EXCEPT ![g] = [status |-> "active", token |-> token]]

SetGateTokenActive(g, active) ==
  /\ HasGateRow(g)
  /\ gateTokens' = [gateTokens EXCEPT ![g].status = IF active THEN "active" ELSE "inactive"]

DeleteGateToken(g) ==
  /\ HasGateRow(g)
  /\ gateTokens' = [gateTokens EXCEPT ![g] = [status |-> "deleted", token |-> NoToken]]

\* GetGateTokenByToken, by its callers' use: the rows with this string that are active.
ActiveWith(table, bearer) == {g \in GateTokens : /\ table[g].status = "active"
                                                 /\ table[g].token = bearer}
=============================================================================
