----------------------------- MODULE ClaimLedger -----------------------------
(***************************************************************************)
(* What the job registry promises its callers, without processes, files,   *)
(* locks or crashes: a job asks for its claim, may be granted it when no   *)
(* conflicting claim is held, and gives it up exactly once.                *)
(***************************************************************************)
EXTENDS WorkspaceClaims

VARIABLE claim


LedgerInit == claim = [j \in Jobs |-> "none"]

Ask(j) ==
  /\ claim[j] = "none"
  /\ claim' = [claim EXCEPT ![j] = "waiting"]

Grant(j) ==
  /\ claim[j] = "waiting"
  /\ \A k \in Jobs : k # j /\ Conflicts(j, k) => claim[k] # "held"
  /\ claim' = [claim EXCEPT ![j] = "held"]

Release(j) ==
  /\ claim[j] \in {"waiting", "held"}
  /\ claim' = [claim EXCEPT ![j] = "released"]

LedgerNext == \E j \in Jobs : Ask(j) \/ Grant(j) \/ Release(j)

LedgerSpec == LedgerInit /\ [][LedgerNext]_claim
=============================================================================
