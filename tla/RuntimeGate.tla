----------------------------- MODULE RuntimeGate -----------------------------
(***************************************************************************)
(* What runtime updates promise everything that runs from the installed    *)
(* runtime: one version is served, or the gate is closed; nobody is inside *)
(* while it is closed; the version changes only behind the closed gate.    *)
(***************************************************************************)
CONSTANT Users

VARIABLES
  serving, \* the version new users get, or "closed"
  using    \* the version each user inside loaded, or "none"

Served == {"old", "new"}

GateInit ==
  /\ serving = "old"
  /\ using = [u \in Users |-> "none"]

Close ==
  /\ \A u \in Users : using[u] = "none"
  /\ serving' = "closed"
  /\ UNCHANGED using

Reopen(v) ==
  /\ serving = "closed"
  /\ serving' = v
  /\ UNCHANGED using

Enter(u) ==
  /\ serving \in Served
  /\ using[u] = "none"
  /\ using' = [using EXCEPT ![u] = serving]
  /\ UNCHANGED serving

Leave(u) ==
  /\ using' = [using EXCEPT ![u] = "none"]
  /\ UNCHANGED serving

GateNext ==
  \/ Close
  \/ \E v \in Served : Reopen(v)
  \/ \E u \in Users : Enter(u) \/ Leave(u)

GateSpec == GateInit /\ [][GateNext]_<<serving, using>>
=============================================================================
