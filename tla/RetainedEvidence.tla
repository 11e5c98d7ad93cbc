-------------------------- MODULE RetainedEvidence --------------------------
(***************************************************************************)
(* What the pilot driver promises about the evidence of a paid session.    *)
(* It starts out in the workspace of its run, and from the moment the run  *)
(* is bound to keep it the workspace is given up only when the capture     *)
(* record of that very run holds it.  Runs with the same output share one  *)
(* record, which is written once and stays.                                *)
(***************************************************************************)
CONSTANTS
  Run,
  Nobody   \* no run

VARIABLES
  workspaces,  \* runs whose workspace is there
  bound,       \* runs whose session has started, as the driver has noted
  owner        \* the run whose evidence the record holds, or Nobody

vars == <<workspaces, bound, owner>>

Init == workspaces = {} /\ bound = {} /\ owner = Nobody

Create(r) == workspaces' = workspaces \cup {r} /\ UNCHANGED <<bound, owner>>

Bind(r) ==
  /\ r \in workspaces
  /\ bound' = bound \cup {r}
  /\ UNCHANGED <<workspaces, owner>>

Record(r) ==
  /\ r \in workspaces /\ owner = Nobody
  /\ owner' = r
  /\ UNCHANGED <<workspaces, bound>>

Discard(r) ==
  /\ r \notin bound \/ owner = r
  /\ workspaces' = workspaces \ {r}
  /\ UNCHANGED <<bound, owner>>

Next == \E r \in Run : Create(r) \/ Bind(r) \/ Record(r) \/ Discard(r)

Spec == Init /\ [][Next]_vars

\* Evidence the driver is bound to keep is in the workspace or in the record
\* (run.py, owned_workspace and retain_before_enrichment).
Kept == \A r \in bound : r \in workspaces \/ owner = r
=============================================================================
