---------------------------- MODULE HostAdmission ----------------------------
(***************************************************************************)
(* scripts/host_admission.py under the two entrypoints that call it:       *)
(* check.py, and check_hosts.py, which may run check.py as its gate.       *)
(*                                                                         *)
(* The adapter agent-verify is not part of the repository.  As the code    *)
(* uses it, it says whether the caller has a grant (a grant is inherited   *)
(* by every process started under it) or, replacing the caller, waits for  *)
(* one of Slots, starts the entrypoint again and frees the slot when it    *)
(* ends.                                                                   *)
(***************************************************************************)
EXTENDS Naturals, FiniteSets

CONSTANTS
  Process,
  CheckPy,  \* the processes that run check.py
  Parent,   \* who starts a process, None for one started from outside
  Slots,
  None

ASSUME AdmissionAssumption ==
  /\ CheckPy \subseteq Process
  /\ Parent \in [Process -> Process \cup {None}] /\ None \notin Process
  /\ Slots \in Nat \ {0}

VARIABLES
  adapter,  \* whether agent-verify is installed
  stage,    \* "unborn", "started", "queued", "admitted" or "over"
  holders,  \* the processes that were given a slot
  exit      \* None, then 0 or, for any other code, 1

admissionVars == <<adapter, stage, holders, exit>>

AdmissionInit(outside) ==
  /\ adapter \in BOOLEAN
  /\ stage = [p \in Process |-> IF p \in outside THEN "started" ELSE "unborn"]
  /\ holders = {}
  /\ exit = [p \in Process |-> None]

\* Mutant: the grant of the parent is not looked at.
OwnGrant(p) == p \in holders

\* What the adapter answers when asked truly.
inherited(p) == p \in holders \/ Parent[p] \in holders

To(p, place) == stage' = [stage EXCEPT ![p] = place]

Leave(p, code) ==
  /\ To(p, "over")
  /\ exit' = [exit EXCEPT ![p] = code]
  /\ holders' = holders \ {p}

Proceed(p) == To(p, "admitted") /\ UNCHANGED <<holders, exit>>

\* Mutant: an adapter that cannot answer is taken for one that is not there.
BrokenIsAbsent(p) ==
  \/ ~adapter /\ Proceed(p)
  \/ /\ adapter
     /\ \/ inherited(p) /\ Proceed(p)
        \/ ~inherited(p) /\ To(p, "queued") /\ UNCHANGED <<holders, exit>>
        \/ Proceed(p)

\* Mutant: the entrypoint that the adapter started asks for a slot again.
AsksAgain(p) ==
  \/ ~adapter /\ Proceed(p)
  \/ adapter /\ (Leave(p, 1) \/ (To(p, "queued") /\ UNCHANGED <<holders, exit>>))

\* The last disjunct is an adapter that cannot answer, or cannot be started.
enter_host_admission(p) ==
  \/ ~adapter /\ Proceed(p)
  \/ /\ adapter
     /\ \/ inherited(p) /\ Proceed(p)
        \/ ~inherited(p) /\ To(p, "queued") /\ UNCHANGED <<holders, exit>>
        \/ Leave(p, 1)

\* check.py first looks for its pinned requirements.
Enter(p) ==
  /\ stage[p] = "started"
  /\ \/ enter_host_admission(p)
     \/ p \in CheckPy /\ Leave(p, 1)
  /\ UNCHANGED adapter

\* The adapter has a slot and starts the entrypoint from its beginning.
GiveSlot(p) ==
  /\ stage[p] = "queued" /\ Cardinality(holders) < Slots
  /\ holders' = holders \cup {p}
  /\ To(p, "started")
  /\ UNCHANGED <<adapter, exit>>

\* main of check.py once admitted: the checks, or the focused pytest run.
RunChecks(p) ==
  /\ p \in CheckPy /\ stage[p] = "admitted"
  /\ \E code \in 0 .. 1 : Leave(p, code)
  /\ UNCHANGED adapter

AdmissionNext ==
  \E p \in Process : Enter(p) \/ GiveSlot(p) \/ RunChecks(p)

\* Under an adapter nothing runs its checks outside a grant.
WorkIsGranted ==
  adapter => \A p \in Process : stage[p] = "admitted" => inherited(p)

\* No process queues for a slot while the process that waits for it has one.
NoWaitBehindParent ==
  \A p \in Process : stage[p] = "queued" => Parent[p] \notin holders
=============================================================================
