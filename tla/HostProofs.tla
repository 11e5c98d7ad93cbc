----------------------------- MODULE HostProofs -----------------------------
(***************************************************************************)
(* For every set of processes, every package and every number of edits:    *)
(* nothing works without a grant or waits behind its own parent, the exit  *)
(* code agrees with the matrix, and what a row or a receipt says of an     *)
(* installation is so.  A slot is taken by one process and freed once      *)
(* (Slotted), and a step is recorded when main leaves its place, as passed *)
(* or as failed (Placed, Behind).                                          *)
(***************************************************************************)
EXTENDS HostChecks, FiniteSetTheorems, TLAPS

Stage == {"unborn", "started", "queued", "admitted", "over"}

-----------------------------------------------------------------------------
(* Admission.  Only the gate has a parent that is alive, and lives only    *)
(* while that parent waits for it.                                         *)

Alive(p) == stage[p] \in {"started", "queued", "admitted"}

Gated ==
  /\ stage \in [Process -> Stage]
  /\ holders \subseteq Process
  /\ \A p \in Process : stage[p] # "unborn" /\ p # Gate => Parent[p] = None
  /\ Alive(Gate) => at = "gating" /\ Running
  /\ WorkIsGranted
  /\ NoWaitBehindParent

LEMMA Family ==
  /\ Runner \in Process /\ Gate \in Process /\ Runner # Gate /\ None \notin Process
  /\ Parent[Gate] = Runner /\ Parent[Runner] = None /\ Runner # None
  /\ Runner \notin CheckPy
BY AdmissionAssumption, HostsAssumption

LEMMA InitGated == Init => Gated
<1> SUFFICES ASSUME Init PROVE Gated
  OBVIOUS
<1>1. options \in Option /\ \A p \in options.outside : Parent[p] = None
  BY HostsAssumption DEF Init
<1>2. Gate \notin options.outside \cup {Runner}
  BY <1>1, Family
<1>3. /\ stage = [p \in Process |-> IF p \in options.outside \cup {Runner} THEN "started"
                                   ELSE "unborn"]
      /\ holders = {}
  BY DEF Init, AdmissionInit
<1> QED
  BY <1>1, <1>2, <1>3, Family
  DEF Gated, Alive, Stage, Running, WorkIsGranted, NoWaitBehindParent, inherited

\* A process that goes to another place.
LEMMA ToPlace ==
  ASSUME Gated, NEW p \in Process, NEW place \in Stage, To(p, place)
  PROVE  /\ stage' \in [Process -> Stage] /\ stage'[p] = place
         /\ \A q \in Process : q # p => stage'[q] = stage[q]
BY DEF Gated, To

\* What a process does that leaves, while the gate is not alive or is itself.
LEMMA LeaveGated ==
  ASSUME Gated, NEW p \in Process, NEW code, Leave(p, code), UNCHANGED adapter,
         p = Gate \/ (stage[p] # "unborn" /\ (UNCHANGED at \/ ~Alive(Gate))),
         p = Runner => ~Alive(Gate)
  PROVE  Gated'
<1>1. /\ stage' \in [Process -> Stage] /\ stage'[p] = "over"
      /\ \A q \in Process : q # p => stage'[q] = stage[q]
  BY ToPlace DEF Leave, Stage
<1>2. holders' = holders \ {p}
  BY DEF Leave
<1>3. Alive(Gate)' => Alive(Gate) /\ p # Gate /\ p # Runner
  BY <1>1, Family DEF Alive
<1>4. WorkIsGranted'
  <2> SUFFICES ASSUME adapter, NEW q \in Process, stage'[q] = "admitted"
               PROVE  q \in holders' \/ Parent[q] \in holders'
    BY DEF WorkIsGranted, inherited
  <2>1. q # p /\ stage[q] = "admitted"
    BY <1>1
  <2>2. q \in holders \/ Parent[q] \in holders
    BY <2>1 DEF Gated, WorkIsGranted, inherited
  <2>3. CASE q = Gate
    BY <1>2, <2>1, <2>2, <2>3, Family DEF Alive
  <2>4. CASE q # Gate
    BY <1>2, <2>1, <2>2, <2>4, Family DEF Gated
  <2> QED
    BY <2>3, <2>4
<1>5. NoWaitBehindParent'
  BY <1>1, <1>2 DEF Gated, NoWaitBehindParent
<1>6. Alive(Gate)' => at' = "gating" /\ Running'
  BY <1>1, <1>3, Family DEF Gated, Running
<1> QED
  BY <1>1, <1>2, <1>4, <1>5, <1>6 DEF Gated

LEMMA AdmissionGated == Gated /\ Admission => Gated'
<1> SUFFICES ASSUME Gated, Admission PROVE Gated'
  OBVIOUS
<1>1. PICK p \in Process : Enter(p) \/ GiveSlot(p) \/ RunChecks(p)
  BY DEF Admission, AdmissionNext
<1>2. UNCHANGED at /\ UNCHANGED adapter
  BY <1>1 DEF Admission, matrixRun, Enter, GiveSlot, RunChecks
<1>3. stage[p] \in {"started", "queued"} \/ (p \in CheckPy /\ stage[p] = "admitted")
  BY <1>1 DEF Enter, GiveSlot, RunChecks
<1>4. p = Runner => ~Alive(Gate)
  BY <1>3, Family DEF Gated, Running
<1>5. ASSUME NEW code, Leave(p, code) PROVE Gated'
  BY <1>2, <1>3, <1>4, <1>5, LeaveGated
<1>6. CASE stage[p] = "started" /\ (inherited(p) \/ ~adapter) /\ Proceed(p)
  <2>1. /\ stage' \in [Process -> Stage] /\ stage'[p] = "admitted"
        /\ \A q \in Process : q # p => stage'[q] = stage[q]
    BY <1>6, ToPlace DEF Proceed, Stage
  <2>2. UNCHANGED holders
    BY <1>6 DEF Proceed
  <2>3. Alive(Gate)' => Alive(Gate)
    BY <1>6, <2>1, Family DEF Alive
  <2>4. Alive(Gate)' => at' = "gating" /\ Running'
    BY <1>2, <2>1, <2>3, Family DEF Gated, Running
  <2>5. WorkIsGranted' /\ NoWaitBehindParent'
    BY <1>2, <1>6, <2>1, <2>2 DEF Gated, WorkIsGranted, NoWaitBehindParent, inherited
  <2> QED
    BY <1>6, <2>1, <2>2, <2>4, <2>5 DEF Gated
<1>7. CASE /\ stage[p] = "started" /\ adapter /\ ~inherited(p) /\ To(p, "queued")
           /\ UNCHANGED holders
  <2>1. /\ stage' \in [Process -> Stage] /\ stage'[p] = "queued"
        /\ \A q \in Process : q # p => stage'[q] = stage[q]
    BY <1>7, ToPlace DEF Stage
  <2>2. p # Gate
    <3>1. SUFFICES ASSUME p = Gate PROVE FALSE
      OBVIOUS
    <3>2. Running /\ Runner \notin holders
      BY <1>7, <3>1, Family DEF Gated, Alive, inherited
    <3> QED
      BY <1>7, <3>2, Family DEF Gated, Running, WorkIsGranted, inherited
  <2>3. Alive(Gate)' => at' = "gating" /\ Running'
    BY <1>2, <1>4, <2>1, <2>2, Family DEF Gated, Running, Alive
  <2>4. WorkIsGranted' /\ NoWaitBehindParent'
    BY <1>2, <1>7, <2>1 DEF Gated, WorkIsGranted, NoWaitBehindParent, inherited
  <2> QED
    BY <1>7, <2>1, <2>3, <2>4 DEF Gated
<1>8. CASE GiveSlot(p)
  <2>1. /\ stage' \in [Process -> Stage] /\ stage'[p] = "started"
        /\ \A q \in Process : q # p => stage'[q] = stage[q]
    BY <1>8, ToPlace DEF GiveSlot, Stage
  <2>2. holders' = holders \cup {p} /\ stage[p] = "queued"
    BY <1>8 DEF GiveSlot
  <2>3. Alive(Gate)' => Alive(Gate) /\ p # Runner
    BY <1>4, <2>1, <2>2, Family DEF Alive
  <2>4. Alive(Gate)' => at' = "gating" /\ Running'
    BY <1>2, <2>1, <2>3, Family DEF Gated, Running
  <2>5. WorkIsGranted'
    BY <1>2, <2>1, <2>2 DEF Gated, WorkIsGranted, inherited
  <2>6. NoWaitBehindParent'
    <3> SUFFICES ASSUME NEW q \in Process, stage'[q] = "queued" PROVE Parent[q] \notin holders'
      BY DEF NoWaitBehindParent
    <3>1. q # p /\ stage[q] = "queued" /\ Parent[q] \notin holders
      BY <2>1 DEF Gated, NoWaitBehindParent
    <3>2. Parent[q] # p
      BY <2>1, <2>3, <3>1, Family DEF Gated, Alive
    <3> QED
      BY <2>2, <3>1, <3>2
  <2> QED
    BY <2>1, <2>2, <2>4, <2>5, <2>6 DEF Gated
<1> QED
  BY <1>1, <1>5, <1>6, <1>7, <1>8 DEF Enter, enter_host_admission, RunChecks, Proceed

-----------------------------------------------------------------------------
(* The steps of main and of the maintainer.                                *)

\* A step of main that only the cycle or the matrix sees.
LEMMA CycleSteps ==
  ASSUME \/ CodexSchema \/ ClaudeSchema \/ BeginHost \/ ReadPayload \/ ReadStatus
         \/ ReadCommit \/ ReadTree \/ PlainMarketplace \/ VerifySource \/ AddMarketplace
         \/ Install \/ List \/ Inspect \/ Uninstall \/ ListAgain \/ VerifyUninstall
         \/ EndCycle \/ NextHost
  PROVE  UNCHANGED admissionVars /\ Running /\ at # "gating"
<1>1. CASE CodexSchema \/ ClaudeSchema \/ BeginHost \/ EndCycle \/ NextHost
  BY <1>1 DEF CodexSchema, ClaudeSchema, BeginHost, EndCycle, NextHost, Step
<1>2. CASE ReadPayload \/ ReadStatus \/ ReadCommit \/ ReadTree \/ PlainMarketplace
  BY <1>2 DEF ReadPayload, ReadStatus, ReadCommit, ReadTree, PlainMarketplace, NoReceipt, Step
<1>3. CASE VerifySource \/ AddMarketplace \/ Install \/ List \/ Inspect
  BY <1>3 DEF VerifySource, AddMarketplace, Install, List, Inspect, Passed, Failed,
              CommandFails, Step
<1>4. CASE Uninstall \/ ListAgain \/ VerifyUninstall
  BY <1>4 DEF Uninstall, ListAgain, VerifyUninstall, Passed, Failed, CommandFails, Step
<1> QED
  BY <1>1, <1>2, <1>3, <1>4

LEMMA StillGated ==
  ASSUME Gated, UNCHANGED admissionVars, at # "gating" \/ UNCHANGED at
  PROVE  Gated'
BY DEF Gated, admissionVars, Alive, Running, WorkIsGranted, NoWaitBehindParent, inherited

LEMMA StepGated == Gated /\ [Next]_vars => Gated'
<1> SUFFICES ASSUME Gated, [Next]_vars PROVE Gated'
  OBVIOUS
<1>1. CASE Edit \/ Commit
  BY <1>1, StillGated DEF Edit, Commit
<1>2. CASE Admission
  BY <1>2, AdmissionGated
<1>3. CASE UNCHANGED vars
  BY <1>3, StillGated DEF vars
<1>4. CASE StartGate
  <2>1. CASE options.package_gate
    <3>1. /\ To(Gate, "started") /\ at' = "gating" /\ Running /\ at = "gate"
          /\ UNCHANGED <<adapter, holders>>
      BY <1>4, <2>1 DEF StartGate, Step, To
    <3>2. /\ stage' \in [Process -> Stage] /\ stage'[Gate] = "started"
          /\ \A q \in Process : q # Gate => stage'[q] = stage[q]
      BY <3>1, ToPlace, Family DEF Stage
    <3>3. Running'
      BY <3>1, <3>2, Family DEF Running
    <3>4. WorkIsGranted' /\ NoWaitBehindParent'
      BY <3>1, <3>2 DEF Gated, WorkIsGranted, NoWaitBehindParent, inherited
    <3> QED
      BY <3>1, <3>2, <3>3, <3>4 DEF Gated
  <2>2. CASE ~options.package_gate
    BY <1>4, <2>2, StillGated DEF StartGate, Step, admissionVars
  <2> QED
    BY <2>1, <2>2
<1>5. CASE GateEnds
  <2>1. CASE stage[Gate] = "over" /\ UNCHANGED admissionVars
    BY <2>1 DEF Gated, admissionVars, Alive, Running, WorkIsGranted, NoWaitBehindParent,
                inherited
  <2>2. CASE Leave(Gate, 1) /\ UNCHANGED adapter
    BY <2>2, LeaveGated, Family
  <2> QED
    BY <1>5, <2>1, <2>2 DEF GateEnds
<1>6. CASE Crash \/ Finish
  <2>1. \E code : Leave(Runner, code)
    BY <1>6 DEF Crash, Finish
  <2>2. UNCHANGED adapter /\ Running /\ at # "gating"
    BY <1>6 DEF Crash, Finish, Step
  <2>3. ~Alive(Gate)
    BY <2>2 DEF Gated
  <2> QED
    BY <2>1, <2>2, <2>3, LeaveGated, Family DEF Running
<1> QED
  BY <1>1, <1>2, <1>3, <1>4, <1>5, <1>6, CycleSteps, StillGated DEF Next, main

LEMMA GatedAlways == Spec => []Gated
BY InitGated, StepGated, PTL DEF Spec

\* For every set of processes: under an adapter nothing runs its checks outside a
\* grant, whoever queues, leaves or is killed.
THEOREM WorkIsAdmitted == Spec => []WorkIsGranted
BY GatedAlways, PTL DEF Gated

\* And no process queues behind the one that waits for it.
THEOREM NobodyWaitsBehindParent == Spec => []NoWaitBehindParent
BY GatedAlways, PTL DEF Gated

-----------------------------------------------------------------------------
(* The matrix: each capability gets one row, at one place of main.         *)

Early == {"gate", "gating", "codex schema", "claude schema"}

\* The row is still to be written.
Open(c) ==
  \/ c = "gate" /\ at \in {"gate", "gating"}
  \/ c = "codex schema" /\ at \in {"gate", "gating", "codex schema"}
  \/ c = "claude schema" /\ at \in Early
  \/ c = "codex" /\ host = "codex" /\ at # "next host"
  \/ c = "claude" /\ (host = "codex" \/ at \notin {"next host", "finished"})

Required ==
  {c \in {"codex schema", "claude schema"} :
     \E h \in options.validators : c = IF h = "codex" THEN "codex schema"
                                      ELSE "claude schema"} \cup options.installs

Bad(c) == rows[c] = "FAIL" \/ (c \in Required /\ rows[c] = "UNVERIFIED")

Rowed ==
  /\ options \in Option /\ host \in Host
  /\ at \in Early => host = "codex"
  /\ rows \in [Capability -> Status \cup {None}] /\ errors \in BOOLEAN
  /\ \A c \in Capability : ~Open(c) => rows[c] \in Status
  /\ errors <=> \E c \in Capability : ~Open(c) /\ Bad(c)
  /\ exit \in [Process -> {None, 0, 1}]
  /\ at = "finished" => /\ host = "claude" /\ stage[Runner] = "over"
                        /\ exit[Runner] = IF errors THEN 1 ELSE 0

LEMMA InitRowed == Init => Rowed
<1> SUFFICES ASSUME Init PROVE Rowed
  OBVIOUS
<1>1. at = "gate" /\ host = "codex" /\ errors = FALSE /\ options \in Option
  BY DEF Init
<1>2. \A c \in Capability : Open(c)
  BY <1>1 DEF Open, Early, Capability, Host
<1>3. /\ rows \in [Capability -> Status \cup {None}]
      /\ exit \in [Process -> {None, 0, 1}]
  BY DEF Init, AdmissionInit
<1> QED
  BY <1>1, <1>2, <1>3 DEF Rowed, Host

\* The row of c is written, and main leaves the place where it was open.
LEMMA RowRowed ==
  ASSUME Rowed, NEW c \in Capability, NEW status \in Status, NEW error \in BOOLEAN,
         Row(c, status, error), Open(c), ~Open(c)',
         \A d \in Capability : d # c => (Open(d)' <=> Open(d)),
         error <=> status = "FAIL" \/ (c \in Required /\ status = "UNVERIFIED"),
         UNCHANGED <<options, host>>, at' # "finished", at' \in Early => host = "codex",
         exit' \in [Process -> {None, 0, 1}]
  PROVE  Rowed'
<1>1. /\ rows' \in [Capability -> Status \cup {None}] /\ rows'[c] = status
      /\ \A d \in Capability : d # c => rows'[d] = rows[d]
  BY DEF Row, Rowed
<1>2. errors' <=> errors \/ error
  BY DEF Row
<1>3. errors' \in BOOLEAN
  BY DEF Row, Rowed
<1>4. Required' = Required
  BY DEF Required
<1>5. \A d \in Capability : d # c => (Bad(d)' <=> Bad(d))
  BY <1>1, <1>4 DEF Bad
<1>6. error <=> Bad(c)'
  BY <1>1, <1>4 DEF Bad
<1>7. errors' <=> \E d \in Capability : ~Open(d)' /\ Bad(d)'
  <2>1. errors <=> \E d \in Capability : d # c /\ ~Open(d) /\ Bad(d)
    BY DEF Rowed
  <2> QED
    BY <1>2, <1>5, <1>6, <2>1
<1> QED
  BY <1>1, <1>3, <1>7 DEF Rowed

\* No row is written.
LEMMA NoRowRowed ==
  ASSUME Rowed, UNCHANGED <<options, rows, errors>>, host' \in Host,
         \A c \in Capability : Open(c)' <=> Open(c),
         at' = "finished" => /\ host' = "claude" /\ stage'[Runner] = "over"
                            /\ exit'[Runner] = IF errors THEN 1 ELSE 0,
         at' \in Early => host' = "codex", exit' \in [Process -> {None, 0, 1}]
  PROVE  Rowed'
<1>1. Required' = Required
  BY DEF Required
<1>2. \A c \in Capability : Bad(c)' <=> Bad(c)
  BY <1>1 DEF Bad
<1> QED
  BY <1>2 DEF Rowed

Middle == {"host", "identity", "status", "commit", "tree", "plain marketplace",
           "verify source", "marketplace", "install", "list", "inspect", "uninstall",
           "list after uninstall", "verify uninstall", "cycle over", "crashed"}

LEMMA MiddleRowed ==
  ASSUME Rowed, at \in Middle, at' \in Middle, exit' \in [Process -> {None, 0, 1}],
         UNCHANGED <<options, host, rows, errors>>
  PROVE  Rowed'
<1>1. \A c \in Capability : Open(c)' <=> Open(c)
  BY DEF Open, Middle, Early
<1>2. at' # "finished" /\ at' \notin Early
  BY DEF Middle, Early
<1> QED
  BY <1>1, <1>2, NoRowRowed DEF Rowed

\* The row of the host.
LEMMA HostRowed ==
  ASSUME Rowed, NEW status \in Status, NEW error \in BOOLEAN, Row(host, status, error),
         at \in Middle, at' = "next host",
         UNCHANGED <<admissionVars, options, host>>,
         error <=> status = "FAIL" \/ (host \in options.installs /\ status = "UNVERIFIED")
  PROVE  Rowed'
<1>1. host \in Capability /\ host \in Host
  BY DEF Rowed, Capability
<1>2. Open(host) /\ ~Open(host)'
  BY <1>1 DEF Open, Middle, Early, Host
<1>3. \A d \in Capability : d # host => (Open(d)' <=> Open(d))
  BY <1>1 DEF Open, Middle, Early, Host, Capability
<1>4. host \in Required <=> host \in options.installs
  BY <1>1 DEF Required, Host
<1>5. exit' \in [Process -> {None, 0, 1}]
  BY DEF Rowed, admissionVars
<1>6. at' # "finished" /\ at' \notin Early
  BY DEF Early
<1> QED
  BY <1>1, <1>2, <1>3, <1>4, <1>5, <1>6, RowRowed

LEMMA InstallRowed ==
  ASSUME Rowed, NEW passed \in BOOLEAN, NEW policy, InstallRow(passed, policy),
         at \in Middle, at' = "next host",
         UNCHANGED <<admissionVars, options, host>>
  PROVE  Rowed'
<1> DEFINE excused == host = "codex" /\ ~passed /\ policy /\ host \notin options.installs
           status == IF passed THEN "PASS" ELSE IF excused THEN "UNVERIFIED" ELSE "FAIL"
<1>1. Row(host, status, ~passed /\ ~excused)
  BY DEF InstallRow
<1>2. /\ status \in Status /\ (~passed /\ ~excused) \in BOOLEAN
      /\ (~passed /\ ~excused) <=>
           status = "FAIL" \/ (host \in options.installs /\ status = "UNVERIFIED")
  BY DEF Status
<1> QED
  BY <1>1, <1>2, HostRowed

LEMMA OptionTypes ==
  ASSUME Rowed
  PROVE  /\ \A h \in Host : options.schema[h] \in Status
         /\ options.installs \subseteq Host /\ options.validators \subseteq Host
BY HostsAssumption DEF Rowed, Status

\* The row of a validator.
LEMMA SchemaRowed ==
  ASSUME Rowed, NEW h \in Host, NEW c, NEW status \in Status, SchemaRow(h, c, status),
         c = (IF h = "codex" THEN "codex schema" ELSE "claude schema"),
         at = c, at' = (IF h = "codex" THEN "claude schema" ELSE "host"),
         UNCHANGED <<admissionVars, options, host>>
  PROVE  Rowed'
<1> DEFINE error == status = "FAIL" \/ (status = "UNVERIFIED" /\ h \in options.validators)
<1>1. Row(c, status, error) /\ error \in BOOLEAN /\ c \in Capability
  BY DEF SchemaRow, Capability
<1>2. c \in Required <=> h \in options.validators
  BY OptionTypes DEF Required, Host
<1>3. /\ Open(c) /\ ~Open(c)'
      /\ \A d \in Capability : d # c => (Open(d)' <=> Open(d))
  BY DEF Open, Early, Capability, Host, Rowed
<1>4. exit' \in [Process -> {None, 0, 1}]
  BY DEF Rowed, admissionVars
<1>5. at' # "finished" /\ (at' \in Early => host = "codex")
  BY DEF Early, Rowed
<1>6. error <=> status = "FAIL" \/ (c \in Required /\ status = "UNVERIFIED")
  BY <1>2
<1> QED
  BY <1>1, <1>3, <1>4, <1>5, <1>6, RowRowed

\* What no step of main does to the exit codes and the rows.
LEMMA ElsewhereRowed ==
  ASSUME Gated, Rowed, Admission \/ Edit \/ Commit \/ UNCHANGED vars
  PROVE  Rowed'
<1>1. UNCHANGED <<options, at, host, rows, errors>>
  BY DEF Admission, matrixRun, matrixVars, Edit, Commit, vars
<1>2. exit' \in [Process -> {None, 0, 1}] /\ (at = "finished" =>
        stage'[Runner] = "over" /\ exit'[Runner] = exit[Runner])
  <2>1. CASE UNCHANGED admissionVars
    BY <2>1 DEF Rowed, admissionVars
  <2>2. CASE Admission
    <3>1. PICK p \in Process : Enter(p) \/ GiveSlot(p) \/ RunChecks(p)
      BY <2>2 DEF Admission, AdmissionNext
    <3>2. stage[p] \in {"started", "queued", "admitted"}
      BY <3>1 DEF Enter, GiveSlot, RunChecks
    <3>3. PICK place \in Stage : To(p, place)
      BY <3>1 DEF Enter, GiveSlot, RunChecks, enter_host_admission, Proceed, Leave, Stage
    <3>4. UNCHANGED exit \/ \E code \in {0, 1} : exit' = [exit EXCEPT ![p] = code]
      <4>1. ASSUME NEW code \in 0 .. 1 PROVE code \in {0, 1}
        OBVIOUS
      <4> QED
        BY <3>1, <4>1 DEF Enter, GiveSlot, RunChecks, enter_host_admission, Proceed, Leave
    <3>5. exit \in [Process -> {None, 0, 1}]
      BY DEF Rowed
    <3>6. exit' \in [Process -> {None, 0, 1}]
      BY <3>4, <3>5
    <3>7. ASSUME at = "finished" PROVE stage'[Runner] = "over" /\ exit'[Runner] = exit[Runner]
      <4>1. p # Runner /\ stage[Runner] = "over"
        BY <3>2, <3>7 DEF Rowed
      <4> QED
        BY <3>3, <3>4, <3>5, <4>1, ToPlace, Family
    <3> QED
      BY <3>6, <3>7
  <2> QED
    BY <2>1, <2>2 DEF Edit, Commit, vars
<1>3. \A c \in Capability : Open(c)' <=> Open(c)
  BY <1>1 DEF Open
<1> QED
  BY <1>1, <1>2, <1>3, NoRowRowed DEF Rowed

LEMMA StepRowed == Gated /\ Rowed /\ [Next]_vars => Rowed'
<1> SUFFICES ASSUME Gated, Rowed, [Next]_vars PROVE Rowed'
  OBVIOUS
<1>1. CASE StartGate \/ GateEnds
  <2>1. exit' \in [Process -> {None, 0, 1}]
    BY <1>1 DEF StartGate, GateEnds, Rowed, admissionVars, Leave
  <2>2. UNCHANGED <<options, host>> /\ host = "codex"
    BY <1>1 DEF StartGate, GateEnds, Step, Rowed, Early
  <2>3. "gate" \notin Required /\ "gate" \in Capability
    BY OptionTypes DEF Required, Host, Capability
  <2>4. CASE /\ at \in {"gate", "gating"} /\ at' = "codex schema"
             /\ \/ Row("gate", "PASS", FALSE) \/ Row("gate", "UNVERIFIED", FALSE)
                \/ Row("gate", "FAIL", TRUE)
    <3>1. Open("gate") /\ ~Open("gate")'
      BY <2>4 DEF Open
    <3>2. \A d \in Capability : d # "gate" => (Open(d)' <=> Open(d))
      BY <2>2, <2>4 DEF Open, Early, Capability, Host
    <3> QED
      BY <2>1, <2>2, <2>3, <2>4, <3>1, <3>2, RowRowed DEF Status
  <2>5. CASE at = "gate" /\ at' = "gating" /\ UNCHANGED <<rows, errors>>
    <3>1. \A d \in Capability : Open(d)' <=> Open(d)
      BY <2>2, <2>5 DEF Open, Early
    <3> QED
      BY <2>1, <2>2, <2>5, <3>1, NoRowRowed DEF Host
  <2> QED
    BY <1>1, <2>4, <2>5 DEF StartGate, GateEnds, Step, matrixVars
<1>2. CASE CodexSchema \/ ClaudeSchema
  <2>1. UNCHANGED <<admissionVars, options, host>>
    BY <1>2 DEF CodexSchema, ClaudeSchema, Step
  <2>2. CASE CodexSchema
    BY <2>1, <2>2, SchemaRowed, OptionTypes DEF CodexSchema, Step, Host
  <2>3. CASE ClaudeSchema
    <3>1. PICK status \in Status : SchemaRow("claude", "claude schema", status)
      BY <2>3, OptionTypes DEF ClaudeSchema, Host, Status
    <3> QED
      BY <2>1, <2>3, <3>1, SchemaRowed DEF ClaudeSchema, Step, Host
  <2> QED
    BY <1>2, <2>2, <2>3
<1>3. ASSUME NEW from \in Middle, NoReceipt(from), UNCHANGED admissionVars, UNCHANGED host
      PROVE  Rowed'
  BY <1>3, InstallRowed DEF NoReceipt, Step
<1>4. ASSUME NEW from \in Middle, NEW to \in Middle, Step(from, to),
             UNCHANGED <<admissionVars, host, rows, errors>>
      PROVE  Rowed'
  <2>1. exit' \in [Process -> {None, 0, 1}] /\ UNCHANGED options
    BY <1>4 DEF Step, Rowed, admissionVars
  <2> QED
    BY <1>4, <2>1, MiddleRowed DEF Step
<1>5. CASE BeginHost
  <2>1. UNCHANGED <<admissionVars, host, options>> /\ at = "host"
    BY <1>5 DEF BeginHost, Step
  <2>2. CASE at' = "next host" /\ Row(host, "UNVERIFIED", host \in options.installs)
    <3>1. PICK error \in BOOLEAN : error <=> host \in options.installs
      OBVIOUS
    <3>2. Row(host, "UNVERIFIED", error)
      BY <2>2, <3>1 DEF Row
    <3> QED
      BY <2>1, <2>2, <3>1, <3>2, HostRowed DEF Status, Middle
  <2>3. CASE /\ \E to \in Middle : Step("host", to)
             /\ UNCHANGED <<rows, errors>>
    BY <1>4, <2>1, <2>3 DEF Middle
  <2> QED
    BY <1>5, <2>2, <2>3 DEF BeginHost, Step, matrixVars, Middle
<1>6. CASE ReadPayload \/ ReadStatus \/ ReadCommit \/ ReadTree \/ PlainMarketplace
  <2>1. UNCHANGED <<admissionVars, host>>
    BY <1>6 DEF ReadPayload, ReadStatus, ReadCommit, ReadTree, PlainMarketplace
  <2> QED
    BY <1>3, <1>4, <1>6, <2>1
    DEF ReadPayload, ReadStatus, ReadCommit, ReadTree, PlainMarketplace, matrixVars, Middle
<1>7. CASE VerifySource \/ AddMarketplace \/ Install \/ List
  <2>1. UNCHANGED <<admissionVars, host, rows, errors>>
    BY <1>7 DEF VerifySource, AddMarketplace, Install, List, matrixVars
  <2>2. \E from \in Middle, to \in Middle : Step(from, to)
    BY <1>7 DEF VerifySource, AddMarketplace, Install, List, Passed, Failed, CommandFails,
                Middle
  <2> QED
    BY <1>4, <2>1, <2>2
<1>8. CASE Inspect \/ Uninstall \/ ListAgain \/ VerifyUninstall
  <2>1. UNCHANGED <<admissionVars, host, rows, errors>>
    BY <1>8 DEF Inspect, Uninstall, ListAgain, VerifyUninstall, matrixVars
  <2>2. \E from \in Middle, to \in Middle : Step(from, to)
    BY <1>8 DEF Inspect, Uninstall, ListAgain, VerifyUninstall, Passed, Failed, CommandFails,
                Middle
  <2> QED
    BY <1>4, <2>1, <2>2
<1>9. CASE EndCycle
  <2>1. /\ InstallRow(failed = None, blocked) /\ (failed = None) \in BOOLEAN
        /\ at \in Middle /\ at' = "next host" /\ UNCHANGED <<admissionVars, options, host>>
    BY <1>9 DEF EndCycle, Step, Middle
  <2> QED
    BY <2>1, InstallRowed
<1>10. CASE Crash
  <2>1. exit' = [exit EXCEPT ![Runner] = 1]
    BY <1>10 DEF Crash, Leave
  <2>2. exit' \in [Process -> {None, 0, 1}]
    BY <2>1 DEF Rowed
  <2>3. /\ at \in Middle /\ at' \in Middle
        /\ UNCHANGED <<options, host, rows, errors>>
    BY <1>10 DEF Crash, Step, matrixVars, Middle
  <2> QED
    BY <2>2, <2>3, MiddleRowed
<1>11. CASE NextHost
  <2>1. /\ at = "next host" /\ at' = "host" /\ host = "codex" /\ host' = "claude"
        /\ UNCHANGED <<admissionVars, options, rows, errors>>
    BY <1>11 DEF NextHost, Step
  <2>2. \A c \in Capability : Open(c)' <=> Open(c)
    BY <2>1 DEF Open, Early
  <2>3. exit' \in [Process -> {None, 0, 1}]
    BY <2>1 DEF Rowed, admissionVars
  <2> QED
    BY <2>1, <2>2, <2>3, NoRowRowed DEF Host, Early
<1>12. CASE Finish
  <2>1. /\ at = "next host" /\ at' = "finished" /\ host = "claude"
        /\ UNCHANGED <<options, host, rows, errors>>
        /\ Leave(Runner, IF errors THEN 1 ELSE 0)
    BY <1>12 DEF Finish, Step, matrixVars
  <2>2. \A c \in Capability : Open(c)' <=> Open(c)
    BY <2>1 DEF Open, Early
  <2>3. /\ exit' \in [Process -> {None, 0, 1}] /\ stage'[Runner] = "over"
        /\ exit'[Runner] = IF errors THEN 1 ELSE 0
    BY <2>1, ToPlace, Family DEF Leave, Rowed, Stage
  <2> QED
    BY <2>1, <2>2, <2>3, NoRowRowed DEF Host, Early
<1> QED
  BY <1>1, <1>2, <1>5, <1>6, <1>7, <1>8, <1>9, <1>10, <1>11, <1>12, ElsewhereRowed
  DEF Next, main

\* For every option and whatever the gate, the validators and the hosts do: the
\* run that ends exits 0 exactly if its matrix has no failure and all that was
\* required passed.
THEOREM ExitCodeAgrees == Spec => []ExitAgrees
<1>1. Rowed => ExitAgrees
  <2> SUFFICES ASSUME Rowed, at = "finished" PROVE ExitAgrees
    BY DEF ExitAgrees
  <2>1. host = "claude" /\ exit[Runner] = IF errors THEN 1 ELSE 0
    BY DEF Rowed
  <2>2. \A c \in Capability : ~Open(c)
    BY <2>1 DEF Open, Early
  <2>3. \A c \in Capability : rows[c] \in {"PASS", "UNVERIFIED", "FAIL"}
    BY <2>2 DEF Rowed, Status
  <2>4. Required \subseteq Capability
    BY OptionTypes DEF Required, Capability
  <2>5. errors <=> ~(/\ \A c \in Capability : rows[c] \in {"PASS", "UNVERIFIED"}
                     /\ \A c \in Required : rows[c] = "PASS")
    <3>1. errors <=> \E c \in Capability : Bad(c)
      BY <2>2 DEF Rowed
    <3> QED
      BY <2>3, <2>4, <3>1 DEF Bad
  <2> QED
    BY <2>1, <2>5 DEF ExitAgrees, Required
<1>2. Init => Gated /\ Rowed
  BY InitGated, InitRowed
<1>3. Gated /\ Rowed /\ [Next]_vars => (Gated /\ Rowed)'
  BY StepGated, StepRowed
<1> QED
  BY <1>1, <1>2, <1>3, PTL DEF Spec

-----------------------------------------------------------------------------
(* The cycle: what its steps leave behind for the row and the receipt.     *)

Removing == {"uninstall", "list after uninstall", "verify uninstall"}

Late == Removing \cup {"cycle over", "next host", "crashed", "finished"}

Identified == Removing \cup {"tree", "plain marketplace", "verify source", "marketplace",
                             "install", "list", "inspect", "cycle over"}

\* What was read since the step began was there since the cycle began.
Watched ==
  /\ package \in Tree /\ package \in seen /\ seen \subseteq past
  /\ options \in Option

InstalledHere ==
  plugin # None /\ plugin.usable /\ plugin.payload = installed

Recorded ==
  /\ at \in {"inspect", "verify uninstall"} => listed \in Listings
  /\ at \notin Late => /\ "inspect installed files" \notin steps
                       /\ "verify uninstall" \notin steps /\ failed = None
  /\ at \in Removing => /\ options.smoke /\ failed = None
                       /\ "inspect installed files" \in steps
                       /\ "verify uninstall" \notin steps
  /\ at = "cycle over" =>
       /\ failed = None => /\ "inspect installed files" \in steps
                           /\ IF options.smoke THEN "verify uninstall" \in steps
                              ELSE InstalledHere
       /\ "verify uninstall" \in steps /\ listed # "vague" => plugin = None
  /\ "inspect installed files" \in steps /\ at \in Removing \cup {"cycle over"}
       /\ past = {package} => installed = package

\* The package is the one that was read, and did not come back.
Constant == package = identity.commit /\ ~returned

\* The commit of the receipt was the package once: the package is it now only if
\* it stayed, or came back.
Bound ==
  options.smoke =>
    /\ at = "commit" => head \in past
    /\ at \in Identified => identity.commit \in past
    /\ at = "inspect" /\ Constant => seen = {package}
    /\ "inspect installed files" \in steps /\ at \in Removing \cup {"cycle over"}
         /\ Constant => installed = package

Cycled == Watched /\ Recorded /\ Bound

LEMMA InitCycled == Init => Cycled
<1> SUFFICES ASSUME Init PROVE Cycled
  OBVIOUS
<1>1. /\ at = "gate" /\ steps = {} /\ failed = None /\ package = First /\ seen = {package}
      /\ past = {package} /\ options \in Option
  BY DEF Init
<1>2. Watched
  BY <1>1, HostsAssumption DEF Watched
<1>3. Recorded
  BY <1>1 DEF Recorded, Removing, Late
<1>4. Bound
  BY <1>1 DEF Bound, Removing, Identified
<1> QED
  BY <1>2, <1>3, <1>4 DEF Cycled

\* No walk over an unchanged package reads anything else.
LEMMA TornOnce ==
  ASSUME package \in Tree, seen = {package}, NEW t \in Torn
  PROVE  t = package
<1>1. t \in Tree /\ \A f \in File : t[f] = package[f]
  BY DEF Torn
<1> QED
  BY <1>1 DEF Tree

LEMMA EditCycled ==
  ASSUME Cycled, Edit
  PROVE  Cycled'
<1>1. PICK f \in File, c \in Content : package' = [package EXCEPT ![f] = c]
  BY DEF Edit
<1>2. /\ package' # package /\ seen' = seen \cup {package'} /\ past' = past \cup {package'}
      /\ returned' = (returned \/ package' \in past)
      /\ UNCHANGED <<options, at, head, identity, plugin, listed, steps, failed, installed>>
  BY DEF Edit, cycleVars
<1>3. Watched'
  <2>1. package' \in Tree
    BY <1>1 DEF Cycled, Watched, Tree
  <2> QED
    BY <1>2, <2>1 DEF Cycled, Watched
<1>4. past' # {package'}
  BY <1>2 DEF Cycled, Watched
<1>5. Recorded'
  BY <1>2, <1>4 DEF Cycled, Recorded, InstalledHere, Listings, Inventory
<1>6. identity.commit \in past => ~Constant'
  BY <1>2 DEF Constant
<1>7. Bound'
  <2> SUFFICES ASSUME options.smoke PROVE Bound'
    BY <1>2 DEF Bound
  <2>1. at \in Identified => ~Constant'
    BY <1>6 DEF Cycled, Bound
  <2>2. at = "inspect" \/ at \in Removing \cup {"cycle over"} => at \in Identified
    BY DEF Identified
  <2> QED
    BY <1>2, <2>1, <2>2 DEF Cycled, Bound
<1> QED
  BY <1>3, <1>5, <1>7 DEF Cycled

\* What changes neither the package nor the cycle.
LEMMA AsideCycled ==
  ASSUME Cycled, Commit \/ Admission \/ UNCHANGED vars
  PROVE  Cycled'
<1>1. /\ UNCHANGED <<options, at, package, seen, past, returned, identity, plugin, listed,
                     steps, failed, installed>>
      /\ head' \in {head, package}
  BY DEF Commit, Admission, vars, matrixRun, worldVars, history, cycleVars
<1> QED
  BY <1>1 DEF Cycled, Watched, Recorded, InstalledHere, Listings, Inventory, Bound, Constant

\* Main goes on: the walk over the files begins anew.
LEMMA StepWatched ==
  ASSUME Cycled, NEW from, NEW to, Step(from, to), past' = past \/ past' = {package}
  PROVE  /\ Watched' /\ at = from /\ at' = to
         /\ UNCHANGED <<options, package, head>> /\ seen' = {package}
BY DEF Cycled, Watched, Step

\* Main goes to a place before the inspection, or to one after the cycle.
LEMMA PlainCycled ==
  ASSUME Cycled, NEW from, NEW to, Step(from, to), past' = past \/ past' = {package},
         to \notin Removing \cup {"cycle over", "inspect"},
         to \in Late \/ (/\ "inspect installed files" \notin steps'
                         /\ "verify uninstall" \notin steps' /\ failed' = None),
         options.smoke /\ to = "commit" => head \in past',
         options.smoke /\ to \in Identified => identity'.commit \in past'
  PROVE  Cycled'
<1>1. Watched' /\ at' = to /\ UNCHANGED <<options, package, head>>
  BY StepWatched
<1>2. Recorded'
  BY <1>1 DEF Recorded, Removing
<1>3. Bound'
  BY <1>1 DEF Bound
<1> QED
  BY <1>1, <1>2, <1>3 DEF Cycled

\* A step of the cycle fails, which is the end of it.
LEMMA FailedCycled ==
  ASSUME Cycled, NEW from \in Identified \ {"cycle over"}, NEW step \in StepName,
         Failed(from, step), UNCHANGED <<history, identity>>,
         UNCHANGED installed \/ from = "inspect"
  PROVE  Cycled'
<1>1. /\ Watched' /\ at = from /\ at' = "cycle over" /\ UNCHANGED <<options, package>>
      /\ UNCHANGED <<past, returned, steps>> /\ failed' # None
  BY StepWatched, HostsAssumption DEF Failed, history
<1>2. "verify uninstall" \notin steps /\ (from \notin Late \/ from \in Removing)
  BY <1>1 DEF Cycled, Recorded, Late, Identified
<1>3. Recorded'
  <2>1. from \notin Late => "inspect installed files" \notin steps
    BY <1>1 DEF Cycled, Recorded
  <2>2. from \in Removing => UNCHANGED installed
    BY DEF Removing
  <2>3. ASSUME "inspect installed files" \in steps, past = {package} PROVE installed' = package
    BY <1>1, <1>2, <2>1, <2>2, <2>3 DEF Cycled, Recorded
  <2> QED
    BY <1>1, <1>2, <2>3 DEF Recorded, Removing, Late
<1>4. Bound'
  <2>1. from \notin Late => "inspect installed files" \notin steps
    BY <1>1 DEF Cycled, Recorded
  <2>2. from = "inspect" => from \notin Late
    BY DEF Late, Removing
  <2> QED
    BY <1>1, <1>2, <2>1, <2>2 DEF Cycled, Bound, Constant
<1> QED
  BY <1>1, <1>3, <1>4 DEF Cycled

\* A step before the inspection passes.
LEMMA PassedCycled ==
  ASSUME Cycled, NEW from, NEW to, NEW step, Passed(from, to, step),
         from \in Identified \ Late, to \in Identified \ (Late \cup {"inspect"}),
         step \notin {"inspect installed files", "verify uninstall"},
         UNCHANGED <<history, identity>>
  PROVE  Cycled'
<1>1. Step(from, to) /\ steps' = steps \cup {step} /\ UNCHANGED <<failed, past>>
  BY DEF Passed, history
<1>2. at = from /\ UNCHANGED options
  BY <1>1 DEF Step
<1>3. /\ "inspect installed files" \notin steps' /\ "verify uninstall" \notin steps'
      /\ failed' = None
  BY <1>1, <1>2 DEF Cycled, Recorded
<1>4. options.smoke => identity'.commit \in past'
  BY <1>2 DEF Cycled, Bound, history
<1>5. to \notin Removing \cup {"cycle over", "inspect"} /\ to # "commit"
  BY DEF Late, Identified, Removing
<1> QED
  BY <1>1, <1>3, <1>4, <1>5, PlainCycled

LEMMA ListCycled == Cycled /\ List => Cycled'
<1> SUFFICES ASSUME Cycled, List PROVE Cycled'
  OBVIOUS
<1>1. UNCHANGED <<history, identity, plugin, installed>>
  BY DEF List
<1>2. CASE CommandFails("list")
  <2>1. Failed("list", "list") /\ "list" \in StepName
    BY <1>2 DEF CommandFails, StepName
  <2>2. "list" \in Identified \ {"cycle over"}
    BY DEF Identified
  <2> QED
    BY <1>1, <2>1, <2>2, FailedCycled
<1>3. CASE Passed("list", "inspect", "list") /\ listed' \in Listings
  <2>1. /\ Watched' /\ at = "list" /\ at' = "inspect" /\ UNCHANGED <<options, package>>
        /\ seen' = {package} /\ steps' = steps \cup {"list"} /\ UNCHANGED failed
    BY <1>1, <1>3, StepWatched DEF Passed, history
  <2>2. Recorded'
    BY <1>1, <1>3, <2>1 DEF Cycled, Recorded, Removing, Late, Listings, Inventory
  <2>3. Bound'
    BY <1>1, <2>1 DEF Cycled, Bound, Identified, Removing, history
  <2> QED
    BY <2>1, <2>2, <2>3 DEF Cycled
<1> QED
  BY <1>2, <1>3 DEF List

LEMMA InspectCycled == Cycled /\ Inspect => Cycled'
<1> SUFFICES ASSUME Cycled, Inspect PROVE Cycled'
  OBVIOUS
<1>1. UNCHANGED <<history, identity, plugin, listed>>
  BY DEF Inspect
<1>2. CASE Failed("inspect", "inspect installed files")
  <2>1. "inspect installed files" \in StepName
    BY DEF StepName
  <2>2. "inspect" \in Identified \ {"cycle over"}
    BY DEF Identified
  <2> QED
    BY <1>1, <1>2, <2>1, <2>2, FailedCycled
<1>3. CASE /\ listed = "present" /\ plugin.usable /\ plugin.payload \in Torn
           /\ Passed("inspect", IF options.smoke THEN "uninstall" ELSE "cycle over",
                     "inspect installed files")
           /\ installed' = plugin.payload
  <2>1. /\ Watched' /\ at = "inspect" /\ UNCHANGED <<options, package, past, returned>>
        /\ at' = (IF options.smoke THEN "uninstall" ELSE "cycle over")
        /\ steps' = steps \cup {"inspect installed files"} /\ UNCHANGED failed
    <3>1. PICK to : to = IF options.smoke THEN "uninstall" ELSE "cycle over"
      OBVIOUS
    <3>2. Step("inspect", to) /\ steps' = steps \cup {"inspect installed files"}
          /\ UNCHANGED failed
      BY <1>3, <3>1 DEF Passed
    <3>3. UNCHANGED <<past, returned>>
      BY <1>1 DEF history
    <3>4. Watched' /\ at = "inspect" /\ at' = to /\ UNCHANGED <<options, package>>
      BY <3>2, <3>3, StepWatched
    <3> QED
      BY <3>1, <3>2, <3>3, <3>4
  <2>2. "verify uninstall" \notin steps /\ failed = None /\ plugin # None
    <3>1. listed \in Listings
      BY <2>1 DEF Cycled, Recorded
    <3> QED
      BY <1>3, <2>1, <3>1 DEF Cycled, Recorded, Listings, Inventory, Late, Removing
  <2>3. seen = {package} => plugin.payload = package
    BY <1>3, TornOnce DEF Cycled, Watched
  <2>4. past = {package} => seen = {package}
    BY DEF Cycled, Watched
  <2>5. Recorded'
    BY <1>1, <1>3, <2>1, <2>2, <2>3, <2>4 DEF Recorded, Removing, Late, InstalledHere
  <2>6. Bound'
    BY <1>1, <1>3, <2>1, <2>3 DEF Cycled, Bound, Identified, Removing, Constant
  <2> QED
    BY <2>1, <2>5, <2>6 DEF Cycled
<1> QED
  BY <1>2, <1>3 DEF Inspect

\* The uninstallation, after a smoke only.
LEMMA RemoveCycled == Cycled /\ (Uninstall \/ ListAgain \/ VerifyUninstall) => Cycled'
<1> SUFFICES ASSUME Cycled, Uninstall \/ ListAgain \/ VerifyUninstall PROVE Cycled'
  OBVIOUS
<1>1. UNCHANGED <<history, identity, installed>>
  BY DEF Uninstall, ListAgain, VerifyUninstall
<1>2. ASSUME NEW from \in Removing, Failed(from, from) PROVE Cycled'
  <2>1. from \in StepName /\ from \in Identified \ {"cycle over"}
    BY <1>2 DEF Identified, Removing, StepName
  <2> QED
    BY <1>1, <1>2, <2>1, FailedCycled
<1>3. ASSUME NEW from \in Removing, NEW to \in Removing \cup {"cycle over"}, NEW step,
             Passed(from, to, step),
             to = "cycle over" <=> step = "verify uninstall",
             to = "verify uninstall" => listed' \in Listings /\ UNCHANGED plugin,
             to = "cycle over" => listed' = "vague" \/ plugin' = None, step # "inspect installed files"
      PROVE  Cycled'
  <2>1. /\ Watched' /\ at = from /\ at' = to /\ UNCHANGED <<options, package, past, returned>>
        /\ steps' = steps \cup {step} /\ UNCHANGED failed
    BY <1>1, <1>3, StepWatched DEF Passed, history
  <2>2. options.smoke /\ failed = None /\ "verify uninstall" \notin steps
    BY <2>1 DEF Cycled, Recorded
  <2>3. Recorded'
    <3>1. past = {package} => installed = package
      BY <2>1, <2>2 DEF Cycled, Recorded
    <3>2. "inspect installed files" \in steps' /\ UNCHANGED installed
      BY <1>1, <2>1 DEF Cycled, Recorded
    <3> QED
      BY <1>3, <2>1, <2>2, <3>1, <3>2 DEF Recorded, Removing, Late, Listings, Inventory
  <2>4. Bound'
    BY <1>1, <1>3, <2>1 DEF Cycled, Bound, Identified, Removing, Constant
  <2> QED
    BY <2>1, <2>3, <2>4 DEF Cycled
<1>4. CASE Uninstall
  <2>1. CASE Passed("uninstall", "list after uninstall", "uninstall")
    BY <1>3, <2>1 DEF Removing
  <2>2. CASE Failed("uninstall", "uninstall")
    BY <1>2, <2>2 DEF Removing
  <2> QED
    BY <1>4, <2>1, <2>2 DEF Uninstall, CommandFails
<1>5. CASE ListAgain
  <2>1. CASE /\ Passed("list after uninstall", "verify uninstall", "list after uninstall")
             /\ listed' \in Listings /\ UNCHANGED plugin
    BY <1>3, <2>1 DEF Removing
  <2>2. CASE Failed("list after uninstall", "list after uninstall")
    BY <1>2, <2>2 DEF Removing
  <2> QED
    BY <1>5, <2>1, <2>2 DEF ListAgain, CommandFails
<1>6. CASE VerifyUninstall
  <2>1. CASE listed \in {"absent", "vague"}
    <3>1. /\ Passed("verify uninstall", "cycle over", "verify uninstall")
          /\ UNCHANGED <<plugin, listed>>
      BY <1>6, <2>1 DEF VerifyUninstall
    <3>2. listed \in Listings
      BY <3>1 DEF Cycled, Recorded, Passed, Step
    <3>3. listed = "vague" \/ plugin = None
      BY <2>1, <3>2 DEF Listings, Inventory
    <3> QED
      BY <1>3, <3>1, <3>3 DEF Removing
  <2>2. CASE listed \notin {"absent", "vague"}
    <3>1. Failed("verify uninstall", "verify uninstall")
      BY <1>6, <2>2 DEF VerifyUninstall
    <3> QED
      BY <1>2, <3>1 DEF Removing
  <2> QED
    BY <2>1, <2>2
<1> QED
  BY <1>4, <1>5, <1>6

\* Before the cycle and after it.
LEMMA AroundCycled ==
  ASSUME Cycled,
         \/ StartGate \/ GateEnds \/ CodexSchema \/ ClaudeSchema \/ BeginHost
         \/ EndCycle \/ Crash \/ NextHost \/ Finish
  PROVE  Cycled'
<1>1. ASSUME NEW from \in Early \cup {"host"},
             NEW to \in Early \cup {"host", "identity", "next host"}, Step(from, to),
             past' = past \/ past' = {package}, UNCHANGED <<steps, failed>>
      PROVE  Cycled'
  <2>1. /\ "inspect installed files" \notin steps' /\ "verify uninstall" \notin steps'
        /\ failed' = None
    BY <1>1 DEF Step, Cycled, Recorded, Early, Late, Removing
  <2>2. to \notin Removing \cup {"cycle over", "inspect", "commit"} /\ to \notin Identified
    BY DEF Early, Removing, Identified
  <2> QED
    BY <1>1, <2>1, <2>2, PlainCycled
<1>2. ASSUME NEW from, NEW to \in {"next host", "crashed", "finished"}, Step(from, to),
             UNCHANGED history
      PROVE  Cycled'
  <2>1. to \in Late /\ to \notin Removing \cup {"cycle over", "inspect", "commit"}
        /\ to \notin Identified /\ past' = past
    BY <1>2 DEF Late, Removing, Identified, history
  <2> QED
    BY <1>2, <2>1, PlainCycled
<1>3. CASE StartGate
  <2>1. UNCHANGED <<past, steps, failed>> /\ \E to \in {"gating", "codex schema"} : Step("gate", to)
    BY <1>3 DEF StartGate, history, cycleVars
  <2> QED
    BY <1>1, <2>1 DEF Early
<1>4. CASE GateEnds
  BY <1>1, <1>4 DEF GateEnds, history, cycleVars, Early
<1>5. CASE CodexSchema \/ ClaudeSchema
  <2>1. UNCHANGED <<past, steps, failed>>
    BY <1>5 DEF CodexSchema, ClaudeSchema, history, cycleVars
  <2>2. Step("codex schema", "claude schema") \/ Step("claude schema", "host")
    BY <1>5 DEF CodexSchema, ClaudeSchema
  <2> QED
    BY <1>1, <2>1, <2>2 DEF Early
<1>6. CASE BeginHost
  <2>1. past' = {package} /\ UNCHANGED <<steps, failed>>
    BY <1>6 DEF BeginHost, cycleVars
  <2>2. CASE Step("host", "plain marketplace") /\ ~options.smoke
    <3>1. /\ "inspect installed files" \notin steps' /\ "verify uninstall" \notin steps'
          /\ failed' = None
      BY <2>1, <2>2 DEF Step, Cycled, Recorded, Late, Removing
    <3>2. "plain marketplace" \notin Removing \cup {"cycle over", "inspect"}
      BY DEF Removing
    <3> QED
      BY <2>1, <2>2, <3>1, <3>2, PlainCycled
  <2>3. CASE \E to \in {"identity", "next host"} : Step("host", to)
    BY <1>1, <2>1, <2>3
  <2> QED
    BY <1>6, <2>2, <2>3 DEF BeginHost
<1>7. CASE EndCycle \/ Crash \/ Finish
  <2>1. UNCHANGED history
    BY <1>7 DEF EndCycle, Crash, Finish
  <2>2. \E from, to : Step(from, to) /\ to \in {"next host", "crashed", "finished"}
    BY <1>7 DEF EndCycle, Crash, Finish
  <2> QED
    BY <1>2, <2>1, <2>2
<1>8. CASE NextHost
  <2>1. Step("next host", "host") /\ steps' = {} /\ failed' = None /\ past' = past
    BY <1>8 DEF NextHost, history
  <2>2. "host" \notin Removing \cup {"cycle over", "inspect", "commit"} /\ "host" \notin Identified
    BY DEF Removing, Identified
  <2> QED
    BY <2>1, <2>2, PlainCycled
<1> QED
  BY <1>3, <1>4, <1>5, <1>6, <1>7, <1>8

\* What is read of the package before the cycle.
LEMMA ReadCycled ==
  ASSUME Cycled, ReadPayload \/ ReadStatus \/ ReadCommit \/ ReadTree \/ PlainMarketplace
  PROVE  Cycled'
<1>1. UNCHANGED <<history, past, steps, failed>>
  BY DEF ReadPayload, ReadStatus, ReadCommit, ReadTree, PlainMarketplace, cycleVars, history
<1>2. ASSUME NEW from, NoReceipt(from) PROVE Cycled'
  <2>1. "next host" \in Late /\ "next host" \notin Removing \cup {"cycle over", "inspect", "commit"}
        /\ "next host" \notin Identified
    BY DEF Late, Removing, Identified
  <2>2. Step(from, "next host")
    BY <1>2 DEF NoReceipt
  <2> QED
    BY <1>1, <2>1, <2>2, PlainCycled
<1>3. ASSUME NEW from \in {"identity", "status", "commit", "tree", "plain marketplace"},
             NEW to \in {"status", "commit", "tree", "plain marketplace", "verify source"},
             Step(from, to),
             options.smoke /\ to = "commit" => head \in past',
             options.smoke /\ to \in Identified => identity'.commit \in past'
      PROVE  Cycled'
  <2>1. /\ "inspect installed files" \notin steps' /\ "verify uninstall" \notin steps'
        /\ failed' = None
    BY <1>1, <1>3 DEF Step, Cycled, Recorded, Late, Removing
  <2>2. to \notin Removing \cup {"cycle over", "inspect"}
    BY DEF Removing
  <2> QED
    BY <1>1, <1>3, <2>1, <2>2, PlainCycled
<1>4. CASE Step("identity", "status")
  <2>1. "status" \notin Identified
    BY DEF Identified, Removing
  <2> QED
    BY <1>3, <1>4, <2>1
<1>5. CASE Step("status", "commit") /\ package = head
  <2>1. "commit" \notin Identified /\ head \in past'
    BY <1>1, <1>5 DEF Identified, Removing, Cycled, Watched
  <2> QED
    BY <1>3, <1>5, <2>1
<1>6. CASE Step("commit", "tree") /\ identity'.commit = head
  <2>1. options.smoke => identity'.commit \in past'
    BY <1>1, <1>6 DEF Step, Cycled, Bound
  <2> QED
    BY <1>3, <1>6, <2>1
<1>7. CASE Step("tree", "plain marketplace") /\ identity'.commit = identity.commit
  <2>1. options.smoke => identity'.commit \in past'
    BY <1>1, <1>7 DEF Step, Cycled, Bound, Identified
  <2> QED
    BY <1>3, <1>7, <2>1
<1>8. CASE Step("plain marketplace", "verify source") /\ UNCHANGED identity
  <2>1. options.smoke => identity'.commit \in past'
    BY <1>1, <1>8 DEF Step, Cycled, Bound, Identified
  <2> QED
    BY <1>3, <1>8, <2>1
<1>9. CASE ReadPayload \/ ReadStatus \/ PlainMarketplace
  BY <1>2, <1>4, <1>5, <1>8, <1>9 DEF ReadPayload, ReadStatus, PlainMarketplace
<1>10. CASE ReadCommit
  BY <1>6, <1>10 DEF ReadCommit
<1>11. CASE ReadTree
  <2>1. CASE Step("tree", "plain marketplace")
    <3>1. identity' = [payload |-> identity.payload, commit |-> identity.commit,
                       tree |-> head]
      BY <1>11, <2>1 DEF ReadTree, NoReceipt, Step
    <3> QED
      BY <1>7, <2>1, <3>1
  <2>2. CASE NoReceipt("tree")
    BY <1>2, <2>2
  <2> QED
    BY <1>11, <2>1, <2>2 DEF ReadTree
<1> QED
  BY <1>9, <1>10, <1>11

\* The steps of the cycle up to the installation.
LEMMA AddCycled ==
  ASSUME Cycled, VerifySource \/ AddMarketplace \/ Install
  PROVE  Cycled'
<1>1. UNCHANGED <<history, identity, installed>>
  BY DEF VerifySource, AddMarketplace, Install
<1>2. ASSUME NEW from \in {"verify source", "marketplace", "install"}, NEW step \in StepName,
             Failed(from, step)
      PROVE  Cycled'
  <2>1. from \in Identified \ {"cycle over"}
    BY DEF Identified
  <2> QED
    BY <1>1, <1>2, <2>1, FailedCycled
<1>3. ASSUME NEW from \in {"verify source", "marketplace", "install"},
             NEW to \in {"marketplace", "install", "list"},
             NEW step \in {"plain marketplace", "marketplace", "install"}, Passed(from, to, step)
      PROVE  Cycled'
  <2>1. from \in Identified \ Late /\ to \in Identified \ (Late \cup {"inspect"})
    BY DEF Identified, Late, Removing
  <2> QED
    BY <1>1, <1>3, <2>1, PassedCycled
<1>4. CASE VerifySource
  BY <1>2, <1>3, <1>4 DEF VerifySource, StepName
<1>5. CASE AddMarketplace
  BY <1>2, <1>3, <1>5 DEF AddMarketplace, CommandFails, StepName
<1>6. CASE Install
  BY <1>2, <1>3, <1>6 DEF Install, CommandFails, StepName
<1> QED
  BY <1>4, <1>5, <1>6

LEMMA StepCycled == Cycled /\ [Next]_vars => Cycled'
BY AroundCycled, ReadCycled, AddCycled, ListCycled, InspectCycled, RemoveCycled, EditCycled,
   AsideCycled DEF Next, main

\* For every package, every number of edits and whatever the hosts do: a host whose
\* row says PASS had the bytes of an unchanged package inspected, in a plugin that is
\* enabled and in its clean home yet, or after a smoke is gone, unless the list after
\* the uninstall was vague.
THEOREM PassesAreEarned == Spec => PassIsEarned
<1>1. Rowed /\ Cycled =>
        [EndCycle /\ rows'[host] = "PASS" =>
           /\ past = {package} => installed = package
           /\ IF options.smoke THEN listed # "vague" => plugin = None
              ELSE plugin # None /\ plugin.usable /\ plugin.payload = installed]_vars
  <2> SUFFICES ASSUME Cycled, Rowed, EndCycle, rows'[host] = "PASS"
               PROVE  /\ past = {package} => installed = package
                      /\ IF options.smoke THEN listed # "vague" => plugin = None
                         ELSE InstalledHere
    BY DEF InstalledHere
  <2>1. failed = None
    BY DEF EndCycle, InstallRow, Row, Rowed, Capability
  <2> QED
    BY <2>1 DEF EndCycle, Step, Cycled, Recorded
<1> QED
  BY <1>1, InitGated, InitRowed, InitCycled, StepGated, StepRowed, StepCycled, PTL
  DEF Spec, PassIsEarned

\* And a receipt that is accepted later is of the bytes that were installed, unless
\* the package was changed and changed back; what it says to be gone is gone, unless
\* the list after the uninstall was vague.
THEOREM ReceiptsAreTrue == Spec => ReceiptIsTrue
<1>1. Cycled => [EndCycle /\ options.smoke =>
                   LET r == receipt'
                   IN /\ r.uninstall = "PASS" /\ listed # "vague" => plugin = None
                      /\ r.clean_install = "PASS" /\ Accepted(r) /\ ~returned =>
                           r.installed_files = r.identity.payload]_vars
  <2> SUFFICES ASSUME Cycled, EndCycle, options.smoke
               PROVE  /\ receipt'.uninstall = "PASS" /\ listed # "vague" => plugin = None
                      /\ receipt'.clean_install = "PASS" /\ Accepted(receipt') /\ ~returned =>
                           receipt'.installed_files = receipt'.identity.payload
    OBVIOUS
  <2>1. /\ at = "cycle over"
        /\ receipt' = [identity |-> identity, clean_install |-> clean_status,
                       uninstall |-> uninstall_status, installed_files |-> installed]
    BY DEF EndCycle, Step
  <2>2. receipt'.uninstall = "PASS" /\ listed # "vague" => plugin = None
    BY <2>1 DEF uninstall_status, Cycled, Recorded
  <2>3. ASSUME receipt'.clean_install = "PASS", Accepted(receipt'), ~returned
        PROVE  receipt'.installed_files = receipt'.identity.payload
    <3>1. "inspect installed files" \in steps
      BY <2>1, <2>3 DEF clean_status
    <3>2. identity.payload = package /\ identity.commit = package
      BY <2>1, <2>3 DEF Accepted
    <3> QED
      BY <2>1, <2>3, <3>1, <3>2 DEF Cycled, Bound, Constant
  <2> QED
    BY <2>2, <2>3
<1> QED
  BY <1>1, InitCycled, StepCycled, PTL DEF Spec, ReceiptIsTrue

-----------------------------------------------------------------------------
(* The slots, and what a cycle has recorded when it comes to a place.      *)

Slotted == IsFiniteSet(holders) /\ Cardinality(holders) <= Slots

LEMMA SlotFreed ==
  ASSUME Slotted, NEW p
  PROVE  IsFiniteSet(holders \ {p}) /\ Cardinality(holders \ {p}) <= Slots
<1>1. /\ IsFiniteSet(holders \ {p})
      /\ Cardinality(holders \ {p}) = IF p \in holders THEN Cardinality(holders) - 1
                                      ELSE Cardinality(holders)
  BY FS_RemoveElement DEF Slotted
<1>2. Cardinality(holders) \in Nat /\ Slots \in Nat
  BY FS_CardinalityType, AdmissionAssumption DEF Slotted
<1> QED
  BY <1>1, <1>2 DEF Slotted

LEMMA SlotTaken ==
  ASSUME Slotted, Cardinality(holders) < Slots, NEW p
  PROVE  IsFiniteSet(holders \cup {p}) /\ Cardinality(holders \cup {p}) <= Slots
<1>1. /\ IsFiniteSet(holders \cup {p})
      /\ Cardinality(holders \cup {p}) = IF p \in holders THEN Cardinality(holders)
                                         ELSE Cardinality(holders) + 1
  BY FS_AddElement DEF Slotted
<1>2. Cardinality(holders) \in Nat /\ Slots \in Nat
  BY FS_CardinalityType, AdmissionAssumption DEF Slotted
<1> QED
  BY <1>1, <1>2 DEF Slotted

LEMMA StepSlotted == Slotted /\ [Next]_vars => Slotted'
<1> SUFFICES ASSUME Slotted, [Next]_vars PROVE Slotted'
  OBVIOUS
<1>1. CASE \E p, code : Leave(p, code)
  BY <1>1, SlotFreed DEF Leave, Slotted
<1>2. CASE UNCHANGED holders
  BY <1>2 DEF Slotted
<1>3. CASE Admission
  <2>1. PICK p \in Process : Enter(p) \/ GiveSlot(p) \/ RunChecks(p)
    BY <1>3 DEF Admission, AdmissionNext
  <2>2. CASE GiveSlot(p)
    BY <2>2, SlotTaken DEF GiveSlot, Slotted
  <2>3. CASE Enter(p) \/ RunChecks(p)
    BY <1>1, <1>2, <2>3 DEF Enter, enter_host_admission, Proceed, RunChecks
  <2> QED
    BY <2>1, <2>2, <2>3
<1>4. CASE StartGate \/ GateEnds \/ Crash \/ Finish
  BY <1>1, <1>2, <1>4 DEF StartGate, GateEnds, Crash, Finish, admissionVars
<1>5. CASE Edit \/ Commit \/ UNCHANGED vars
  BY <1>2, <1>5 DEF Edit, Commit, vars, admissionVars
<1> QED
  BY <1>2, <1>3, <1>4, <1>5, CycleSteps DEF Next, main, admissionVars

\* Where main is when the cycle is over, and where it takes the steps of one.
Over == {"cycle over", "next host", "crashed", "finished"}

Inside == {"verify source", "marketplace", "install", "list", "inspect"} \cup Removing

Plugins == {None} \cup [payload : Tree, usable : BOOLEAN]

\* A step is recorded only when main has left its place.
Behind ==
  /\ "verify uninstall" \in steps => at \in Over
  /\ "list after uninstall" \in steps => at \in Over \cup {"verify uninstall"}
  /\ "uninstall" \in steps => at \in Over \cup (Removing \ {"uninstall"})
  /\ "inspect installed files" \in steps => at \in Over \cup Removing
  /\ "list" \in steps => at \in Over \cup Removing \cup {"inspect"}
  /\ "install" \in steps => at \in Over \cup Removing \cup {"inspect", "list"}
  /\ "marketplace" \in steps =>
       at \in Over \cup Removing \cup {"inspect", "list", "install"}
  /\ "plain marketplace" \in steps => at \in Over \cup (Inside \ {"verify source"})

\* The receipt is there from the end of a smoke on.
Placed ==
  /\ source \in Tree \cup {None} /\ plugin \in Plugins /\ installed \in Tree \cup {None}
  /\ at \in Inside => source \in Tree
  /\ receipt # None => options.smoke /\ at \in {"next host", "finished"}
  /\ Behind
  /\ failed # None => at \in Over /\ failed \notin steps

LEMMA TornTrees == Torn \subseteq Tree
BY DEF Torn

\* What main does before and after the steps of the cycle.
LEMMA AsidePlaced ==
  ASSUME Placed, UNCHANGED <<options, plugin, installed, steps, failed>>,
         source' \in Tree \cup {None}, at' \in Inside => source' \in Tree,
         at' \in Over \/ at \notin Inside \cup Over,
         receipt' # None => options.smoke /\ at' \in {"next host", "finished"}
  PROVE  Placed'
<1>1. Behind'
  BY DEF Placed, Behind, Inside, Over, Removing
<1> QED
  BY <1>1 DEF Placed

LEMMA BehindFailed ==
  ASSUME Placed, NEW step, NEW from \in Inside, Failed(from, step),
         step \notin steps, UNCHANGED <<source, receipt>>,
         plugin' \in Plugins, installed' \in Tree \cup {None}
  PROVE  Placed'
<1>1. /\ at = from /\ at' = "cycle over" /\ failed' = step /\ UNCHANGED <<options, steps>>
  BY DEF Failed, Step
<1>2. Behind'
  BY <1>1 DEF Placed, Behind, Over
<1>3. receipt = None
  BY <1>1 DEF Placed, Inside, Removing
<1> QED
  BY <1>1, <1>2, <1>3 DEF Placed, Over, Inside, Removing

LEMMA BehindPassed ==
  ASSUME Placed, NEW step, NEW from \in Inside, NEW to \in Inside \cup Over,
         Passed(from, to, step), Behind', UNCHANGED <<source, receipt>>,
         plugin' \in Plugins, installed' \in Tree \cup {None}
  PROVE  Placed'
<1>1. /\ at = from /\ at' = to /\ steps' = steps \cup {step} /\ UNCHANGED <<options, failed>>
  BY DEF Passed, Step
<1>2. failed = None /\ receipt = None /\ source \in Tree
  BY <1>1 DEF Placed, Inside, Removing, Over
<1> QED
  BY <1>1, <1>2 DEF Placed

\* A step of the cycle is taken at one place, from which main goes on or ends it.
Takes(from, to, step) ==
  \/ from = "verify source" /\ to = "marketplace" /\ step = "plain marketplace"
  \/ from = "marketplace" /\ to = "install" /\ step = "marketplace"
  \/ from = "install" /\ to = "list" /\ step = "install"
  \/ from = "list" /\ to = "inspect" /\ step = "list"
  \/ /\ from = "inspect" /\ to \in {"uninstall", "cycle over"}
     /\ step = "inspect installed files"
  \/ from = "uninstall" /\ to = "list after uninstall" /\ step = "uninstall"
  \/ /\ from = "list after uninstall" /\ to = "verify uninstall"
     /\ step = "list after uninstall"
  \/ from = "verify uninstall" /\ to = "cycle over" /\ step = "verify uninstall"

LEMMA StepPlacedAt ==
  ASSUME Placed, UNCHANGED <<source, receipt>>,
         plugin' \in Plugins, installed' \in Tree \cup {None},
         NEW from, NEW to, NEW step,
         Takes(from, to, step),
         Passed(from, to, step) \/ Failed(from, step)
  PROVE  Placed'
<1>1. from \in Inside /\ to \in Inside \cup Over
  BY DEF Takes, Inside, Over, Removing
<1>2. at = from
  BY DEF Passed, Failed, Step
<1>3. CASE Failed(from, step)
  <2>1. step \notin steps
    BY <1>2 DEF Placed, Takes, Behind, Over, Inside, Removing
  <2> QED
    BY <1>1, <1>3, <2>1, BehindFailed
<1>4. CASE Passed(from, to, step)
  <2>1. at' = to /\ steps' = steps \cup {step}
    BY <1>4 DEF Passed, Step
  <2>2. Behind'
    BY <1>2, <2>1 DEF Placed, Takes, Behind, Over, Inside, Removing
  <2> QED
    BY <1>1, <1>4, <2>2, BehindPassed
<1> QED
  BY <1>3, <1>4

LEMMA CyclePlaced ==
  ASSUME Placed,
         \/ VerifySource \/ AddMarketplace \/ Install \/ List \/ Inspect
         \/ Uninstall \/ ListAgain \/ VerifyUninstall
  PROVE  Placed'
<1>1. UNCHANGED <<source, receipt>>
  BY DEF VerifySource, AddMarketplace, Install, List, Inspect, Uninstall, ListAgain,
         VerifyUninstall, matrixVars
<1>2. plugin \in Plugins /\ installed \in Tree \cup {None}
  BY DEF Placed
<1> DEFINE taken == \E from, to, step : /\ Takes(from, to, step)
                                        /\ Passed(from, to, step) \/ Failed(from, step)
<1>3. CASE VerifySource \/ AddMarketplace \/ List \/ ListAgain \/ VerifyUninstall
  <2>1. UNCHANGED <<plugin, installed>>
    BY <1>3 DEF VerifySource, AddMarketplace, List, ListAgain, VerifyUninstall
  <2>2. taken
    BY <1>3
    DEF VerifySource, AddMarketplace, List, ListAgain, VerifyUninstall, CommandFails, Takes
  <2> QED
    BY <1>1, <1>2, <2>1, <2>2, StepPlacedAt
<1>4. CASE Install
  <2>1. at = "install"
    BY <1>4 DEF Install, Passed, CommandFails, Failed, Step
  <2>2. source \in Tree
    BY <2>1 DEF Placed, Inside
  <2>3. [payload |-> source, usable |-> TRUE] \in [payload : Tree, usable : BOOLEAN]
    BY <2>2
  <2>4. plugin' \in Plugins /\ UNCHANGED installed
    BY <1>4, <2>3 DEF Install, Plugins
  <2>5. taken
    BY <1>4 DEF Install, CommandFails, Takes
  <2> QED
    BY <1>1, <1>2, <2>4, <2>5, StepPlacedAt
<1>5. CASE Inspect
  <2>1. UNCHANGED plugin /\ installed' \in Tree \cup {None}
    BY <1>2, <1>5, TornTrees DEF Inspect, Plugins
  <2>2. taken
    BY <1>5 DEF Inspect, Takes
  <2> QED
    BY <1>1, <1>2, <2>1, <2>2, StepPlacedAt
<1>6. CASE Uninstall
  <2>1. plugin' \in Plugins /\ UNCHANGED installed
    BY <1>2, <1>6 DEF Uninstall, Plugins
  <2>2. taken
    BY <1>6 DEF Uninstall, CommandFails, Takes
  <2> QED
    BY <1>1, <1>2, <2>1, <2>2, StepPlacedAt
<1> QED
  BY <1>3, <1>4, <1>5, <1>6

LEMMA ReadPlaced ==
  ASSUME Placed, ReadPayload \/ ReadStatus \/ ReadCommit \/ ReadTree \/ PlainMarketplace
  PROVE  Placed'
<1>1. UNCHANGED <<options, plugin, installed, steps, failed, receipt>>
  BY DEF ReadPayload, ReadStatus, ReadCommit, ReadTree, PlainMarketplace, NoReceipt, Step,
         cycleVars, matrixVars
<1>2. /\ at \in {"identity", "status", "commit", "tree", "plain marketplace"}
      /\ at' \in {"status", "commit", "tree", "plain marketplace", "verify source", "next host"}
      /\ at' = "verify source" => source' \in Tree
      /\ source' \in Tree \cup {None}
  <2>1. CASE PlainMarketplace
    BY <2>1, TornTrees DEF PlainMarketplace, NoReceipt, Step, Placed
  <2>2. CASE ReadPayload \/ ReadStatus \/ ReadCommit \/ ReadTree
    BY <2>2 DEF ReadPayload, ReadStatus, ReadCommit, ReadTree, NoReceipt, Step, cycleVars,
                Placed
  <2> QED
    BY <2>1, <2>2
<1>3. at \notin Inside \cup Over /\ (at' \in Inside => at' = "verify source")
  BY <1>2 DEF Inside, Over, Removing
<1>4. receipt = None
  BY <1>2 DEF Placed
<1> QED
  BY <1>1, <1>2, <1>3, <1>4, AsidePlaced

LEMMA AroundPlaced ==
  ASSUME Placed,
         \/ StartGate \/ GateEnds \/ CodexSchema \/ ClaudeSchema \/ BeginHost
         \/ EndCycle \/ Crash \/ NextHost \/ Finish
  PROVE  Placed'
<1>1. CASE StartGate \/ GateEnds \/ CodexSchema \/ ClaudeSchema \/ BeginHost
  <2>1. UNCHANGED <<options, source, plugin, installed, steps, failed, receipt>>
    BY <1>1 DEF StartGate, GateEnds, CodexSchema, ClaudeSchema, BeginHost, SchemaRow, Row,
                Step, cycleVars, matrixVars
  <2>2. /\ at \in Early \cup {"host"}
        /\ at' \in Early \cup {"host", "next host", "identity", "plain marketplace"}
    BY <1>1 DEF StartGate, GateEnds, CodexSchema, ClaudeSchema, BeginHost, Step, Early
  <2>3. at \notin Inside \cup Over /\ at' \notin Inside
    BY <2>2 DEF Early, Inside, Over, Removing
  <2>4. receipt = None
    BY <2>3 DEF Placed, Over
  <2> QED
    BY <2>1, <2>3, <2>4, AsidePlaced DEF Placed
<1>2. CASE EndCycle \/ Crash \/ Finish
  <2>1. UNCHANGED <<options, source, plugin, installed, steps, failed>>
    BY <1>2 DEF EndCycle, Crash, Finish, Step, cycleVars
  <2>2. at' \in {"next host", "crashed", "finished"}
    BY <1>2 DEF EndCycle, Crash, Finish, Step
  <2>3. at' \in Over /\ at' \notin Inside
    BY <2>2 DEF Over, Inside, Removing
  <2>4. receipt' # None => options.smoke /\ at' \in {"next host", "finished"}
    BY <1>2 DEF EndCycle, Crash, Finish, Step, matrixVars, Placed
  <2> QED
    BY <2>1, <2>3, <2>4, AsidePlaced DEF Placed
<1>3. CASE NextHost
  <2>1. /\ at' = "host" /\ source' = None /\ plugin' = None /\ installed' = None
        /\ steps' = {} /\ failed' = None /\ receipt' = None
    BY <1>3 DEF NextHost, Step
  <2>2. "host" \notin Inside
    BY DEF Inside, Removing
  <2> QED
    BY <2>1, <2>2 DEF Placed, Plugins, Behind
<1> QED
  BY <1>1, <1>2, <1>3

LEMMA StepPlaced == Placed /\ [Next]_vars => Placed'
<1> SUFFICES ASSUME Placed, [Next]_vars PROVE Placed'
  OBVIOUS
<1>1. CASE Edit \/ Commit \/ Admission \/ UNCHANGED vars
  <2>1. UNCHANGED <<options, at, source, plugin, installed, steps, failed, receipt>>
    BY <1>1 DEF Edit, Commit, Admission, matrixRun, vars, cycleVars, matrixVars
  <2> QED
    BY <2>1 DEF Placed, Behind
<1> QED
  BY <1>1, CyclePlaced, ReadPlaced, AroundPlaced DEF Next, main

\* For every set of processes and every number of slots: no more slots are held than
\* there are; every capability has its row when main ends; a receipt comes of a smoke
\* whose host has its row; and no step is recorded both as passed and as the one
\* that failed.
THEOREM TypeCorrect == Spec => []TypeOK
<1>1. Gated /\ Rowed /\ Slotted /\ Placed => TypeOK
  <2> SUFFICES ASSUME Gated, Rowed, Slotted, Placed PROVE TypeOK
    OBVIOUS
  <2>1. None \notin Status
    BY HostsAssumption DEF Status
  <2>2. ASSUME at = "finished", NEW c \in Capability PROVE rows[c] # None
    <3>1. host = "claude" /\ ~Open(c)
      BY <2>2 DEF Rowed, Open, Early
    <3> QED
      BY <2>1, <3>1 DEF Rowed
  <2>3. ASSUME receipt # None PROVE options.smoke /\ rows[host] # None
    <3>1. options.smoke /\ at \in {"next host", "finished"}
      BY <2>3 DEF Placed
    <3>2. host \in Capability /\ ~Open(host)
      BY <3>1 DEF Rowed, Open, Early, Host, Capability
    <3> QED
      BY <2>1, <3>1, <3>2 DEF Rowed
  <2> QED
    BY <2>2, <2>3 DEF TypeOK, Gated, Rowed, Slotted, Placed, Stage
<1>2. Init => Gated /\ Rowed /\ Slotted /\ Placed
  <2> SUFFICES ASSUME Init PROVE Slotted /\ Placed
    BY InitGated, InitRowed
  <2>1. Slotted
    <3>1. holders = {}
      BY DEF Init, AdmissionInit
    <3> QED
      BY <3>1, FS_EmptySet, AdmissionAssumption DEF Slotted
  <2>2. Placed
    <3>1. /\ at = "gate" /\ source = None /\ plugin = None /\ installed = None
          /\ steps = {} /\ failed = None /\ receipt = None
      BY DEF Init
    <3>2. at \notin Inside
      BY <3>1 DEF Inside, Removing
    <3> QED
      BY <3>1, <3>2 DEF Placed, Plugins, Behind
  <2> QED
    BY <2>1, <2>2
<1>3. Gated /\ Rowed /\ Slotted /\ Placed /\ [Next]_vars
        => (Gated /\ Rowed /\ Slotted /\ Placed)'
  BY StepGated, StepRowed, StepSlotted, StepPlaced
<1> QED
  BY <1>1, <1>2, <1>3, PTL DEF Spec
=============================================================================
