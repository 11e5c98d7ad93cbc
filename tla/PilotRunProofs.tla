--------------------------- MODULE PilotRunProofs ---------------------------
(***************************************************************************)
(* Theorems about PilotRun for every number of runs that share their       *)
(* output, every fixture and any bounds, with their proofs.                *)
(*                                                                         *)
(* The argument: only one run at a time can be between opening the capture *)
(* record and finishing it (OneWriter), so a run whose call to capture     *)
(* returned owns the record (Owned), and a workspace is removed only when  *)
(* no session was noted or the run owns the record.  A driver writes its   *)
(* three files in order, each with open("x"), and comes to the next one    *)
(* only when the one before is its own and whole (Trailed).  A session     *)
(* without descendants is over before capture begins, so both passes read  *)
(* the fixture as it stays (Silent, Reads).                                *)
(***************************************************************************)
EXTENDS PilotRun, EvalCaptureProofs

---------------------------------------------------------------------------
(* Types.                                                                  *)

\* The driver leaves every variable in its type.
LEMMA StepTyped == TypeOK /\ [Next]_vars => TypeOK'
<1> SUFFICES ASSUME TypeOK, [Next]_vars PROVE TypeOK'
  OBVIOUS
<1> USE DEF TypeOK, To, flags, outputs, Before, With, Over, Output, Resume
<1>1. ASSUME NEW r \in Run,
             \/ Begin(r) \/ MakeWorkspace(r) \/ MarkStarted(r) \/ WaitReturns(r)
             \/ WaitTimesOut(r) \/ StopReturns(r) \/ StopTimesOut(r)
             \/ OpenSidecar(r) \/ WriteSidecar(r) \/ MarkRetained(r) \/ Enrich(r)
             \/ OpenDestination(r) \/ WriteDestination(r) \/ Finally(r)
      PROVE  TypeOK'
  <2>1. CaptureTypeOK'
    BY <1>1 DEF captureVars, CaptureTypeOK, Begin, MakeWorkspace, MarkStarted,
       WaitReturns, WaitTimesOut, StopReturns, StopTimesOut, OpenSidecar,
       WriteSidecar, MarkRetained, Enrich, OpenDestination, WriteDestination, Finally
  <2>2. CASE Begin(r) \/ MakeWorkspace(r) \/ MarkStarted(r) \/ WaitReturns(r) \/ WaitTimesOut(r)
    BY <2>1, <2>2 DEF Begin, MakeWorkspace, MarkStarted, WaitReturns, WaitTimesOut
  <2>3. CASE StopReturns(r) \/ StopTimesOut(r) \/ MarkRetained(r) \/ Enrich(r)
    BY <2>1, <2>3 DEF StopReturns, StopTimesOut, MarkRetained, Enrich
  <2>4. CASE Finally(r)
    BY <2>1, <2>4 DEF Finally
  <2>5. [run |-> r, whole |-> FALSE] \in Output /\ [run |-> r, whole |-> TRUE] \in Output
    OBVIOUS
  <2>6. CASE OpenSidecar(r) \/ WriteSidecar(r)
    <3>1. sidecar' \in Output \cup {Absent}
      BY <2>5, <2>6 DEF OpenSidecar, WriteSidecar
    <3>2. at' \in [Run -> Before \cup With \cup Over \cup {"finally"}]
      BY <2>6 DEF OpenSidecar, WriteSidecar
    <3> QED BY <2>1, <2>6, <3>1, <3>2 DEF OpenSidecar, WriteSidecar
  <2>7. CASE OpenDestination(r) \/ WriteDestination(r)
    <3>1. destination' \in Output \cup {Absent}
      BY <2>5, <2>7 DEF OpenDestination, WriteDestination
    <3>2. at' \in [Run -> Before \cup With \cup Over \cup {"finally"}]
      BY <2>7 DEF OpenDestination, WriteDestination
    <3> QED BY <2>1, <2>7, <3>1, <3>2 DEF OpenDestination, WriteDestination
  <2> QED BY <1>1, <2>2, <2>3, <2>4, <2>6, <2>7
<1>2. ASSUME NEW r \in Run, Setup(r) \/ Popen(r)
      PROVE  TypeOK'
  <2>1. CaptureTypeOK'
    BY <1>2, DriverAssumption DEF CaptureTypeOK, Setup, Popen, SessionStarts, callVars
  <2> QED BY <1>2, <2>1 DEF Setup, Popen
<1>3. ASSUME NEW r \in Run, CallPrepare(r) \/ CallCapture(r)
      PROVE  TypeOK'
  <2>1. CaptureTypeOK'
    <3>1. CASE CallPrepare(r)
      BY <3>1, CallsTyped DEF CallPrepare
    <3>2. CASE CallCapture(r)
      <4>1. trace[r] \in BOOLEAN /\ TerminalState(r) \in Terminal
        BY DEF CaptureTypeOK, TerminalState, Terminal
      <4> QED BY <3>2, <4>1, CallsTyped DEF CallCapture
    <3> QED BY <1>3, <3>1, <3>2
  <2> QED BY <1>3, <2>1 DEF CallPrepare, CallCapture
<1>4. ASSUME NEW r \in Run,
             Resume(r, "preparing", "popen") \/ Resume(r, "capturing", "retain")
      PROVE  TypeOK'
  <2>1. CaptureTypeOK'
    BY <1>4 DEF CaptureTypeOK, world, callVars, Goto
  <2> QED BY <1>4, <2>1
<1>5. ASSUME NEW r \in Run, CallStep(r) /\ UNCHANGED driverVars
      PROVE  TypeOK'
  <2>1. CaptureTypeOK'
    BY <1>5, PrepareTyped, CaptureTyped DEF CallStep
  <2> QED BY <1>5, <2>1 DEF driverVars
<1>6. ASSUME NEW r \in Run, Session(r)
      PROVE  TypeOK'
  <2>1. CaptureTypeOK'
    BY <1>6, SessionTyped DEF Session, SessionStep
  <2> QED BY <1>6, <2>1 DEF Session, driverVars
<1>7. ASSUME NEW r \in Run, Raises(r)
      PROVE  TypeOK'
  <2>1. CASE CallRaises(r) /\ UNCHANGED driverVars
    BY <2>1, RaiseTyped DEF driverVars
  <2>2. CASE ~(CallRaises(r) /\ UNCHANGED driverVars)
    <3>1. CaptureTypeOK'
      BY <1>7, <2>2 DEF Raises, CaptureTypeOK, Strikes, world, callVars
    <3>2. workspace' \in [Run -> {"none", "present", "gone"}]
      BY <1>7, <2>2 DEF Raises, MaybeRemoved
    <3> QED BY <1>7, <2>2, <3>1, <3>2 DEF Raises
  <2> QED BY <2>1, <2>2
<1>8. ASSUME NEW r \in Run, Kill(r)
      PROVE  TypeOK'
  <2>1. CaptureTypeOK'
    BY <1>8 DEF Kill, CaptureTypeOK, Strikes, world, callVars, Goto
  <2> QED BY <1>8, <2>1 DEF Kill, MaybeRemoved
<1>9. CASE UNCHANGED vars
  BY <1>9 DEF vars, captureVars, driverVars, CaptureTypeOK
<1> QED BY <1>1, <1>2, <1>3, <1>4, <1>5, <1>6, <1>7, <1>8, <1>9 DEF Next, DriverStep

\* The initial states are well typed.
LEMMA InitTypeOK == Init => TypeOK
<1> SUFFICES ASSUME Init PROVE TypeOK
  OBVIOUS
<1>1. tree \in [Run -> Tree]
  BY DEF Init, NoFiles, Tree
<1>2. CaptureTypeOK
  BY <1>1, InitTyped DEF Init
<1> QED BY <1>2 DEF Init, TypeOK, Before

\* Every reachable state is well typed: in particular a record holds text
\* artifacts only (capture, line 305).
THEOREM TypeCorrect == Spec => []TypeOK
BY InitTypeOK, StepTyped, PTL DEF Spec

---------------------------------------------------------------------------
(* The inductive invariant.                                                *)

\* main stands at the call that is going on.
Placed ==
  \A r \in Run :
    /\ job[r] \in Prepares => at[r] = "preparing"
    /\ job[r] \in Captures => at[r] = "capturing"
    /\ job[r] \in Outcome => at[r] \in {"preparing", "capturing"}

\* A run whose call to capture returned owns the record.
Owned ==
  \A r \in Run :
    \/ at[r] = "capturing" /\ job[r] = "returned"
    \/ at[r] = "retain"
    \/ evidenceRetained[r]
    => recordOwner = r

\* Inside the with block the workspace is there.
Housed == \A r \in Run : at[r] \in With \cup {"finally"} => workspace[r] = "present"

Inv == TypeOK /\ Placed /\ OneWriter /\ Owned /\ Housed /\ EvidenceKept

\* Nobody owns a record that is not finished, and its run owns one that is.
LEMMA OwnerIsRun ==
  ASSUME TypeOK, NEW r \in Run
  PROVE  recordOwner = r <=> Written(cap) /\ cap.run = r
BY DriverAssumption DEF recordOwner

\* A finished record stays finished, and stays its run's.
LEMMA OwnerStays ==
  ASSUME Inv, [Next]_vars, NEW r \in Run, recordOwner = r
  PROVE  recordOwner' = r
<1>1. Written(cap) /\ cap.run = r
  BY OwnerIsRun DEF Inv
<1>2. cap' = cap
  <2>1. ASSUME NEW q \in Run, CallStep(q)
        PROVE  cap' = cap
    BY <1>1, <2>1, CallMoves DEF Inv, TypeOK, OneWriter, Written
  <2>2. ASSUME NEW q \in Run, DriverStep(q), ~CallStep(q)
        PROVE  cap' = cap
    BY <2>2 DEF DriverStep, captureVars, Begin, MakeWorkspace, Setup, CallPrepare,
       PrepareCall, Resume, Popen, MarkStarted, WaitReturns, WaitTimesOut,
       StopReturns, StopTimesOut, OpenSidecar, WriteSidecar, CallCapture,
       CaptureCall, MarkRetained, Enrich, OpenDestination, WriteDestination, Finally
  <2>3. ASSUME NEW q \in Run, Session(q) \/ Raises(q) \/ Kill(q)
        PROVE  cap' = cap
    BY <2>3 DEF Session, SessionWrites, SessionSays, LeaderExits, Raises,
       CallRaises, Kill
  <2>4. CASE UNCHANGED vars
    BY <2>4 DEF vars, captureVars
  <2> QED BY <2>1, <2>2, <2>3, <2>4 DEF Next
<1> QED BY <1>1, <1>2 DEF recordOwner, Written

\* The rest of the invariant, without the last part.
LEMMA StepPlaced ==
  ASSUME Inv, [Next]_vars
  PROVE  Placed' /\ OneWriter' /\ Owned' /\ Housed'
<1> USE DEF Inv, TypeOK, Placed, OneWriter, Owned, Housed, To, With, Before, Over,
            flags, outputs
<1>1. ASSUME NEW r \in Run,
             \/ Begin(r) \/ MakeWorkspace(r) \/ MarkStarted(r) \/ WaitReturns(r)
             \/ WaitTimesOut(r) \/ StopReturns(r) \/ StopTimesOut(r)
             \/ OpenSidecar(r) \/ WriteSidecar(r) \/ MarkRetained(r) \/ Enrich(r)
             \/ OpenDestination(r) \/ WriteDestination(r) \/ Finally(r)
      PROVE  Placed' /\ OneWriter' /\ Owned' /\ Housed'
  <2>1. UNCHANGED <<job, cap>> /\ recordOwner' = recordOwner /\ job[r] \notin Prepares \cup Captures \cup Outcome
    BY <1>1 DEF captureVars, recordOwner, Written, Prepares, Captures, Outcome,
       Begin, MakeWorkspace, MarkStarted, WaitReturns, WaitTimesOut, StopReturns,
       StopTimesOut, OpenSidecar, WriteSidecar, MarkRetained, Enrich,
       OpenDestination, WriteDestination, Finally
  <2>2. \A q \in Run \ {r} : at'[q] = at[q] /\ workspace'[q] = workspace[q]
                             /\ evidenceRetained'[q] = evidenceRetained[q]
    BY <1>1 DEF Begin, MakeWorkspace, MarkStarted, WaitReturns, WaitTimesOut,
       StopReturns, StopTimesOut, OpenSidecar, WriteSidecar, MarkRetained, Enrich,
       OpenDestination, WriteDestination, Finally
  <2>3. /\ at'[r] # "retain" /\ at'[r] # "capturing"
        /\ at'[r] \in With \cup {"finally"} => workspace'[r] = "present"
        /\ evidenceRetained'[r] => evidenceRetained[r] \/ at[r] = "retain"
    <3>1. CASE \/ Begin(r) \/ MakeWorkspace(r) \/ MarkStarted(r) \/ WaitReturns(r)
               \/ WaitTimesOut(r) \/ StopReturns(r) \/ StopTimesOut(r)
      BY <3>1 DEF Begin, MakeWorkspace, MarkStarted, WaitReturns, WaitTimesOut,
         StopReturns, StopTimesOut
    <3>2. CASE \/ OpenSidecar(r) \/ WriteSidecar(r) \/ MarkRetained(r) \/ Enrich(r)
      BY <3>2 DEF OpenSidecar, WriteSidecar, MarkRetained, Enrich
    <3>3. CASE OpenDestination(r) \/ WriteDestination(r) \/ Finally(r)
      BY <3>3 DEF OpenDestination, WriteDestination, Finally
    <3> QED BY <1>1, <3>1, <3>2, <3>3
  <2>4. Placed' /\ OneWriter'
    BY <2>1, <2>2
  <2>5. Owned' /\ Housed'
    BY <2>1, <2>2, <2>3
  <2> QED BY <2>4, <2>5
<1>2. ASSUME NEW r \in Run, Setup(r) \/ Popen(r)
      PROVE  Placed' /\ OneWriter' /\ Owned' /\ Housed'
  BY <1>2 DEF Setup, Popen, SessionStarts, recordOwner, Written, Prepares,
     Captures, Outcome
<1>3. ASSUME NEW r \in Run, CallPrepare(r) \/ CallCapture(r)
      PROVE  Placed' /\ OneWriter' /\ Owned' /\ Housed'
  <2>1. /\ \A q \in Run \ {r} : at'[q] = at[q] /\ job'[q] = job[q]
        /\ \/ at'[r] = "preparing" /\ job'[r] \in {"preflight", "raised"}
           \/ at'[r] = "capturing" /\ job'[r] \in {"list", "raised"}
        /\ at[r] \in With
        /\ UNCHANGED <<cap, workspace, evidenceRetained>>
    BY <1>3 DEF CallPrepare, CallCapture, PrepareCall, CaptureCall, Goto, CaptureTypeOK
  <2>2. recordOwner' = recordOwner
    BY <2>1 DEF recordOwner, Written
  <2> QED BY <2>1, <2>2 DEF Prepares, Captures, Outcome
<1>4. ASSUME NEW r \in Run,
             Resume(r, "preparing", "popen") \/ Resume(r, "capturing", "retain")
      PROVE  Placed' /\ OneWriter' /\ Owned' /\ Housed'
  <2>1. /\ \A q \in Run \ {r} : at'[q] = at[q] /\ job'[q] = job[q]
        /\ job'[r] = "none"
        /\ UNCHANGED <<cap, workspace, evidenceRetained>>
        /\ at[r] \in {"preparing", "capturing"} /\ at'[r] \in {"popen", "retain", "finally"}
        /\ at'[r] = "retain" => at[r] = "capturing" /\ job[r] = "returned"
    BY <1>4 DEF Resume, Goto, CaptureTypeOK
  <2>2. recordOwner' = recordOwner
    BY <2>1 DEF recordOwner, Written
  <2> QED BY <2>1, <2>2 DEF Prepares, Captures, Outcome
<1>5. ASSUME NEW r \in Run, CallStep(r) /\ UNCHANGED driverVars
      PROVE  Placed' /\ OneWriter' /\ Owned' /\ Housed'
  <2>1. UNCHANGED <<at, workspace, evidenceRetained>>
    BY <1>5 DEF driverVars
  <2>2. Placed' /\ Housed'
    BY <1>5, <2>1, CallMoves DEF Prepares, Captures, Outcome
  <2>3. OneWriter'
    BY <1>5, CallMoves, CaptureAssumption DEF Prepares, Captures, Outcome
  <2>4. \A q \in Run : recordOwner = q => recordOwner' = q
    BY OwnerStays
  <2>5. job[r] = "capDump" /\ job'[r] = "returned" => recordOwner' = r
    BY <1>5, CallMoves, CaptureAssumption DEF recordOwner, Written, Prepares, Captures
  <2>6. Owned'
    BY <1>5, <2>1, <2>4, <2>5, CallMoves DEF Prepares, Captures, Outcome
  <2> QED BY <2>2, <2>3, <2>6
<1>6. ASSUME NEW r \in Run, Session(r)
      PROVE  Placed' /\ OneWriter' /\ Owned' /\ Housed'
  BY <1>6 DEF Session, SessionWrites, SessionSays, LeaderExits, driverVars,
     recordOwner, Written
<1>7. ASSUME NEW r \in Run, Raises(r)
      PROVE  Placed' /\ OneWriter' /\ Owned' /\ Housed'
  <2>1. UNCHANGED <<cap, evidenceRetained>> /\ recordOwner' = recordOwner
    BY <1>7 DEF Raises, CallRaises, driverVars, recordOwner, Written
  <2>2. CASE CallRaises(r) /\ UNCHANGED driverVars
    BY <2>1, <2>2 DEF CallRaises, driverVars, Goto, CaptureTypeOK, Prepares,
       Captures, Outcome
  <2>3. CASE ~(CallRaises(r) /\ UNCHANGED driverVars)
    <3>1. /\ job[r] = "none" /\ UNCHANGED job
          /\ \A q \in Run \ {r} : at'[q] = at[q] /\ workspace'[q] = workspace[q]
          /\ at'[r] \in {"ended", "finally", "stop"}
          /\ at'[r] # "ended" => at[r] \in With /\ workspace'[r] = workspace[r]
      BY <1>7, <2>3 DEF Raises, MaybeRemoved
    <3> QED BY <2>1, <3>1 DEF Prepares, Captures, Outcome
  <2> QED BY <2>2, <2>3
<1>8. ASSUME NEW r \in Run, Kill(r)
      PROVE  Placed' /\ OneWriter' /\ Owned' /\ Housed'
  <2>1. /\ UNCHANGED <<cap, evidenceRetained>>
        /\ job'[r] = "none" /\ at'[r] = "killed"
        /\ \A q \in Run \ {r} : /\ at'[q] = at[q] /\ job'[q] = job[q]
                                /\ workspace'[q] = workspace[q]
    BY <1>8 DEF Kill, MaybeRemoved, Goto, CaptureTypeOK
  <2>2. recordOwner' = recordOwner
    BY <2>1 DEF recordOwner, Written
  <2> QED BY <2>1, <2>2 DEF Prepares, Captures, Outcome
<1>9. CASE UNCHANGED vars
  BY <1>9 DEF vars, captureVars, driverVars, recordOwner, Written
<1> QED BY <1>1, <1>2, <1>3, <1>4, <1>5, <1>6, <1>7, <1>8, <1>9 DEF Next, DriverStep

\* A workspace disappears only where the driver removes it, and then nothing
\* was noted or the run owns the record.
LEMMA GoneIsRemovable ==
  ASSUME Inv, [Next]_vars, NEW r \in Run,
         workspace[r] = "present", workspace'[r] # "present"
  PROVE  ~modelStarted[r] \/ recordOwner = r
<1>1. ASSUME NEW q \in Run, DriverStep(q), ~Finally(q)
      PROVE  workspace'[r] = workspace[r] \/ workspace'[r] = "present"
  BY <1>1 DEF Inv, TypeOK, DriverStep, captureVars, driverVars, Begin, MakeWorkspace,
     Setup, CallPrepare, Resume, Popen, MarkStarted, WaitReturns, WaitTimesOut,
     StopReturns, StopTimesOut, OpenSidecar, WriteSidecar, CallCapture,
     MarkRetained, Enrich, OpenDestination, WriteDestination
<1>2. ASSUME NEW q \in Run, Finally(q)
      PROVE  Removable(r)
  BY <1>2 DEF Inv, TypeOK, Finally
<1>3. ASSUME NEW q \in Run, Raises(q) \/ Kill(q)
      PROVE  Removable(r)
  BY <1>3 DEF Inv, TypeOK, Raises, Kill, MaybeRemoved, driverVars
<1>4. ASSUME NEW q \in Run, Session(q)
      PROVE  workspace'[r] = workspace[r]
  BY <1>4 DEF Session, driverVars
<1>5. ASSUME UNCHANGED vars
      PROVE  workspace'[r] = workspace[r]
  BY <1>5 DEF vars, driverVars
<1>6. Removable(r)
  <2>1. CASE UNCHANGED vars
    BY <1>5, <2>1
  <2>2. CASE Next
    <3>1. PICK q \in Run : DriverStep(q) \/ Session(q) \/ Raises(q) \/ Kill(q)
      BY <2>2 DEF Next
    <3>2. CASE DriverStep(q) /\ ~Finally(q)
      BY <1>1, <3>2
    <3>3. CASE Finally(q)
      BY <1>2, <3>3
    <3>4. CASE Raises(q) \/ Kill(q)
      BY <1>3, <3>4
    <3>5. CASE Session(q)
      BY <1>4, <3>5
    <3> QED BY <3>1, <3>2, <3>3, <3>4, <3>5
  <2> QED BY <2>1, <2>2
<1> QED BY <1>6 DEF Removable, Inv, Owned

\* The flag is set while the workspace is there.
LEMMA MarkedIsHoused ==
  ASSUME Inv, [Next]_vars, NEW r \in Run, modelStarted'[r]
  PROVE  modelStarted[r] \/ (workspace[r] = "present" /\ workspace' = workspace)
<1>1. ASSUME NEW q \in Run, DriverStep(q), ~MarkStarted(q)
      PROVE  modelStarted' = modelStarted
  BY <1>1 DEF DriverStep, flags, captureVars, driverVars, Begin, MakeWorkspace,
     Setup, CallPrepare, Resume, Popen, WaitReturns, WaitTimesOut, StopReturns,
     StopTimesOut, OpenSidecar, WriteSidecar, CallCapture, MarkRetained, Enrich,
     OpenDestination, WriteDestination, Finally
<1>2. ASSUME NEW q \in Run, MarkStarted(q)
      PROVE  modelStarted[r] \/ (workspace[r] = "present" /\ workspace' = workspace)
  BY <1>2 DEF MarkStarted, Inv, TypeOK, Housed, With
<1>3. ASSUME NEW q \in Run, Raises(q) \/ Kill(q) \/ Session(q)
      PROVE  modelStarted' = modelStarted
  BY <1>3 DEF Raises, Kill, Session, flags, driverVars
<1>4. CASE UNCHANGED vars
  BY <1>4 DEF vars, driverVars
<1> QED BY <1>1, <1>2, <1>3, <1>4 DEF Next

\* Inv is inductive.
LEMMA StepInv == Inv /\ [Next]_vars => Inv'
<1> SUFFICES ASSUME Inv, [Next]_vars PROVE Inv'
  OBVIOUS
<1>1. TypeOK'
  BY StepTyped DEF Inv
<1>2. EvidenceKept'
  <2> SUFFICES ASSUME NEW r \in Run, modelStarted'[r]
               PROVE  workspace'[r] = "present" \/ recordOwner' = r
    BY DEF EvidenceKept
  <2>1. CASE modelStarted[r]
    BY <2>1, GoneIsRemovable, OwnerStays DEF Inv, EvidenceKept
  <2>2. CASE ~modelStarted[r]
    BY <2>2, MarkedIsHoused
  <2> QED BY <2>1, <2>2
<1> QED BY <1>1, <1>2, StepPlaced DEF Inv

\* Nothing is started, written or owned yet.
LEMMA InitInv == Init => Inv
<1> SUFFICES ASSUME Init PROVE Inv
  OBVIOUS
<1>1. TypeOK
  BY InitTypeOK
<1>2. Placed /\ OneWriter
  BY DEF Init, CaptureInit, Placed, OneWriter, Prepares, Captures, Outcome
<1>3. Owned /\ Housed /\ EvidenceKept
  BY DEF Init, Owned, Housed, EvidenceKept, With
<1> QED BY <1>1, <1>2, <1>3 DEF Inv

---------------------------------------------------------------------------
(* The theorems.                                                           *)

\* Once model_started is set, the evidence of a run is in its workspace or in
\* the finished record of that very run, whatever raises, times out or is
\* killed and whichever run wins the output files.
THEOREM EvidenceIsKept == Spec => []EvidenceKept
<1>1. Inv => EvidenceKept
  BY DEF Inv
<1> QED BY <1>1, InitInv, StepInv, PTL DEF Spec

\* Every step of PilotRun is a step of RetainedEvidence or a stutter.
LEMMA StepRetains == Inv /\ [Next]_vars => [Evidence!Next]_(Evidence!vars)
<1> SUFFICES ASSUME Inv, [Next]_vars PROVE [Evidence!Next]_(Evidence!vars)
  OBVIOUS
<1> USE DEF Inv, TypeOK
<1> DEFINE housed == {r \in Run : workspace[r] = "present"}
           marked == {r \in Run : modelStarted[r]}
<1>1. ASSUME NEW r \in Run, MakeWorkspace(r)
      PROVE  Evidence!Create(r)
  <2>1. UNCHANGED <<modelStarted, cap>> /\ workspace' = [workspace EXCEPT ![r] = "present"]
    BY <1>1 DEF MakeWorkspace, flags, captureVars
  <2>2. housed' = housed \cup {r} /\ marked' = marked /\ recordOwner' = recordOwner
    BY <2>1 DEF recordOwner, Written
  <2> QED BY <2>2 DEF Evidence!Create
<1>2. ASSUME NEW r \in Run, MarkStarted(r)
      PROVE  Evidence!Bind(r)
  <2>1. /\ UNCHANGED <<workspace, cap>> /\ workspace[r] = "present"
        /\ modelStarted' = [modelStarted EXCEPT ![r] = TRUE]
    BY <1>2 DEF MarkStarted, captureVars, Housed, With
  <2>2. housed' = housed /\ marked' = marked \cup {r} /\ recordOwner' = recordOwner
    BY <2>1 DEF recordOwner, Written
  <2>3. r \in housed
    BY <2>1
  <2> QED BY <2>2, <2>3 DEF Evidence!Bind
<1>3. ASSUME NEW r \in Run, CallStep(r) /\ UNCHANGED driverVars
      PROVE  Evidence!Record(r) \/ UNCHANGED Evidence!vars
  <2>1. housed' = housed /\ marked' = marked
    BY <1>3 DEF driverVars
  <2>2. CASE job[r] = "capDump" /\ job'[r] = "returned"
    <3>1. r \in housed
      BY <2>2 DEF Placed, Housed, Captures, With
    <3>2. recordOwner = Nobody /\ recordOwner' = r
      BY <1>3, <2>2, CallMoves, CaptureAssumption
         DEF OneWriter, recordOwner, Written, Prepares, Captures
    <3> QED BY <2>1, <3>1, <3>2 DEF Evidence!Record
  <2>3. CASE ~(job[r] = "capDump" /\ job'[r] = "returned")
    <3>1. recordOwner' = recordOwner
      BY <1>3, <2>3, CallMoves DEF recordOwner, Written
    <3> QED BY <2>1, <3>1 DEF Evidence!vars
  <2> QED BY <2>2, <2>3
<1>4. ASSUME NEW r \in Run, Finally(r) \/ Raises(r) \/ Kill(r)
      PROVE  Evidence!Discard(r) \/ UNCHANGED Evidence!vars
  <2>1. UNCHANGED <<modelStarted, cap>>
    BY <1>4 DEF Finally, Raises, Kill, CallRaises, flags, driverVars, captureVars
  <2>2. marked' = marked /\ recordOwner' = recordOwner
    BY <2>1 DEF recordOwner, Written
  <2>3. \/ workspace' = workspace
        \/ workspace' = [workspace EXCEPT ![r] = "gone"] /\ Removable(r)
    BY <1>4 DEF Finally, Raises, Kill, MaybeRemoved, driverVars
  <2>4. CASE workspace' = workspace
    BY <2>2, <2>4 DEF Evidence!vars
  <2>5. CASE workspace' = [workspace EXCEPT ![r] = "gone"] /\ Removable(r)
    <3>1. housed' = housed \ {r}
      BY <2>5
    <3>2. r \notin marked \/ recordOwner = r
      BY <2>5 DEF Removable, Owned
    <3> QED BY <2>2, <3>1, <3>2 DEF Evidence!Discard
  <2> QED BY <2>3, <2>4, <2>5
<1>5. ASSUME NEW r \in Run,
             \/ DriverStep(r) /\ ~MakeWorkspace(r) /\ ~MarkStarted(r) /\ ~Finally(r)
                /\ ~(CallStep(r) /\ UNCHANGED driverVars)
             \/ Session(r)
      PROVE  UNCHANGED Evidence!vars
  <2>1. UNCHANGED <<modelStarted, workspace, cap>>
    BY <1>5 DEF DriverStep, Session, SessionWrites, SessionSays, LeaderExits, flags,
       captureVars, driverVars, Begin, Setup, CallPrepare, PrepareCall, Resume,
       Popen, WaitReturns, WaitTimesOut, StopReturns, StopTimesOut, OpenSidecar,
       WriteSidecar, CallCapture, CaptureCall, MarkRetained, Enrich,
       OpenDestination, WriteDestination
  <2> QED BY <2>1 DEF Evidence!vars, recordOwner, Written
<1>6. CASE UNCHANGED vars
  BY <1>6 DEF vars, captureVars, driverVars, Evidence!vars, recordOwner, Written
<1> QED BY <1>1, <1>2, <1>3, <1>4, <1>5, <1>6 DEF Next, Evidence!Next

\* However runs overlap, fail or die, the drivers implement RetainedEvidence:
\* the record is written once and stays with its run, and a workspace that a
\* session was noted for is given up only for the record.
THEOREM EvidenceIsRetained == Spec => Retention
<1>1. Init => Evidence!Init
  BY DEF Init, CaptureInit, recordOwner, Written, Evidence!Init
<1> QED BY <1>1, InitInv, StepInv, StepRetains, PTL
        DEF Spec, Retention, Evidence!Spec

---------------------------------------------------------------------------
(* The three files beside the driver.                                      *)

\* Whoever steps, the other runs stay where they are.
LEMMA OthersStay ==
  ASSUME TypeOK, NEW r \in Run,
         DriverStep(r) \/ Session(r) \/ Raises(r) \/ Kill(r)
  PROVE  \A q \in Run \ {r} :
           /\ at'[q] = at[q] /\ code'[q] = code[q] /\ (q \in stopped' <=> q \in stopped)
           /\ job'[q] = job[q] /\ start'[q] = start[q] /\ listed'[q] = listed[q]
           /\ artifacts'[q] = artifacts[q] /\ final'[q] = final[q]
           /\ terminal'[q] = terminal[q] /\ session'[q] = session[q]
           /\ tree'[q] = tree[q] /\ prep'[q] = prep[q]
<1> USE DEF TypeOK, CaptureTypeOK, To, flags, outputs
<1>1. CASE \/ Begin(r) \/ MakeWorkspace(r) \/ MarkStarted(r) \/ WaitReturns(r)
           \/ WaitTimesOut(r) \/ StopReturns(r) \/ StopTimesOut(r)
  BY <1>1 DEF captureVars, Begin, MakeWorkspace, MarkStarted, WaitReturns,
     WaitTimesOut, StopReturns, StopTimesOut
<1>2. CASE \/ OpenSidecar(r) \/ WriteSidecar(r) \/ MarkRetained(r) \/ Enrich(r)
           \/ OpenDestination(r) \/ WriteDestination(r) \/ Finally(r)
  BY <1>2 DEF captureVars, OpenSidecar, WriteSidecar, MarkRetained, Enrich,
     OpenDestination, WriteDestination, Finally
<1>3. CASE Setup(r) \/ Popen(r)
  BY <1>3 DEF Setup, Popen, SessionStarts, callVars
<1>4. CASE CallPrepare(r)
  BY <1>4 DEF CallPrepare, PrepareCall, Goto, world
<1>5. CASE CallCapture(r)
  BY <1>5 DEF CallCapture, CaptureCall, Goto, world
<1>6. CASE Resume(r, "preparing", "popen") \/ Resume(r, "capturing", "retain")
  BY <1>6 DEF Resume, Goto, world, callVars
<1>7. CASE CallStep(r) /\ UNCHANGED driverVars
  BY <1>7, CallFrame DEF driverVars
<1>8. CASE Session(r)
  BY <1>8 DEF Session, SessionWrites, SessionSays, LeaderExits, TouchesTree,
     driverVars, callVars
<1>9. CASE Raises(r)
  BY <1>9 DEF Raises, CallRaises, Goto, driverVars, callVars, world
<1>10. CASE Kill(r)
  BY <1>10 DEF Kill, Goto, callVars, world
<1> QED BY <1>1, <1>2, <1>3, <1>4, <1>5, <1>6, <1>7, <1>8, <1>9, <1>10 DEF DriverStep

\* An output that was opened is not absent.
LEMMA OpenedIsThere ==
  ASSUME NEW r \in Run, NEW w \in BOOLEAN
  PROVE  [run |-> r, whole |-> w] # Absent
<1>1. [run |-> r, whole |-> w] \in [run : Run, whole : BOOLEAN]
  OBVIOUS
<1> QED BY <1>1, DriverAssumption

Recording == {"sidecar", "sanitize", "capture", "capturing", "retain", "enrich",
              "destination", "destinationDump"}

\* A run that got past the sidecar wrote it, and one that got past the capture
\* owns the record.
Trailed ==
  \A r \in Run :
    /\ at[r] = "sanitize" => sidecar = [run |-> r, whole |-> FALSE]
    /\ at[r] \in Recording \ {"sidecar", "sanitize"} =>
         sidecar = [run |-> r, whole |-> TRUE]
    /\ at[r] \in {"enrich", "destination", "destinationDump"} => recordOwner = r

\* Every step keeps the trail and, with it, the files together.
LEMMA StepTrailed ==
  ASSUME Inv, Trailed, OneRunsFiles, [Next]_vars
  PROVE  Trailed' /\ OneRunsFiles'
<1> USE DEF Inv, TypeOK, Trailed, Recording, To, flags, outputs
<1>1. CASE UNCHANGED vars
  BY <1>1 DEF vars, captureVars, driverVars, recordOwner, Written, OneRunsFiles
<1>2. CASE ~UNCHANGED vars
  <2>1. PICK r \in Run : DriverStep(r) \/ Session(r) \/ Raises(r) \/ Kill(r)
    BY <1>2 DEF Next
  <2>2. \A q \in Run \ {r} : at'[q] = at[q]
    BY <2>1, OthersStay
  <2>3. \A q \in Run : recordOwner = q => recordOwner' = q
    BY OwnerStays
  <2>4. ASSUME UNCHANGED <<sidecar, destination, cap>>,
               at'[r] \notin Recording \/ at'[r] = "sidecar" \/ at'[r] = at[r]
        PROVE  Trailed' /\ OneRunsFiles'
    BY <2>2, <2>3, <2>4 DEF OneRunsFiles, Written
  <2>5. CASE \/ Begin(r) \/ MakeWorkspace(r) \/ MarkStarted(r) \/ WaitReturns(r)
             \/ WaitTimesOut(r) \/ StopReturns(r) \/ StopTimesOut(r) \/ Finally(r)
    BY <2>4, <2>5 DEF captureVars, Begin, MakeWorkspace, MarkStarted, WaitReturns,
       WaitTimesOut, StopReturns, StopTimesOut, Finally
  <2>6. CASE Setup(r) \/ Popen(r) \/ CallPrepare(r) \/ Resume(r, "preparing", "popen")
    BY <2>4, <2>6 DEF Setup, Popen, CallPrepare, PrepareCall, Resume
  <2>7. CASE Session(r) \/ Raises(r) \/ Kill(r)
    BY <2>4, <2>7 DEF Session, SessionWrites, SessionSays, LeaderExits, Raises,
       CallRaises, Kill, driverVars, Before, With
  <2>8. CASE CallCapture(r) \/ Resume(r, "capturing", "retain")
    <3>1. UNCHANGED <<sidecar, destination, cap>>
          /\ \/ at[r] = "capture" /\ at'[r] = "capturing"
             \/ at[r] = "capturing" /\ at'[r] \in {"retain", "finally"}
      BY <2>8 DEF CallCapture, CaptureCall, Resume
    <3> QED BY <2>2, <2>3, <3>1 DEF OneRunsFiles, Written
  <2>9. CASE MarkRetained(r) \/ Enrich(r)
    <3>1. UNCHANGED <<sidecar, destination, cap>>
          /\ \/ at[r] = "retain" /\ at'[r] = "enrich"
             \/ at[r] = "enrich" /\ at'[r] \in {"destination", "finally"}
      BY <2>9 DEF MarkRetained, Enrich, captureVars
    <3> QED BY <2>2, <2>3, <3>1 DEF Owned, OneRunsFiles, Written
  <2>10. CASE OpenSidecar(r)
    <3>1. CASE sidecar = Absent
      <4>1. UNCHANGED <<destination, cap>> /\ at'[r] = "sanitize"
            /\ sidecar' = [run |-> r, whole |-> FALSE]
        BY <2>10, <3>1 DEF OpenSidecar, captureVars
      <4>3. \A q \in Run : at[q] \notin Recording \ {"sidecar"}
        BY <3>1, OpenedIsThere
      <4>4. cap = Absent /\ destination = Absent
        BY <3>1, CaptureAssumption DEF OneRunsFiles, Written
      <4> QED BY <2>2, <4>1, <4>3, <4>4 DEF OneRunsFiles, Written
    <3>2. CASE sidecar # Absent
      BY <2>4, <2>10, <3>2 DEF OpenSidecar, captureVars
    <3> QED BY <3>1, <3>2
  <2>11. CASE WriteSidecar(r)
    <3>1. UNCHANGED <<destination, cap>> /\ at[r] = "sanitize" /\ at'[r] = "capture"
          /\ sidecar' = [run |-> r, whole |-> TRUE]
      BY <2>11 DEF WriteSidecar, captureVars
    <3>2. sidecar = [run |-> r, whole |-> FALSE]
      BY <3>1
    <3>3. cap = Absent /\ destination = Absent
      BY <3>2 DEF OneRunsFiles, Written
    <3>4. \A q \in Run \ {r} : at[q] \notin Recording \ {"sidecar"}
      BY <3>2
    <3>5. sidecar' # Absent
      BY <3>1, OpenedIsThere
    <3> QED BY <2>2, <3>1, <3>3, <3>4, <3>5 DEF OneRunsFiles, Written
  <2>12. CASE OpenDestination(r) \/ WriteDestination(r)
    <3>1. /\ UNCHANGED <<sidecar, cap>> /\ at[r] \in {"destination", "destinationDump"}
          /\ at'[r] \in {"destinationDump", "finally"}
          /\ destination' = destination \/ destination'.run = r
      BY <2>12 DEF OpenDestination, WriteDestination, captureVars
    <3>2. Written(cap) /\ cap.run = r
      BY <3>1, OwnerIsRun
    <3>3. OneRunsFiles'
      BY <3>1, <3>2 DEF OneRunsFiles, Written
    <3> QED BY <2>2, <2>3, <3>1, <3>3
  <2>13. CASE CallStep(r) /\ UNCHANGED driverVars
    <3>1. UNCHANGED <<at, sidecar, destination>>
      BY <2>13 DEF driverVars
    <3>2. Trailed'
      BY <2>3, <3>1
    <3>3. OneRunsFiles'
      <4>1. CASE cap' = cap
        BY <3>1, <4>1 DEF OneRunsFiles, Written
      <4>2. CASE cap' # cap
        <5>1. /\ job[r] \in {"capOpen", "capDump"} /\ ~Written(cap)
              /\ Written(cap') => cap'.run = r
          BY <2>13, <4>2, CallMoves DEF OneWriter, Written
        <5>2. at[r] = "capturing"
          BY <5>1 DEF Placed, Captures
        <5>3. sidecar = [run |-> r, whole |-> TRUE]
          BY <5>2
        <5>4. destination = Absent /\ sidecar # Absent
          BY <5>1, <5>3, OpenedIsThere DEF OneRunsFiles
        <5> QED BY <3>1, <5>1, <5>3, <5>4 DEF OneRunsFiles
      <4> QED BY <4>1, <4>2
    <3> QED BY <3>2, <3>3
  <2> QED BY <2>1, <2>5, <2>6, <2>7, <2>8, <2>9, <2>10, <2>11, <2>12, <2>13 DEF DriverStep
<1> QED BY <1>1, <1>2

\* The three files tell of one run, however many passed the check for existing
\* files together and whatever stopped them: a record rests on the whole
\* sidecar of its run, a destination on its finished record.
THEOREM FilesOfOneRun == Spec => []OneRunsFiles
<1>1. Init => Trailed /\ OneRunsFiles
  BY DEF Init, CaptureInit, Trailed, OneRunsFiles, Written, Recording
<1>2. Inv /\ Trailed /\ OneRunsFiles /\ [Next]_vars => (Trailed /\ OneRunsFiles)'
  BY StepTrailed
<1> QED BY <1>1, <1>2, InitInv, StepInv, PTL DEF Spec

---------------------------------------------------------------------------
(* Stopped sessions.                                                       *)

\* From the sidecar on a run never waits for its session again.
Late == Recording \cup {"finally"} \cup Over

\* A run whose session was told to stop is still stopping it, has given up or
\* goes on with the code of that stop; the record of a run comes late, and
\* says completed only if the session was not told to stop.
Told ==
  /\ \A r \in Run :
       /\ r \in stopped => at[r] \in {"stop", "finally"} \cup Over
                           \/ (at[r] \in Recording /\ code[r] = "term")
       /\ job[r] \in Captures /\ terminal[r] = "task_completed" => r \notin stopped
  /\ Written(cap) => at[cap.run] \in Late

\* The run of a finished record is a run.
LEMMA RecordHasRun ==
  ASSUME TypeOK, Written(cap)
  PROVE  cap.run \in Run
BY DEF TypeOK, CaptureTypeOK, Written, Receipt

\* Every step keeps it, and keeps completed records those of sessions that
\* ended by themselves.
LEMMA StepTold ==
  ASSUME Inv, Told, CompletedByItself, [Next]_vars
  PROVE  Told' /\ CompletedByItself'
<1> USE DEF Inv, TypeOK, Told, Recording, Late, Over, To, flags, outputs
<1>0. Written(cap) => cap.run \in Run
  BY RecordHasRun
<1>1. CASE UNCHANGED vars
  BY <1>1 DEF vars, captureVars, driverVars, callVars, Written, CompletedByItself
<1>2. CASE ~UNCHANGED vars
  <2>1. PICK r \in Run : DriverStep(r) \/ Session(r) \/ Raises(r) \/ Kill(r)
    BY <1>2 DEF Next
  <2>2. \A q \in Run \ {r} :
          /\ at'[q] = at[q] /\ code'[q] = code[q] /\ (q \in stopped' <=> q \in stopped)
          /\ job'[q] = job[q] /\ terminal'[q] = terminal[q]
    BY <2>1, OthersStay
  \* The record stays; the run moves on as described and is not told late.
  <2>3. ASSUME cap' = cap,
               at[r] \in Late => at'[r] \in Late,
               r \in stopped' => at'[r] \in {"stop", "finally"} \cup Over
                                 \/ (at'[r] \in Recording /\ code'[r] = "term"),
               job'[r] \in Captures /\ terminal'[r] = "task_completed" => r \notin stopped',
               r \in stopped' => r \in stopped \/ at[r] = "wait"
        PROVE  Told' /\ CompletedByItself'
    <3>1. Told'
      BY <1>0, <2>2, <2>3 DEF Written
    <3>2. CompletedByItself'
      BY <1>0, <2>2, <2>3 DEF CompletedByItself, Written
    <3> QED BY <3>1, <3>2
  <2>4. CASE Begin(r) \/ MakeWorkspace(r) \/ MarkStarted(r)
    BY <2>3, <2>4 DEF captureVars, callVars, Begin, MakeWorkspace, MarkStarted, Captures
  <2>5. CASE WaitReturns(r) \/ WaitTimesOut(r) \/ StopReturns(r) \/ StopTimesOut(r)
    <3>1. job[r] \notin Captures /\ UNCHANGED <<cap, job>>
      BY <2>5 DEF Placed, captureVars, WaitReturns, WaitTimesOut, StopReturns, StopTimesOut
    <3>2. CASE WaitReturns(r)
      BY <2>3, <3>1, <3>2 DEF WaitReturns
    <3>3. CASE WaitTimesOut(r)
      BY <2>3, <3>1, <3>3 DEF WaitTimesOut
    <3>4. CASE StopReturns(r)
      BY <2>3, <3>1, <3>4 DEF StopReturns
    <3>5. CASE StopTimesOut(r)
      BY <2>3, <3>1, <3>5 DEF StopTimesOut
    <3> QED BY <2>5, <3>2, <3>3, <3>4, <3>5
  <2>6. CASE \/ OpenSidecar(r) \/ WriteSidecar(r) \/ MarkRetained(r) \/ Enrich(r)
             \/ OpenDestination(r) \/ WriteDestination(r) \/ Finally(r)
    <3>1. job[r] \notin Captures /\ UNCHANGED <<cap, job, code, stopped>>
      BY <2>6 DEF Placed, captureVars, OpenSidecar, WriteSidecar, MarkRetained, Enrich,
         OpenDestination, WriteDestination, Finally
    <3>2. at[r] \in Recording \cup {"finally"} /\ at'[r] \in Late
          /\ (at'[r] \in {"finally", "ended"} \/ at'[r] \in Recording)
          /\ (at[r] = "finally" => at'[r] = "ended")
      BY <2>6 DEF OpenSidecar, WriteSidecar, MarkRetained, Enrich,
         OpenDestination, WriteDestination, Finally
    <3> QED BY <2>3, <3>1, <3>2
  <2>7. CASE Setup(r) \/ Popen(r) \/ CallPrepare(r) \/ Resume(r, "preparing", "popen")
    <3>1. UNCHANGED <<cap, code, stopped>> /\ job'[r] \notin Captures
          /\ at[r] \in {"setup", "popen", "prepare", "preparing"}
      BY <2>7 DEF Setup, Popen, CallPrepare, PrepareCall, Resume, Goto, CaptureTypeOK,
         Placed, Captures
    <3>2. r \notin stopped
      BY <3>1
    <3> QED BY <2>3, <3>1, <3>2
  <2>8. CASE CallCapture(r)
    <3>1. /\ UNCHANGED <<cap, code, stopped>> /\ at[r] = "capture" /\ at'[r] = "capturing"
          /\ terminal'[r] = TerminalState(r)
      BY <2>8 DEF CallCapture, CaptureCall, CaptureTypeOK
    <3>2. terminal'[r] = "task_completed" => r \notin stopped
      BY <3>1 DEF TerminalState
    <3> QED BY <2>3, <3>1, <3>2
  <2>9. CASE Resume(r, "capturing", "retain")
    <3>1. UNCHANGED <<cap, code, stopped>> /\ job'[r] = "none" /\ at[r] = "capturing"
          /\ at'[r] \in {"retain", "finally"}
      BY <2>9 DEF Resume, Goto, CaptureTypeOK
    <3> QED BY <2>3, <3>1 DEF Captures
  <2>10. CASE CallStep(r) /\ UNCHANGED driverVars
    <3>1. UNCHANGED <<at, code, stopped, terminal>>
      BY <2>10, CallFrame DEF driverVars
    <3>2. job'[r] \in Captures => job[r] \in Captures
      BY <2>10, CallMoves DEF Prepares, Captures, Outcome
    <3>3. CASE cap' = cap
      BY <2>3, <3>1, <3>2, <3>3
    <3>4. CASE cap' # cap
      <4>1. job[r] \in {"capOpen", "capDump"} /\ (Written(cap') => cap'.run = r)
        BY <2>10, <3>4, CallMoves DEF Written
      <4>2. Written(cap') => CapDump(r)
        BY <2>10, <3>4, CallMoves DEF Written, CallStep, Preflight, CheckBuilt, Baseline,
           CheckAfterBaseline, PrepOpen, PrepDump, List, ReadArtifact, ReadFinal,
           EndPass, ReadMarker, CapOpen, Prepares, Captures
      <4>3. Written(cap') => cap'.terminal = terminal[r]
        BY <4>2 DEF CapDump
      <4>4. at[r] = "capturing"
        BY <4>1 DEF Placed, Captures
      <4>5. Told'
        BY <2>2, <3>1, <3>2, <4>1, <4>4
      <4>6. CompletedByItself'
        BY <3>1, <4>1, <4>3 DEF CompletedByItself, Captures
      <4> QED BY <4>5, <4>6
    <3> QED BY <3>3, <3>4
  <2>11. CASE Session(r)
    BY <2>3, <2>11 DEF Session, SessionWrites, SessionSays, LeaderExits, driverVars, callVars
  <2>12. CASE Raises(r)
    <3>1. UNCHANGED <<cap, code>>
      BY <2>12 DEF Raises, CallRaises, driverVars
    <3>2. CASE CallRaises(r) /\ UNCHANGED driverVars
      BY <2>3, <3>2 DEF CallRaises, driverVars, Goto, CaptureTypeOK, Captures
    <3>3. CASE ~(CallRaises(r) /\ UNCHANGED driverVars)
      <4>1. /\ job'[r] \notin Captures
            /\ \/ at'[r] \in {"ended", "finally"} /\ stopped' = stopped
               \/ at[r] = "wait" /\ at'[r] = "stop" /\ stopped' = stopped \cup {r}
        BY <2>12, <3>3 DEF Raises, Captures
      <4> QED BY <2>3, <3>1, <4>1
    <3> QED BY <3>2, <3>3
  <2>13. CASE Kill(r)
    <3>1. UNCHANGED <<cap, code, stopped>> /\ job'[r] = "none" /\ at'[r] = "killed"
      BY <2>13 DEF Kill, Goto, CaptureTypeOK
    <3> QED BY <2>3, <3>1 DEF Captures
  <2> QED BY <2>1, <2>4, <2>5, <2>6, <2>7, <2>8, <2>9, <2>10, <2>11, <2>12, <2>13 DEF DriverStep
<1> QED BY <1>1, <1>2

\* A session the driver told to stop, because its time was up or the user
\* interrupted, is never recorded as completed, whatever it exits with.
THEOREM StoppedIsNotCompleted == Spec => []CompletedByItself
<1>1. Init => Told /\ CompletedByItself
  BY DEF Init, CaptureInit, Told, CompletedByItself, Written, Captures
<1>2. Inv /\ Told /\ CompletedByItself /\ [Next]_vars => (Told /\ CompletedByItself)'
  BY StepTold
<1> QED BY <1>1, <1>2, InitInv, StepInv, PTL DEF Spec

---------------------------------------------------------------------------
(* The records, and what a capture holds.                                  *)

\* Outside the steps of a call nothing is written to a record.
LEMMA QuietStep ==
  ASSUME TypeOK, NEW r \in Run,
         (DriverStep(r) /\ ~CallStep(r)) \/ Session(r) \/ Raises(r) \/ Kill(r)
  PROVE  /\ UNCHANGED <<cap, prep>>
         /\ \/ job'[r] = job[r]
            \/ job'[r] \in {"raised", "none"}
            \/ CallPrepare(r) \/ CallCapture(r)
<1> USE DEF TypeOK, CaptureTypeOK
<1>1. CASE DriverStep(r) /\ ~CallStep(r)
  BY <1>1 DEF DriverStep, captureVars, Begin, MakeWorkspace, Setup, CallPrepare,
     PrepareCall, Resume, Popen, MarkStarted, WaitReturns, WaitTimesOut, StopReturns,
     StopTimesOut, OpenSidecar, WriteSidecar, CallCapture, CaptureCall, MarkRetained,
     Enrich, OpenDestination, WriteDestination, Finally, Goto
<1>2. CASE Session(r)
  BY <1>2 DEF Session, SessionWrites, SessionSays, LeaderExits
<1>3. CASE Raises(r) \/ Kill(r)
  BY <1>3 DEF Raises, CallRaises, Kill, Goto
<1> QED BY <1>1, <1>2, <1>3

\* A record is opened and finished by one call of one run, and then stays.
LEMMA StepFresh ==
  ASSUME Inv, Fresh, [Next]_vars
  PROVE  Fresh' /\ KeepsRecords
<1> USE DEF Inv
<1>1. CASE UNCHANGED vars
  BY <1>1 DEF vars, captureVars, Fresh, KeepsRecords
<1>2. ASSUME NEW r \in Run, CallStep(r)
      PROVE  Fresh' /\ KeepsRecords
  BY <1>2, CallKeepsRecords DEF TypeOK
<1>3. ASSUME NEW r \in Run,
             (DriverStep(r) /\ ~CallStep(r)) \/ Session(r) \/ Raises(r) \/ Kill(r)
      PROVE  Fresh' /\ KeepsRecords
  <2>1. UNCHANGED <<cap, prep>>
    BY <1>3, QuietStep
  <2>2. \A q \in Run \ {r} : job'[q] = job[q]
    BY <1>3, OthersStay
  <2>3. \/ job'[r] = job[r] \/ job'[r] \notin Prepares
        \/ job'[r] = "preflight" /\ prep[r] = Absent
    <3>1. CASE CallPrepare(r)
      BY <3>1 DEF CallPrepare, PrepareCall, Goto, TypeOK, CaptureTypeOK, Prepares
    <3>2. CASE CallCapture(r)
      BY <3>2 DEF CallCapture, CaptureCall, Goto, TypeOK, CaptureTypeOK, Prepares
    <3> QED BY <1>3, <3>1, <3>2, QuietStep DEF Prepares
  <2>4. Fresh'
    BY <2>1, <2>2, <2>3 DEF Fresh, Prepares
  <2> QED BY <2>1, <2>4 DEF KeepsRecords
<1> QED BY <1>1, <1>2, <1>3 DEF Next

\* No record is ever removed, opened again or replaced, however the runs that
\* share an output overlap, fail or are killed (write_new).
THEOREM RecordsAreKept == Spec => RecordsStay
<1>1. Init => Fresh
  BY DEF Init, CaptureInit, Fresh, Prepares
<1>2. Inv /\ Fresh /\ [Next]_vars => Fresh' /\ [KeepsRecords]_captureVars
  BY StepFresh
<1> QED BY <1>1, <1>2, InitInv, StepInv, PTL DEF Spec, RecordsStay, KeepsRecords

\* Where main is tells what became of the session.
Silent ==
  /\ \A r \in Run :
       /\ session[r] # "orphans"
       /\ at[r] \in Before \cup {"setup", "prepare", "preparing", "popen"} =>
            session[r] = "none"
       /\ at[r] \in {"mark", "wait", "stop"} => session[r] \in {"leader", "gone"}
       /\ at[r] \in Recording => session[r] = "gone"
  /\ Written(cap) => session[cap.run] = "gone"

\* When sessions leave no descendants, main waits until nobody writes.
LEMMA StepSilent ==
  ASSUME ~Orphans, Inv, Told, Silent, [Next]_vars
  PROVE  Silent'
<1> USE DEF Inv, TypeOK, CaptureTypeOK, Silent, Recording, Before, With, Over, Late, To, flags, outputs
<1>0. Written(cap) => cap.run \in Run /\ at[cap.run] \in Late
  BY RecordHasRun DEF Told
<1>1. CASE UNCHANGED vars
  BY <1>1 DEF vars, captureVars, driverVars, Written
<1>2. CASE ~UNCHANGED vars
  <2>1. PICK r \in Run : DriverStep(r) \/ Session(r) \/ Raises(r) \/ Kill(r)
    BY <1>2 DEF Next
  <2>2. \A q \in Run \ {r} : at'[q] = at[q] /\ session'[q] = session[q]
    BY <2>1, OthersStay
  <2>3. ASSUME cap' = cap, session' = session,
               \/ at'[r] = at[r]
               \/ at[r] \in Before \cup {"setup", "prepare", "preparing"}
                  /\ at'[r] \in {"mkdtemp", "setup", "prepare", "preparing", "popen"}
               \/ at[r] \in {"mark", "wait"} /\ at'[r] \in {"wait", "stop"}
               \/ at[r] \in {"wait", "stop"} /\ at'[r] = "sidecar" /\ session[r] # "leader"
               \/ at[r] \in Recording /\ at'[r] \in Recording
               \/ at'[r] \in {"finally"} \cup Over
        PROVE  Silent'
    BY <1>0, <2>2, <2>3 DEF Written
  <2>4. CASE \/ Begin(r) \/ MakeWorkspace(r) \/ MarkStarted(r) \/ WaitReturns(r)
             \/ WaitTimesOut(r) \/ StopReturns(r) \/ StopTimesOut(r)
    BY <2>3, <2>4 DEF captureVars, Begin, MakeWorkspace, MarkStarted, WaitReturns,
       WaitTimesOut, StopReturns, StopTimesOut
  <2>5. CASE \/ OpenSidecar(r) \/ WriteSidecar(r) \/ MarkRetained(r) \/ Enrich(r)
             \/ OpenDestination(r) \/ WriteDestination(r) \/ Finally(r)
    BY <2>3, <2>5 DEF captureVars, OpenSidecar, WriteSidecar, MarkRetained, Enrich,
       OpenDestination, WriteDestination, Finally
  <2>6. CASE Setup(r) \/ CallPrepare(r) \/ CallCapture(r)
    BY <2>3, <2>6 DEF Setup, CallPrepare, PrepareCall, CallCapture, CaptureCall, world
  <2>7. CASE Resume(r, "preparing", "popen") \/ Resume(r, "capturing", "retain")
    BY <2>3, <2>7 DEF Resume, world
  <2>8. CASE Popen(r)
    <3>1. at[r] = "popen" /\ at'[r] = "mark" /\ session'[r] = "leader" /\ cap' = cap
      BY <2>8 DEF Popen, SessionStarts
    <3> QED BY <1>0, <2>2, <3>1 DEF Written
  <2>9. CASE CallStep(r) /\ UNCHANGED driverVars
    <3>1. UNCHANGED <<at, session>>
      BY <2>9, CallFrame DEF driverVars
    <3>2. Written(cap') => cap' = cap \/ (cap'.run = r /\ at[r] = "capturing")
      BY <2>9, CallMoves DEF Written, Placed, Captures
    <3> QED BY <3>1, <3>2 DEF Written
  <2>10. CASE Session(r)
    <3>1. UNCHANGED <<at, cap>>
          /\ \/ session' = session
             \/ session[r] = "leader" /\ session'[r] = "gone"
      BY <2>10 DEF Session, SessionWrites, SessionSays, LeaderExits, driverVars
    <3> QED BY <1>0, <2>2, <3>1 DEF Written
  <2>11. CASE Raises(r) \/ Kill(r)
    BY <2>3, <2>11 DEF Raises, Kill, CallRaises, driverVars, world
  <2> QED BY <2>1, <2>4, <2>5, <2>6, <2>7, <2>8, <2>9, <2>10, <2>11 DEF DriverStep
<1> QED BY <1>1, <1>2

\* Captures under way and finished describe their fixture as it is.
FinalInv ==
  /\ Inv /\ Told /\ CompletedByItself /\ Fresh /\ Silent
  /\ \A r \in Run : Reads(r)
  /\ CaptureIsOneState
  /\ Written(cap) => cap.final = tree[cap.run]

\* A fixture changes only before its session or by it.
LEMMA TreeMoves ==
  ASSUME Inv, NEW r \in Run, tree'[r] # tree[r],
         DriverStep(r) \/ Session(r) \/ Raises(r) \/ Kill(r)
  PROVE  at[r] \in {"setup", "preparing"} \/ session[r] \in {"leader", "orphans"}
<1> USE DEF Inv, TypeOK, CaptureTypeOK
<1>1. CASE Setup(r) \/ Session(r)
  BY <1>1 DEF Setup, Session, SessionWrites, SessionSays, LeaderExits
<1>2. CASE CallStep(r)
  <2>1. job[r] \in Prepares
    BY <1>2, CallFrame
  <2> QED BY <2>1 DEF Placed
<1>3. CASE DriverStep(r) /\ ~Setup(r) /\ ~CallStep(r)
  BY <1>3 DEF DriverStep, captureVars, world, Begin, MakeWorkspace, CallPrepare,
     PrepareCall, Resume, Popen, SessionStarts, MarkStarted, WaitReturns, WaitTimesOut,
     StopReturns, StopTimesOut, OpenSidecar, WriteSidecar, CallCapture, CaptureCall,
     MarkRetained, Enrich, OpenDestination, WriteDestination, Finally
<1>4. CASE Raises(r) \/ Kill(r)
  BY <1>4 DEF Raises, CallRaises, Kill, world
<1> QED BY <1>1, <1>2, <1>3, <1>4

\* A call to capture starts with nothing read, on its own preparation, and
\* other steps outside the calls leave what was read alone.
LEMMA ReadsBegin ==
  ASSUME Inv, NEW r \in Run, Reads(r), ~CallStep(r),
         job[r] \in Captures => tree'[r] = tree[r],
         DriverStep(r) \/ Session(r) \/ Raises(r) \/ Kill(r)
  PROVE  Reads(r)'
<1> USE DEF Inv, TypeOK, CaptureTypeOK
<1>1. CASE CallCapture(r)
  <2>1. artifacts'[r] = NoFiles /\ final'[r] = NoFiles
    BY <1>1 DEF CallCapture, CaptureCall
  <2>2. CASE Accepts(r, r, trace[r])
    <3>1. job'[r] = "list" /\ start'[r] = prep'[r].manifest /\ Written(prep[r])'
      BY <1>1, <2>2 DEF CallCapture, CaptureCall, Accepts, Goto, Written
    <3> QED BY <2>1, <3>1 DEF Reads, Captures
  <2>3. CASE ~Accepts(r, r, trace[r])
    <3>1. job'[r] = "raised"
      BY <1>1, <2>3 DEF CallCapture, CaptureCall, Goto
    <3> QED BY <3>1 DEF Reads, Captures
  <2> QED BY <2>2, <2>3
<1>2. CASE CallPrepare(r)
  <2>1. job'[r] \in {"preflight", "raised"}
    BY <1>2 DEF CallPrepare, PrepareCall, Goto
  <2> QED BY <2>1 DEF Reads, Captures
<1>3. CASE job'[r] \in {"raised", "none"}
  BY <1>3 DEF Reads, Captures
<1>4. CASE job'[r] = job[r] /\ ~CallCapture(r) /\ ~CallPrepare(r)
  <2>1. UNCHANGED <<start, listed, artifacts, final, prep>>
    <3>1. CASE DriverStep(r)
      BY <1>4, <3>1 DEF DriverStep, captureVars, callVars, Begin, MakeWorkspace, Setup,
         Resume, Popen, MarkStarted, WaitReturns, WaitTimesOut, StopReturns,
         StopTimesOut, OpenSidecar, WriteSidecar, MarkRetained, Enrich,
         OpenDestination, WriteDestination, Finally
    <3>2. CASE Session(r) \/ Raises(r) \/ Kill(r)
      BY <3>2 DEF Session, SessionWrites, SessionSays, LeaderExits, Raises, CallRaises,
         Kill, callVars
    <3> QED BY <3>1, <3>2
  <2> QED BY <1>4, <2>1, ReadsStay
<1> QED BY <1>1, <1>2, <1>3, <1>4, QuietStep

\* When sessions leave no descendants, every step keeps captures final.
LEMMA StepFinal ==
  ASSUME ~Orphans
  PROVE  FinalInv /\ [Next]_vars => FinalInv'
<1> SUFFICES ASSUME FinalInv, [Next]_vars PROVE FinalInv'
  OBVIOUS
<1> USE DEF FinalInv
<1>1. Inv' /\ Told' /\ CompletedByItself' /\ Fresh' /\ Silent' /\ KeepsRecords
  BY StepInv, StepTold, StepFresh, StepSilent
<1>2. TypeOK /\ CaptureTypeOK /\ OneWriter
  BY DEF Inv, TypeOK
<1>3. Written(cap) => /\ cap.run \in Run /\ cap' = cap
                      /\ session[cap.run] = "gone" /\ at[cap.run] \in Late
  BY <1>1, <1>2, RecordHasRun DEF KeepsRecords, Silent, Told
<1>4. CASE UNCHANGED vars
  <2>1. UNCHANGED captureVars
    BY <1>4 DEF vars
  <2>2. \A r \in Run : Reads(r)'
    BY <2>1, ReadsStay DEF captureVars
  <2> QED BY <1>1, <2>1, <2>2 DEF captureVars, CaptureIsOneState, Written
<1>5. CASE ~UNCHANGED vars
  <2>1. PICK r \in Run : DriverStep(r) \/ Session(r) \/ Raises(r) \/ Kill(r)
    BY <1>5 DEF Next
  <2>2. /\ job[r] \in Captures => tree'[r] = tree[r]
        /\ Written(cap) /\ cap.run = r => tree'[r] = tree[r]
    <3>1. job[r] \in Captures => at[r] = "capturing" /\ session[r] = "gone"
      BY DEF Inv, Placed, Silent, Recording
    <3>2. at[r] = "capturing" \/ at[r] \in Late => at[r] \notin {"setup"}
      BY DEF Late, Recording, Over
    <3>3. CASE CallStep(r) /\ job[r] \in Captures
      BY <1>2, <3>3, CallFrame
    <3>4. CASE CallStep(r) /\ job[r] \notin Captures
      <4>1. at[r] = "preparing"
        BY <1>2, <3>4, CallFrame DEF Inv, Placed
      <4> QED BY <1>3, <3>4, <4>1 DEF Late, Recording, Over
    <3>5. CASE ~CallStep(r)
      BY <1>3, <2>1, <3>1, <3>5, TreeMoves DEF Late, Recording, Over
    <3> QED BY <3>3, <3>4, <3>5
  <2>3. ASSUME NEW q \in Run
        PROVE  Reads(q)'
    <3>1. CASE q # r
      BY <1>2, <2>1, <3>1, OthersStay, ReadsStay
    <3>2. CASE q = r /\ CallStep(r) /\ job[r] \in Captures
      BY <1>2, <3>2, CallReads
    <3>3. CASE q = r /\ CallStep(r) /\ job[r] \notin Captures
      BY <1>2, <3>3, CallMoves DEF Reads, Prepares, Captures, Outcome
    <3>4. CASE q = r /\ ~CallStep(r)
      BY <2>1, <2>2, <3>4, ReadsBegin
    <3> QED BY <3>1, <3>2, <3>3, <3>4
  <2>4. CASE cap' = cap \/ ~Written(cap')
    <3>1. CaptureIsOneState'
      BY <1>1, <1>3, <2>4 DEF CaptureIsOneState, KeepsRecords, Written
    <3>2. Written(cap) => tree'[cap.run] = tree[cap.run]
      BY <1>2, <1>3, <2>1, <2>2, OthersStay
    <3> QED BY <1>1, <1>3, <2>3, <2>4, <3>1, <3>2 DEF Written
  <2>5. CASE cap' # cap /\ Written(cap')
    <3>1. CallStep(r)
      BY <1>2, <2>1, <2>5, QuietStep
    <3>2. /\ cap'.run = r /\ cap'.artifacts = tree[r] /\ cap'.final = tree[r]
          /\ cap'.start = prep[r].manifest /\ Written(prep[r])
          /\ UNCHANGED <<tree, prep>>
      BY <1>2, <2>5, <3>1, CallRecords
    <3>3. CaptureIsOneState'
      BY <3>2 DEF CaptureIsOneState, Written
    <3> QED BY <1>1, <2>3, <3>2, <3>3
  <2> QED BY <2>4, <2>5
<1> QED BY <1>4, <1>5

\* When no descendant outlives its session, a record describes the fixture of
\* its run in one state, and that is the state the session left it in: neither
\* a timeout, nor an interrupt, nor the other runs change it while it is read
\* or afterwards (main: the wait after killpg).
THEOREM CaptureHoldsFinalState ==
  ASSUME ~Orphans
  PROVE  Spec => []CaptureIsFinal
<1>1. Init => FinalInv
  <2> SUFFICES ASSUME Init PROVE FinalInv
    OBVIOUS
  <2>1. Inv
    BY InitInv
  <2>2. ~Written(cap) /\ \A r \in Run : job[r] = "none" /\ at[r] = "begin"
    BY DEF Init, CaptureInit, Written
  <2>3. Told /\ CompletedByItself /\ Fresh
    BY <2>2 DEF Init, Told, CompletedByItself, Fresh, Prepares, Captures
  <2>4. Silent /\ CaptureIsOneState /\ \A r \in Run : Reads(r)
    BY <2>2 DEF Init, CaptureInit, Silent, CaptureIsOneState, Reads, Captures, Recording
  <2> QED BY <2>1, <2>2, <2>3, <2>4 DEF FinalInv
<1>2. FinalInv => CaptureIsFinal
  BY DEF FinalInv, CaptureIsFinal, FinalManifest
<1> QED BY <1>1, <1>2, StepFinal, PTL DEF Spec
=============================================================================
