------------------------------ MODULE PilotRun ------------------------------
(***************************************************************************)
(* evals/receipts/host-pilot-20260905/run.py: one paid session per run,    *)
(* from the private workspace to the records beside the driver.  The calls *)
(* it makes to capture_eval.py are those of EvalCapture.  Run is a set of  *)
(* invocations for one arm, at the same time or one after the other: they  *)
(* share their three output files and nothing else.                        *)
(***************************************************************************)
EXTENDS EvalCapture

CONSTANTS
  Built,    \* what setup leaves in the fixture
  Control,  \* whether the arm is the control arm
  Nobody    \* no run

ASSUME DriverAssumption ==
  /\ Built \subseteq Tree /\ Control \in BOOLEAN
  /\ Nobody \notin Run /\ Absent \notin [run : Run, whole : BOOLEAN]

VARIABLES
  at,          \* where main is
  workspace,   \* "none", "present", or "gone" once any of it was removed
  modelStarted, evidenceRetained,  \* the two flags of the workspace
  code,        \* the exit code main saw; "term" is its own -15
  stopped,     \* history: runs whose session main told to stop
  sidecar,     \* the sanitized trace: Absent, or who wrote it and whether all
  destination  \* the destination record, likewise

driverVars == <<at, workspace, modelStarted, evidenceRetained, code, stopped,
                sidecar, destination>>
vars == <<captureVars, driverVars>>

Output == [run : Run, whole : BOOLEAN]

Before == {"begin", "mkdtemp"}
With == {"setup", "prepare", "preparing", "popen", "mark", "wait", "stop",
         "sidecar", "sanitize", "capture", "capturing", "retain", "enrich",
         "destination", "destinationDump"}
Over == {"ended", "killed"}

Init ==
  /\ tree = [r \in Run |-> NoFiles]
  /\ CaptureInit
  /\ at = [r \in Run |-> "begin"]
  /\ workspace = [r \in Run |-> "none"]
  /\ modelStarted = [r \in Run |-> FALSE]
  /\ evidenceRetained = [r \in Run |-> FALSE]
  /\ code = [r \in Run |-> "none"]
  /\ stopped = {}
  /\ sidecar = Absent /\ destination = Absent

To(r, place) == at' = [at EXCEPT ![r] = place]

flags == <<modelStarted, evidenceRetained>>
outputs == <<sidecar, destination>>

\* Refuse if any output is there.
Begin(r) ==
  /\ at[r] = "begin"
  /\ To(r, IF {sidecar, cap, destination} = {Absent} THEN "mkdtemp" ELSE "ended")
  /\ UNCHANGED <<captureVars, workspace, flags, code, stopped, outputs>>

MakeWorkspace(r) ==
  /\ at[r] = "mkdtemp"
  /\ workspace' = [workspace EXCEPT ![r] = "present"]
  /\ To(r, "setup")
  /\ UNCHANGED <<captureVars, flags, code, stopped, outputs>>

\* materialize, the Git commands, the foreign edits and the configuration.
Setup(r) ==
  /\ at[r] = "setup"
  /\ \E t \in Built : tree' = [tree EXCEPT ![r] = t]
  /\ To(r, "prepare")
  /\ UNCHANGED <<marker, session, trace, writes, prep, cap, job, callVars, faults>>
  /\ UNCHANGED <<workspace, flags, code, stopped, outputs>>

CallPrepare(r) ==
  /\ at[r] = "prepare"
  /\ PrepareCall(r)
  /\ To(r, "preparing")
  /\ UNCHANGED <<workspace, flags, code, stopped, outputs>>

\* The call to prepare or capture is over; an exception ends the with block.
Resume(r, from, next) ==
  /\ at[r] = from /\ job[r] \in Outcome
  /\ To(r, IF job[r] = "returned" THEN next ELSE "finally")
  /\ Goto(r, "none")
  /\ UNCHANGED <<world, prep, cap, callVars, faults>>
  /\ UNCHANGED <<workspace, flags, code, stopped, outputs>>

Popen(r) ==
  /\ at[r] = "popen"
  /\ SessionStarts(r)
  /\ To(r, "mark")
  /\ UNCHANGED <<prep, cap, job, callVars, faults>>
  /\ UNCHANGED <<workspace, flags, code, stopped, outputs>>

MarkStarted(r) ==
  /\ at[r] = "mark"
  /\ modelStarted' = [modelStarted EXCEPT ![r] = TRUE]
  /\ To(r, "wait")
  /\ UNCHANGED <<captureVars, workspace, evidenceRetained, code, stopped, outputs>>

\* The leader exited by itself.
WaitReturns(r) ==
  /\ at[r] = "wait" /\ session[r] # "leader"
  /\ \E exit \in {"zero", "failed"} : code' = [code EXCEPT ![r] = exit]
  /\ To(r, "sidecar")
  /\ UNCHANGED <<captureVars, workspace, flags, stopped, outputs>>

\* The wait times out: SIGTERM to the process group.
WaitTimesOut(r) ==
  /\ at[r] = "wait" /\ session[r] = "leader"
  /\ stopped' = stopped \cup {r}
  /\ To(r, "stop")
  /\ UNCHANGED <<captureVars, workspace, flags, code, outputs>>

\* Mutant: the driver does not wait for the session it told to stop.
StopNotAwaited(r) ==
  /\ at[r] = "stop"
  /\ code' = [code EXCEPT ![r] = "term"]
  /\ To(r, "sidecar")
  /\ UNCHANGED <<captureVars, workspace, flags, stopped, outputs>>

\* Mutant: the session's own exit code counts although it was told to stop.
OwnCodeKept(r) ==
  /\ at[r] = "stop" /\ session[r] # "leader"
  /\ \E exit \in {"zero", "failed"} : code' = [code EXCEPT ![r] = exit]
  /\ To(r, "sidecar")
  /\ UNCHANGED <<captureVars, workspace, flags, stopped, outputs>>

StopReturns(r) ==
  /\ at[r] = "stop" /\ session[r] # "leader"
  /\ code' = [code EXCEPT ![r] = "term"]
  /\ To(r, "sidecar")
  /\ UNCHANGED <<captureVars, workspace, flags, stopped, outputs>>

\* Mutant: the second wait has no timeout.
StopWaitsForEver(r) == FALSE /\ UNCHANGED vars

\* The session ignored SIGTERM for 15 seconds: TimeoutExpired.
StopTimesOut(r) ==
  /\ at[r] = "stop" /\ session[r] = "leader"
  /\ To(r, "finally")
  /\ UNCHANGED <<captureVars, workspace, flags, code, stopped, outputs>>

---------------------------------------------------------------------------
(* retain_before_enrichment and what follows it.                           *)

\* Mutant: an existing sidecar is opened for writing.
SidecarReplaced(r) ==
  /\ at[r] = "sidecar"
  /\ To(r, "sanitize") /\ sidecar' = [run |-> r, whole |-> FALSE]
  /\ UNCHANGED <<captureVars, workspace, flags, code, stopped, destination>>

OpenSidecar(r) ==
  /\ at[r] = "sidecar"
  /\ IF sidecar = Absent
       THEN To(r, "sanitize") /\ sidecar' = [run |-> r, whole |-> FALSE]
       ELSE To(r, "finally") /\ UNCHANGED sidecar
  /\ UNCHANGED <<captureVars, workspace, flags, code, stopped, destination>>

WriteSidecar(r) ==
  /\ at[r] = "sanitize"
  /\ sidecar' = [run |-> r, whole |-> TRUE]
  /\ To(r, "capture")
  /\ UNCHANGED <<captureVars, workspace, flags, code, stopped, destination>>

TerminalState(r) ==
  IF ~Control \/ code[r] # "zero" THEN "failed_to_reach_observable"
                                  ELSE "task_completed"

\* Mutant: evidence_retained is set before there is a record.
RetainedTooEarly(r) ==
  /\ at[r] = "capture"
  /\ CaptureCall(r, r, trace[r], TerminalState(r))
  /\ evidenceRetained' = [evidenceRetained EXCEPT ![r] = TRUE]
  /\ To(r, "capturing")
  /\ UNCHANGED <<workspace, modelStarted, code, stopped, outputs>>

CallCapture(r) ==
  /\ at[r] = "capture"
  /\ CaptureCall(r, r, trace[r], TerminalState(r))
  /\ To(r, "capturing")
  /\ UNCHANGED <<workspace, flags, code, stopped, outputs>>

MarkRetained(r) ==
  /\ at[r] = "retain"
  /\ evidenceRetained' = [evidenceRetained EXCEPT ![r] = TRUE]
  /\ To(r, "enrich")
  /\ UNCHANGED <<captureVars, workspace, modelStarted, code, stopped, outputs>>

\* Events are parsed and Git commands ask the origin; a session may have left
\* a checkout in which one of them fails.
Enrich(r) ==
  /\ at[r] = "enrich"
  /\ To(r, "destination") \/ To(r, "finally")
  /\ UNCHANGED <<captureVars, workspace, flags, code, stopped, outputs>>

OpenDestination(r) ==
  /\ at[r] = "destination"
  /\ IF destination = Absent
       THEN /\ To(r, "destinationDump")
            /\ destination' = [run |-> r, whole |-> FALSE]
       ELSE To(r, "finally") /\ UNCHANGED destination
  /\ UNCHANGED <<captureVars, workspace, flags, code, stopped, sidecar>>

WriteDestination(r) ==
  /\ at[r] = "destinationDump"
  /\ destination' = [run |-> r, whole |-> TRUE]
  /\ To(r, "finally")
  /\ UNCHANGED <<captureVars, workspace, flags, code, stopped, sidecar>>

\* Mutant: the workspace goes once a session was started and captured or not.
AlwaysRemoved(r) == TRUE

\* owned_workspace gives the workspace up ...
Removable(r) == ~modelStarted[r] \/ evidenceRetained[r]

\* ... in its finally clause.
Finally(r) ==
  /\ at[r] = "finally"
  /\ workspace' = [workspace EXCEPT ![r] = IF Removable(r) THEN "gone" ELSE @]
  /\ To(r, "ended")
  /\ UNCHANGED <<captureVars, flags, code, stopped, outputs>>

---------------------------------------------------------------------------
(* Faults.                                                                 *)

\* The fault comes before or while rmtree works.
MaybeRemoved(r) ==
  \E begun \in BOOLEAN :
    workspace' = [workspace EXCEPT ![r] =
                    IF begun /\ at[r] = "finally" /\ Removable(r) THEN "gone" ELSE @]

\* An exception or Ctrl-C.  Inside a call it goes through the caller; while
\* main waits it stops the session; in the finally clause rmtree fails.
Raises(r) ==
  /\ \/ /\ CallRaises(r)
        /\ UNCHANGED driverVars
     \/ /\ Strikes /\ job[r] = "none"
        /\ \/ /\ at[r] \in Before \cup {"finally"}
              /\ To(r, "ended") /\ UNCHANGED stopped
           \/ /\ at[r] \in With \ {"wait"}
              /\ To(r, "finally") /\ UNCHANGED stopped
           \/ /\ at[r] = "wait"
              /\ To(r, "stop") /\ stopped' = stopped \cup {r}
        /\ MaybeRemoved(r)
        /\ UNCHANGED <<world, prep, cap, job, callVars>>
        /\ UNCHANGED <<flags, code, outputs>>

\* The driver is killed (it handles no signal but Ctrl-C).  The session is in
\* a group of its own and goes on.
Kill(r) ==
  /\ Strikes
  /\ at[r] \notin Over
  /\ To(r, "killed") /\ Goto(r, "none")
  /\ MaybeRemoved(r)
  /\ UNCHANGED <<world, prep, cap, callVars>>
  /\ UNCHANGED <<flags, code, stopped, outputs>>

---------------------------------------------------------------------------
DriverStep(r) ==
  \/ Begin(r) \/ MakeWorkspace(r) \/ Setup(r) \/ CallPrepare(r)
  \/ Resume(r, "preparing", "popen")
  \/ Popen(r) \/ MarkStarted(r) \/ WaitReturns(r) \/ WaitTimesOut(r)
  \/ StopReturns(r) \/ StopTimesOut(r)
  \/ OpenSidecar(r) \/ WriteSidecar(r) \/ CallCapture(r)
  \/ Resume(r, "capturing", "retain")
  \/ MarkRetained(r) \/ Enrich(r) \/ OpenDestination(r) \/ WriteDestination(r)
  \/ Finally(r)
  \/ CallStep(r) /\ UNCHANGED driverVars

\* A session without a workspace has nowhere left to write.
Session(r) ==
  /\ \/ (SessionWrites(r) \/ SessionSays(r)) /\ workspace[r] = "present"
     \/ LeaderExits(r)
  /\ UNCHANGED driverVars

Next == \E r \in Run : DriverStep(r) \/ Session(r) \/ Raises(r) \/ Kill(r)

Spec == Init /\ [][Next]_vars

\* The driver keeps running, and its waits end when their time is up.  A
\* session may go on for ever.
FairSpec == Spec /\ \A r \in Run : WF_vars(DriverStep(r))

---------------------------------------------------------------------------
(* Properties.                                                             *)

\* What each variable holds.
TypeOK ==
  /\ CaptureTypeOK
  /\ at \in [Run -> Before \cup With \cup Over \cup {"finally"}]
  /\ workspace \in [Run -> {"none", "present", "gone"}]
  /\ modelStarted \in [Run -> BOOLEAN] /\ evidenceRetained \in [Run -> BOOLEAN]
  /\ code \in [Run -> {"none", "zero", "failed", "term"}]
  /\ stopped \subseteq Run
  /\ sidecar \in Output \cup {Absent} /\ destination \in Output \cup {Absent}

\* The run whose evidence the capture record holds.
recordOwner == IF Written(cap) THEN cap.run ELSE Nobody

\* From the moment model_started is set the evidence of a run is in its
\* workspace or in the finished record of that run, whatever raises, times out
\* or is killed, and whichever run wins the output files (owned_workspace).
EvidenceKept ==
  \A r \in Run : modelStarted[r] => workspace[r] = "present" \/ recordOwner = r

\* Every step of the drivers and sessions is one the promise allows.
Evidence == INSTANCE RetainedEvidence WITH
  workspaces <- {r \in Run : workspace[r] = "present"},
  bound <- {r \in Run : modelStarted[r]},
  owner <- recordOwner
Retention == Evidence!Spec

\* The three files beside the driver tell of one run, although several may
\* have passed the check for existing files together: a record rests on the
\* whole sidecar of its run, a destination on its finished record.
OneRunsFiles ==
  /\ cap # Absent => sidecar # Absent /\ sidecar.whole
  /\ Written(cap) => sidecar.run = cap.run
  /\ destination # Absent => Written(cap) /\ destination.run = cap.run

\* README of evals: capture retains "a final mode/hash manifest" (line 421),
\* of the worktree as it is from then on.
FinalManifest ==
  Written(cap) /\ workspace[cap.run] = "present" => cap.final = tree[cap.run]

\* A record describes the fixture as the session left it, in one state, even
\* if the session had to be stopped (main: the wait after killpg).
CaptureIsFinal == CaptureIsOneState /\ FinalManifest

\* A session the driver told to stop is never recorded as completed, whatever
\* it exits with (main: code = -15).
CompletedByItself ==
  Written(cap) /\ cap.terminal = "task_completed" => cap.run \notin stopped

\* A run comes to its end although its session may run for ever and ignore
\* SIGTERM, unless it is killed (main: both waits have a timeout).
RunEnds == \A r \in Run : <>(at[r] \in Over)

\* "If complete capture fails, it preserves the ignored private workspace and
\* prints its recovery path" (coordination-failed-capture.md, lines 34-35).
SessionEvidenceKept ==
  \A r \in Run : session[r] # "none" => workspace[r] = "present" \/ recordOwner = r
=============================================================================
