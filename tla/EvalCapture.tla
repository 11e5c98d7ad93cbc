----------------------------- MODULE EvalCapture -----------------------------
(***************************************************************************)
(* scripts/capture_eval.py: the calls prepare and capture, each against a  *)
(* fixture directory that the commands they start, and the model session,  *)
(* may write to.  The callers are modelled elsewhere: the operator in      *)
(* ManualRun, the driver in PilotRun.                                      *)
(*                                                                         *)
(* A call is a sequence of steps of the run it is made for (job) and ends  *)
(* as "returned" or "raised"; the caller takes the outcome from there.     *)
(***************************************************************************)
EXTENDS Naturals

CONSTANTS
  Run,        \* evaluation runs, each with a fixture directory of its own
  Files,      \* bound: file names in a fixture, 1 .. Files as sorted
  Texts,      \* contents that decode as UTF-8
  None,       \* there is no file of that name
  Absent,     \* there is no record at that path
  Partial,    \* a record was opened and not written to its end
  Orphans,    \* whether descendants of a session may outlive it
  MaxWrites,  \* bound: writes by commands and sessions together
  MaxFaults   \* bound: exceptions, interrupts and kills together

Name == 1 .. Files
Content == Texts \cup {"binary", "link"}
Tree == [Name -> Content \cup {None}]
Marker == {"absent", "file", "odd"}
Terminal == {"task_completed", "stopped_at_observable",
             "failed_to_reach_observable", "interrupted"}
Decoded == [Name -> Texts \cup {None}]
Preparation == [manifest : Tree]
Receipt == [run : Run, start : Tree, artifacts : Decoded, final : Tree,
            terminal : Terminal]

ASSUME CaptureAssumption ==
  /\ Files \in Nat /\ MaxWrites \in Nat /\ MaxFaults \in Nat
  /\ Orphans \in BOOLEAN
  /\ None \notin Content /\ "binary" \notin Texts /\ "link" \notin Texts
  /\ Absent # Partial
  /\ {Absent, Partial} \cap (Preparation \cup Receipt) = {}

VARIABLES
  tree,       \* what the fixture directory of each run holds
  marker,     \* what is at the path its absent_markers names
  session,    \* the model session: its leader, or descendants it left
  trace,      \* the session has written to its trace
  prep,       \* the preparation record of each run
  cap,        \* the capture record; every run here is told to write this one
  job,        \* the step a run's call to prepare or capture is at
  start,      \* the manifest the record in the making starts from
  listed,     \* names files() returned that are still to be read
  artifacts,  \* what capture read for its artifacts
  final,      \* what capture read for its final manifest
  terminal,   \* the terminal state capture was called with
  writes,     \* how many writes commands and sessions have made
  faults      \* how many faults have struck

world    == <<tree, marker, session, trace, writes>>
callVars == <<start, listed, artifacts, final, terminal>>
captureVars == <<tree, marker, session, trace, prep, cap, job, start, listed,
                 artifacts, final, terminal, writes, faults>>

NoFiles == [n \in Name |-> None]
regular(t) == {n \in Name : t[n] # None}

\* files: an empty directory, a missing one and one with a link all raise.
Ordinary(t) == regular(t) # {} /\ \A n \in Name : t[n] # "link"

Prepares == {"preflight", "built", "baseline", "compare", "prepOpen", "prepDump"}
Captures == {"list", "read", "relist", "reread", "marker", "capOpen", "capDump"}
Outcome == {"returned", "raised"}

Goto(r, step) == job' = [job EXCEPT ![r] = step]

CaptureInit ==
  /\ marker \in [Run -> {"absent"}]
  /\ session = [r \in Run |-> "none"]
  /\ trace = [r \in Run |-> FALSE]
  /\ prep = [r \in Run |-> Absent] /\ cap = Absent
  /\ job = [r \in Run |-> "none"]
  /\ start = [r \in Run |-> NoFiles]
  /\ listed = [r \in Run |-> {}]
  /\ artifacts = [r \in Run |-> NoFiles] /\ final = [r \in Run |-> NoFiles]
  /\ terminal = [r \in Run |-> "interrupted"]
  /\ writes = 0 /\ faults = 0

---------------------------------------------------------------------------
(* The model session and the commands prepare runs.                        *)

\* One file written, replaced or deleted.
TouchesTree(r) ==
  /\ writes < MaxWrites
  /\ writes' = writes + 1
  /\ \E n \in Name, c \in Content \cup {None} : tree' = [tree EXCEPT ![r][n] = c]

\* A command in the fixture: it may write a file, and the marker beside it.
CommandRuns(r) ==
  /\ \/ TouchesTree(r)
     \/ UNCHANGED <<tree, writes>>
  /\ \E m \in {marker[r], "file"} : marker' = [marker EXCEPT ![r] = m]
  /\ UNCHANGED <<session, trace, prep, cap, callVars, faults>>

SessionStarts(r) ==
  /\ session' = [session EXCEPT ![r] = "leader"]
  /\ UNCHANGED <<tree, marker, trace, writes>>

SessionWrites(r) ==
  /\ session[r] \in {"leader", "orphans"}
  /\ \/ TouchesTree(r) /\ UNCHANGED marker
     \/ /\ writes < MaxWrites
        /\ writes' = writes + 1
        /\ \E m \in Marker : marker' = [marker EXCEPT ![r] = m]
        /\ UNCHANGED tree
  /\ UNCHANGED <<session, trace, prep, cap, job, callVars, faults>>

SessionSays(r) ==
  /\ session[r] = "leader" /\ ~trace[r]
  /\ trace' = [trace EXCEPT ![r] = TRUE]
  /\ UNCHANGED <<tree, marker, session, writes, prep, cap, job, callVars, faults>>

LeaderExits(r) ==
  /\ session[r] = "leader"
  /\ \E left \in IF Orphans THEN {"gone", "orphans"} ELSE {"gone"} :
       session' = [session EXCEPT ![r] = left]
  /\ UNCHANGED <<tree, marker, trace, writes, prep, cap, job, callVars, faults>>

SessionStep(r) == SessionWrites(r) \/ SessionSays(r) \/ LeaderExits(r)

---------------------------------------------------------------------------
(* prepare.                                                                *)

PrepareCall(r) ==
  /\ start' = [start EXCEPT ![r] = tree[r]]
  /\ Goto(r, IF prep[r] = Absent /\ Ordinary(tree[r]) THEN "preflight" ELSE "raised")
  /\ UNCHANGED <<world, prep, cap, listed, artifacts, final, terminal, faults>>

\* Git commands and, for a planted defect, code of the fixture itself.
Preflight(r) ==
  /\ job[r] = "preflight"
  /\ CommandRuns(r)
  /\ \E problems \in BOOLEAN : Goto(r, IF problems THEN "raised" ELSE "built")

\* The fixture is as it was, and no marker is there yet.
CheckBuilt(r) ==
  /\ job[r] = "built"
  /\ Goto(r, IF tree[r] = start[r] /\ marker[r] = "absent" THEN "baseline" ELSE "raised")
  /\ UNCHANGED <<world, prep, cap, callVars, faults>>

Baseline(r) ==
  /\ job[r] = "baseline"
  /\ CommandRuns(r)
  /\ \E differs \in BOOLEAN : Goto(r, IF differs THEN "raised" ELSE "compare")

\* Mutant: nobody looks at what the baseline command did.
BaselineTrusted(r) ==
  /\ job[r] = "compare"
  /\ Goto(r, "prepOpen")
  /\ UNCHANGED <<world, prep, cap, callVars, faults>>

CheckAfterBaseline(r) ==
  /\ job[r] = "compare"
  /\ Goto(r, IF tree[r] = start[r] THEN "prepOpen" ELSE "raised")
  /\ UNCHANGED <<world, prep, cap, callVars, faults>>

\* write_new: open("x") fails if anything is there.
PrepOpen(r) ==
  /\ job[r] = "prepOpen"
  /\ IF prep[r] = Absent
       THEN Goto(r, "prepDump") /\ prep' = [prep EXCEPT ![r] = Partial]
       ELSE Goto(r, "raised") /\ UNCHANGED prep
  /\ UNCHANGED <<world, cap, callVars, faults>>

PrepDump(r) ==
  /\ job[r] = "prepDump"
  /\ prep' = [prep EXCEPT ![r] = [manifest |-> start[r]]]
  /\ Goto(r, "returned")
  /\ UNCHANGED <<world, cap, callVars, faults>>

---------------------------------------------------------------------------
(* capture.                                                                *)

\* The output is new, the preparation is complete and names this fixture,
\* and the trace is there and not empty.
Accepts(r, p, retained) ==
  cap = Absent /\ prep[p] \notin {Absent, Partial} /\ p = r /\ retained

CaptureCall(r, p, retained, state) ==
  /\ IF Accepts(r, p, retained)
       THEN Goto(r, "list") /\ start' = [start EXCEPT ![r] = prep[p].manifest]
       ELSE Goto(r, "raised") /\ UNCHANGED start
  /\ terminal' = [terminal EXCEPT ![r] = state]
  /\ artifacts' = [artifacts EXCEPT ![r] = NoFiles]
  /\ final' = [final EXCEPT ![r] = NoFiles]
  /\ UNCHANGED <<world, prep, cap, listed, faults>>

\* files(fixture), before each of the two passes.
List(r) ==
  /\ job[r] \in {"list", "relist"}
  /\ IF Ordinary(tree[r])
       THEN /\ Goto(r, IF job[r] = "list" THEN "read" ELSE "reread")
            /\ listed' = [listed EXCEPT ![r] = regular(tree[r])]
       ELSE Goto(r, "raised") /\ UNCHANGED listed
  /\ UNCHANGED <<world, prep, cap, start, artifacts, final, terminal, faults>>

\* files() sorts.
isNext(n, names) == n \in names /\ \A m \in names : n <= m

\* A name that became a link is read through to whatever it points at.
readable(c) == IF c = "link" THEN Texts ELSE {c}

\* Mutant: an artifact that does not decode is retained as it is.
BinaryRetained(r) ==
  /\ job[r] = "read"
  /\ \E n \in listed[r] :
       /\ isNext(n, listed[r])
       /\ artifacts' = [artifacts EXCEPT ![r][n] = tree[r][n]]
       /\ listed' = [listed EXCEPT ![r] = @ \ {n}]
       /\ UNCHANGED job
  /\ UNCHANGED <<world, prep, cap, start, final, terminal, faults>>

ReadArtifact(r) ==
  /\ job[r] = "read"
  /\ \E n \in listed[r] :
       /\ isNext(n, listed[r])
       /\ IF tree[r][n] \in {None, "binary"}
            THEN Goto(r, "raised") /\ UNCHANGED <<listed, artifacts>>
            ELSE /\ \E c \in readable(tree[r][n]) :
                      artifacts' = [artifacts EXCEPT ![r][n] = c]
                 /\ listed' = [listed EXCEPT ![r] = @ \ {n}]
                 /\ UNCHANGED job
  /\ UNCHANGED <<world, prep, cap, start, final, terminal, faults>>

ReadFinal(r) ==
  /\ job[r] = "reread"
  /\ \E n \in listed[r] :
       /\ isNext(n, listed[r])
       /\ IF tree[r][n] = None
            THEN Goto(r, "raised") /\ UNCHANGED <<listed, final>>
            ELSE /\ \E c \in readable(tree[r][n]) :
                      final' = [final EXCEPT ![r][n] = c]
                 /\ listed' = [listed EXCEPT ![r] = @ \ {n}]
                 /\ UNCHANGED job
  /\ UNCHANGED <<world, prep, cap, start, artifacts, terminal, faults>>

EndPass(r) ==
  /\ job[r] \in {"read", "reread"} /\ listed[r] = {}
  /\ Goto(r, IF job[r] = "read" THEN "relist" ELSE "marker")
  /\ UNCHANGED <<world, prep, cap, callVars, faults>>

\* A marker that is not an ordinary file raises.
ReadMarker(r) ==
  /\ job[r] = "marker"
  /\ Goto(r, IF marker[r] = "odd" THEN "raised" ELSE "capOpen")
  /\ UNCHANGED <<world, prep, cap, callVars, faults>>

\* Mutant: an existing capture is opened for writing.
CapReplaced(r) ==
  /\ job[r] = "capOpen"
  /\ Goto(r, "capDump") /\ cap' = Partial
  /\ UNCHANGED <<world, prep, callVars, faults>>

CapOpen(r) ==
  /\ job[r] = "capOpen"
  /\ IF cap = Absent
       THEN Goto(r, "capDump") /\ cap' = Partial
       ELSE Goto(r, "raised") /\ UNCHANGED cap
  /\ UNCHANGED <<world, prep, callVars, faults>>

\* Mutant: the final manifest is made of what the artifacts were read as.
OnePass(r) ==
  /\ job[r] = "capDump"
  /\ cap' = [run |-> r, start |-> start[r], artifacts |-> artifacts[r],
             final |-> artifacts[r], terminal |-> terminal[r]]
  /\ Goto(r, "returned")
  /\ UNCHANGED <<world, prep, callVars, faults>>

CapDump(r) ==
  /\ job[r] = "capDump"
  /\ cap' = [run |-> r, start |-> start[r], artifacts |-> artifacts[r],
             final |-> final[r], terminal |-> terminal[r]]
  /\ Goto(r, "returned")
  /\ UNCHANGED <<world, prep, callVars, faults>>

CallStep(r) ==
  \/ Preflight(r) \/ CheckBuilt(r) \/ Baseline(r) \/ CheckAfterBaseline(r)
  \/ PrepOpen(r) \/ PrepDump(r)
  \/ List(r) \/ ReadArtifact(r) \/ ReadFinal(r) \/ EndPass(r)
  \/ ReadMarker(r) \/ CapOpen(r) \/ CapDump(r)

Strikes ==
  /\ faults < MaxFaults
  /\ faults' = faults + 1

\* A read, a command or a write fails, a redaction would alter what it must
\* not, or the user interrupts: the call raises and leaves what it wrote.
CallRaises(r) ==
  /\ Strikes
  /\ job[r] \in Prepares \cup Captures
  /\ Goto(r, "raised")
  /\ UNCHANGED <<world, prep, cap, callVars>>

---------------------------------------------------------------------------
(* Properties of the records, whoever calls.                               *)

Written(record) == record \notin {Absent, Partial}

\* What each variable holds; artifacts in a record are text (capture, line 305).
CaptureTypeOK ==
  /\ tree \in [Run -> Tree] /\ marker \in [Run -> Marker]
  /\ session \in [Run -> {"none", "leader", "orphans", "gone"}]
  /\ trace \in [Run -> BOOLEAN]
  /\ prep \in [Run -> Preparation \cup {Absent, Partial}]
  /\ cap \in Receipt \cup {Absent, Partial}
  /\ job \in [Run -> Prepares \cup Captures \cup Outcome \cup {"none"}]
  /\ start \in [Run -> Tree] /\ listed \in [Run -> SUBSET Name]
  /\ artifacts \in [Run -> Decoded] /\ final \in [Run -> Tree]
  /\ terminal \in [Run -> Terminal]
  /\ writes \in Nat /\ faults \in Nat

\* A preparation record describes the fixture the session is started on,
\* whatever the commands of prepare did (prepare: "preflight changed fixture
\* files", "baseline changed fixture files").
PreparedIsStart ==
  \A r \in Run :
    Written(prep[r]) /\ session[r] = "none" /\ job[r] \notin Prepares
      => prep[r].manifest = tree[r]

\* A capture describes one state of one fixture: what its artifacts hold is
\* what its final manifest was taken from, and it carries the preparation of
\* that same fixture (capture).
CaptureIsOneState ==
  Written(cap) =>
    /\ cap.artifacts = cap.final
    /\ Written(prep[cap.run]) /\ cap.start = prep[cap.run].manifest

\* A record once opened is its run's for good: it is never removed, opened
\* again or replaced (write_new).
RecordsStay ==
  [][/\ cap # Absent => cap' = cap \/ (cap = Partial /\ Written(cap'))
     /\ Written(cap) => cap' = cap
     /\ \A r \in Run : Written(prep[r]) => prep'[r] = prep[r]]_captureVars

\* README of evals: "absent_markers lists marker paths that must not exist";
\* no ready record is written otherwise (lines 405-407).
PreparedWithoutMarker ==
  \A r \in Run :
    Written(prep[r]) /\ session[r] = "none" => marker[r] = "absent"
=============================================================================
