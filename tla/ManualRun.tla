------------------------------ MODULE ManualRun ------------------------------
(***************************************************************************)
(* Evaluation runs by hand, as evals/README.md describes them: the         *)
(* operator builds a fixture, calls capture_eval.py prepare, starts a      *)
(* session, waits for it to end and calls capture_eval.py capture, again   *)
(* if it fails.  Several runs go on side by side, and the operator may     *)
(* name the preparation of one when capturing another.                     *)
(***************************************************************************)
EXTENDS EvalCapture

CONSTANTS
  Built,   \* what the operator may build in a fixture directory
  States   \* the terminal states the operator may give capture

ASSUME OperatorAssumption == Built \subseteq Tree /\ States \subseteq Terminal

VARIABLE seen  \* history: what each file held during the two passes of a capture

vars == <<captureVars, seen>>

\* The two passes of capture over its fixture: the artifacts, then the manifest.
Pass == [first |-> {"list", "read"}, second |-> {"relist", "reread"}]

Init ==
  /\ tree \in [Run -> Built]
  /\ CaptureInit
  /\ seen = [r \in Run |-> [pass \in DOMAIN Pass |-> [n \in Name |-> {}]]]

\* The process of a call ends, and its variables with it.
ProcessEnds(r) ==
  /\ Goto(r, "none")
  /\ start' = [start EXCEPT ![r] = NoFiles]
  /\ listed' = [listed EXCEPT ![r] = {}]
  /\ artifacts' = [artifacts EXCEPT ![r] = NoFiles]
  /\ final' = [final EXCEPT ![r] = NoFiles]
  /\ terminal' = [terminal EXCEPT ![r] = "interrupted"]
  /\ UNCHANGED <<world, prep, cap>>

CallEnds(r) ==
  /\ job[r] \in Outcome
  /\ ProcessEnds(r)
  /\ UNCHANGED faults

Prepare(r) ==
  /\ job[r] = "none" /\ session[r] = "none"
  /\ PrepareCall(r)

\* A session is started on a ready record.
Launch(r) ==
  /\ job[r] = "none" /\ session[r] = "none" /\ Written(prep[r])
  /\ SessionStarts(r)
  /\ UNCHANGED <<prep, cap, job, callVars, faults>>

Capture(r) ==
  /\ job[r] = "none" /\ session[r] \in {"gone", "orphans"}
  /\ \E p \in Run, state \in States : CaptureCall(r, p, trace[r], state)

\* The machine stops, or the call is killed.
CallKilled(r) ==
  /\ Strikes
  /\ job[r] \in Prepares \cup Captures
  /\ ProcessEnds(r)

Step ==
  \E r \in Run :
    \/ Prepare(r) \/ Launch(r) \/ Capture(r) \/ CallEnds(r)
    \/ CallStep(r) \/ CallRaises(r) \/ CallKilled(r)
    \/ SessionStep(r)

\* What a call saw is forgotten when it has ended.
Observe ==
  seen' = [r \in Run |-> [pass \in DOMAIN Pass |-> [n \in Name |->
             IF job'[r] \notin Captures THEN {}
             ELSE seen[r][pass][n] \cup {c \in {tree'[r][n]} : job'[r] \in Pass[pass]}]]]

Next == Step /\ Observe

Spec == Init /\ [][Next]_vars

---------------------------------------------------------------------------
(* Properties.                                                             *)

\* A name that has become a link is read through to whatever it points at.
WasThere(held, c) == c \in held \/ "link" \in held

\* Descendants of the session may write while capture reads, so that its two passes
\* may be at odds; but nothing in the record is made up, mixed in from another run
\* or older than the call: the fixture held each artifact during the first pass and
\* each file of the final manifest during the second, which begins when the last
\* artifact has been read, and the preparation is that of this fixture (capture).
CaptureWasThere ==
  [][Written(cap') /\ ~Written(cap) =>
       LET r == cap'.run
       IN /\ \A n \in Name : /\ WasThere(seen[r].first[n], cap'.artifacts[n])
                             /\ WasThere(seen[r].second[n], cap'.final[n])
          /\ Written(prep[r]) /\ cap'.start = prep[r].manifest]_vars
=============================================================================
