--------------------------- MODULE ManualRunProofs ---------------------------
(***************************************************************************)
(* Theorems about ManualRun for any number of runs that are told to write  *)
(* the same capture, every fixture and any bounds, with their proofs.      *)
(*                                                                         *)
(* The argument: open("x") lets one call through to a record (OneWriter,   *)
(* Fresh), so a finished record is nobody's to change; prepare compares    *)
(* the fixture after the last command it runs and nobody writes to it then *)
(* (Compared, Called); and whatever descendants of the session write while *)
(* capture reads, each of its passes has gathered only what the fixture    *)
(* held during that pass (Sees).                                           *)
(***************************************************************************)
EXTENDS ManualRun, EvalCaptureProofs

\* The history of what was seen changes nothing else.
LEMMA HistoryOnly == [Next]_vars => [Step]_captureVars
BY DEF Next, vars

---------------------------------------------------------------------------
(* Types.                                                                  *)

\* The operator's steps keep every variable in its type.
LEMMA StepTyped == CaptureTypeOK /\ [Step]_captureVars => CaptureTypeOK'
<1> SUFFICES ASSUME CaptureTypeOK, [Step]_captureVars PROVE CaptureTypeOK'
  OBVIOUS
<1>1. ASSUME NEW r \in Run, Prepare(r) \/ Capture(r)
      PROVE  CaptureTypeOK'
  <2>1. CASE Prepare(r)
    BY <2>1, CallsTyped DEF Prepare
  <2>2. CASE Capture(r)
    <3>1. trace[r] \in BOOLEAN /\ States \subseteq Terminal
      BY OperatorAssumption DEF CaptureTypeOK
    <3> QED BY <2>2, <3>1, CallsTyped DEF Capture
  <2> QED BY <1>1, <2>1, <2>2
<1>2. ASSUME NEW r \in Run, Launch(r)
      PROVE  CaptureTypeOK'
  BY <1>2 DEF Launch, SessionStarts, CaptureTypeOK, callVars
<1>3. ASSUME NEW r \in Run, CallEnds(r) \/ CallKilled(r)
      PROVE  CaptureTypeOK'
  <2>1. NoFiles \in Tree /\ NoFiles \in Decoded
    BY DEF NoFiles, Tree, Decoded
  <2>2. faults' \in Nat
    BY <1>3 DEF CallEnds, CallKilled, Strikes, CaptureTypeOK
  <2>3. "interrupted" \in Terminal
    BY DEF Terminal
  <2> QED BY <1>3, <2>1, <2>2, <2>3
          DEF CallEnds, CallKilled, ProcessEnds, Goto, world, CaptureTypeOK
<1>4. ASSUME NEW r \in Run, CallStep(r)
      PROVE  CaptureTypeOK'
  BY <1>4, PrepareTyped, CaptureTyped DEF CallStep
<1>5. ASSUME NEW r \in Run, SessionStep(r) \/ CallRaises(r)
      PROVE  CaptureTypeOK'
  BY <1>5, SessionTyped, RaiseTyped
<1>6. CASE UNCHANGED captureVars
  BY <1>6 DEF captureVars, CaptureTypeOK
<1> QED BY <1>1, <1>2, <1>3, <1>4, <1>5, <1>6 DEF Step

\* The operator starts with fixtures and nothing else.
LEMMA InitTypeOK == Init => CaptureTypeOK
BY OperatorAssumption, InitTyped DEF Init

\* Every reachable state is well typed: in particular a record holds text
\* artifacts only (capture, line 305), whoever calls.
THEOREM TypeCorrect == Spec => []CaptureTypeOK
BY InitTypeOK, StepTyped, HistoryOnly, PTL DEF Spec

---------------------------------------------------------------------------
(* The records.                                                            *)

\* The operator prepares before a session and captures after it.
Called ==
  \A r \in Run :
    /\ job[r] \in Prepares => session[r] = "none"
    /\ job[r] \in Captures => session[r] \in {"gone", "orphans"}

RecordInv ==
  CaptureTypeOK /\ OneWriter /\ Fresh /\ Compared /\ Called /\ PreparedIsStart

\* A step that leaves fixtures and records alone, and starts no call further
\* than its beginning, keeps the invariant.
LEMMA QuietRecords ==
  ASSUME RecordInv, CaptureTypeOK', NEW r \in Run,
         UNCHANGED <<tree, prep, cap>>,
         \A q \in Run \ {r} : job'[q] = job[q] /\ start'[q] = start[q] /\ session'[q] = session[q],
         \/ job'[r] \notin Prepares \cup Captures /\ (session'[r] = "none" => session[r] = "none")
         \/ job'[r] = "preflight" /\ prep[r] = Absent /\ session'[r] = "none"
         \/ job'[r] = "list" /\ session'[r] \in {"gone", "orphans"},
         job[r] \in Prepares => prep[r] \in {Absent, Partial}
  PROVE  RecordInv' /\ KeepsRecords
<1> USE DEF RecordInv
<1>1. OneWriter' /\ Fresh' /\ Compared' /\ Called'
  BY DEF OneWriter, Fresh, Compared, Called, Prepares, Captures
<1>2. PreparedIsStart'
  BY DEF PreparedIsStart, Written, Prepares, Captures
<1>3. KeepsRecords
  BY DEF KeepsRecords
<1> QED BY <1>1, <1>2, <1>3

\* Every step keeps the invariant and the records.
LEMMA StepRecords == RecordInv /\ [Step]_captureVars => RecordInv' /\ KeepsRecords
<1> SUFFICES ASSUME RecordInv, [Step]_captureVars PROVE RecordInv' /\ KeepsRecords
  OBVIOUS
<1> USE DEF RecordInv
<1>0. CaptureTypeOK'
  BY StepTyped
<1>1. \A r \in Run : job[r] \in Prepares => prep[r] \in {Absent, Partial}
  BY DEF Fresh
<1>2. ASSUME NEW r \in Run, Prepare(r)
      PROVE  RecordInv' /\ KeepsRecords
  <2>1. job'[r] = "raised" \/ (job'[r] = "preflight" /\ prep[r] = Absent /\ session'[r] = "none")
    BY <1>2 DEF Prepare, PrepareCall, Goto, world, CaptureTypeOK
  <2>2. UNCHANGED <<tree, prep, cap, session>>
    BY <1>2 DEF Prepare, PrepareCall, world
  <2>3. \A q \in Run \ {r} : job'[q] = job[q] /\ start'[q] = start[q]
    BY <1>2 DEF Prepare, PrepareCall, Goto, CaptureTypeOK
  <2> QED BY <1>0, <1>1, <2>1, <2>2, <2>3, QuietRecords DEF Prepares, Captures
<1>3. ASSUME NEW r \in Run, Launch(r)
      PROVE  RecordInv' /\ KeepsRecords
  <2>1. UNCHANGED <<tree, prep, cap, job, start>> /\ job[r] = "none" /\ session'[r] = "leader"
    BY <1>3 DEF Launch, SessionStarts, callVars, CaptureTypeOK
  <2>2. \A q \in Run \ {r} : session'[q] = session[q]
    BY <1>3 DEF Launch, SessionStarts, CaptureTypeOK
  <2> QED BY <1>0, <1>1, <2>1, <2>2, QuietRecords DEF Prepares, Captures
<1>4. ASSUME NEW r \in Run, Capture(r)
      PROVE  RecordInv' /\ KeepsRecords
  <2>1. UNCHANGED <<tree, prep, cap, session>> /\ session[r] \in {"gone", "orphans"}
        /\ job'[r] \in {"raised", "list"}
    BY <1>4 DEF Capture, CaptureCall, Goto, world, CaptureTypeOK
  <2>2. \A q \in Run \ {r} : job'[q] = job[q] /\ start'[q] = start[q]
    BY <1>4 DEF Capture, CaptureCall, Goto, CaptureTypeOK
  <2> QED BY <1>0, <1>1, <2>1, <2>2, QuietRecords DEF Prepares, Captures
<1>5. ASSUME NEW r \in Run, CallEnds(r) \/ CallKilled(r) \/ CallRaises(r)
      PROVE  RecordInv' /\ KeepsRecords
  <2>1. /\ UNCHANGED <<tree, prep, cap, session>> /\ job'[r] \in {"raised", "none"}
        /\ \A q \in Run \ {r} : job'[q] = job[q] /\ start'[q] = start[q]
    BY <1>5 DEF CallEnds, CallKilled, CallRaises, ProcessEnds, Goto, world,
       callVars, CaptureTypeOK
  <2> QED BY <1>0, <1>1, <2>1, QuietRecords DEF Prepares, Captures
<1>6. ASSUME NEW r \in Run, CallStep(r)
      PROVE  RecordInv' /\ KeepsRecords
  <2>1. OneWriter' /\ Fresh' /\ KeepsRecords
    BY <1>6, CallKeepsRecords
  <2>2. Compared'
    BY <1>6, CallCompares
  <2>3. Called'
    BY <1>6, CallFrame, CallMoves DEF Called, Prepares, Captures, Outcome
  <2>4. PreparedIsStart'
    <3> SUFFICES ASSUME NEW q \in Run, Written(prep[q])', session'[q] = "none",
                        job'[q] \notin Prepares
                 PROVE  prep'[q].manifest = tree'[q]
      BY DEF PreparedIsStart
    <3>1. CASE q # r
      BY <1>6, <3>1, CallFrame DEF PreparedIsStart, Written
    <3>2. CASE q = r
      <4>1. CASE prep'[r] # prep[r]
        BY <1>6, <3>2, <4>1, CallCompares DEF Written
      <4>2. CASE prep'[r] = prep[r]
        BY <1>1, <1>6, <3>2, <4>2, CallFrame DEF Called, Written
      <4> QED BY <4>1, <4>2
    <3> QED BY <3>1, <3>2
  <2> QED BY <1>0, <2>1, <2>2, <2>3, <2>4
<1>7. ASSUME NEW r \in Run, SessionStep(r)
      PROVE  RecordInv' /\ KeepsRecords
  <2>1. /\ UNCHANGED <<prep, cap, job, start>> /\ session[r] \in {"leader", "orphans"}
        /\ session'[r] # "none" /\ (session[r] = "orphans" => session' = session)
    BY <1>7 DEF SessionStep, SessionWrites, SessionSays, LeaderExits, callVars, CaptureTypeOK
  <2>2. \A q \in Run \ {r} : tree'[q] = tree[q] /\ session'[q] = session[q]
    BY <1>7 DEF SessionStep, SessionWrites, SessionSays, LeaderExits, TouchesTree, CaptureTypeOK
  <2>3. OneWriter' /\ Fresh' /\ Called' /\ KeepsRecords
    BY <2>1, <2>2 DEF OneWriter, Fresh, Called, KeepsRecords
  <2>4. Compared'
    BY <2>1, <2>2 DEF Compared, Called, Prepares
  <2>5. PreparedIsStart'
    BY <2>1, <2>2 DEF PreparedIsStart, Written
  <2> QED BY <1>0, <2>3, <2>4, <2>5
<1>8. CASE UNCHANGED captureVars
  BY <1>0, <1>8 DEF captureVars, OneWriter, Fresh, Compared, Called,
     PreparedIsStart, KeepsRecords, Written
<1> QED BY <1>2, <1>3, <1>4, <1>5, <1>6, <1>7, <1>8 DEF Step

\* No call was made and no record written yet.
LEMMA InitRecords == Init => RecordInv
<1> SUFFICES ASSUME Init PROVE RecordInv
  OBVIOUS
<1>1. CaptureTypeOK
  BY InitTypeOK
<1>2. OneWriter /\ Fresh /\ Compared /\ Called /\ PreparedIsStart
  BY DEF Init, CaptureInit, OneWriter, Fresh, Compared, Called, PreparedIsStart,
     Written, Prepares, Captures
<1> QED BY <1>1, <1>2 DEF RecordInv

\* A preparation record describes the fixture its session is started on,
\* whatever the commands of prepare wrote and whatever struck.
THEOREM PreparationIsStart == Spec => []PreparedIsStart
<1>1. RecordInv => PreparedIsStart
  BY DEF RecordInv
<1> QED BY <1>1, InitRecords, StepRecords, HistoryOnly, PTL DEF Spec

\* No record is ever removed, opened again or replaced, however calls race
\* for the same path, fail, are repeated or are killed (write_new).
THEOREM RecordsAreKept == Spec => RecordsStay
BY InitRecords, StepRecords, HistoryOnly, PTL DEF Spec, RecordsStay, KeepsRecords

---------------------------------------------------------------------------
(* What a capture has seen, of a fixture that may change as it reads.      *)

\* What the two passes have gathered so far was there while they ran, and the
\* capture rests on the finished preparation of its fixture.
Sees(r) ==
  job[r] \in Captures =>
    /\ Written(prep[r]) /\ start[r] = prep[r].manifest
    /\ job[r] = "list" => artifacts[r] = NoFiles
    /\ job[r] \in {"list", "read", "relist"} => final[r] = NoFiles
    /\ \A n \in Name :
         /\ job[r] \in {"list", "read"} => tree[r][n] \in seen[r].first[n]
         /\ job[r] \in {"relist", "reread"} => tree[r][n] \in seen[r].second[n]
         /\ (job[r] = "read" /\ n \notin listed[r]) \/ job[r] \in Captures \ {"list", "read"}
              => WasThere(seen[r].first[n], artifacts[r][n])
         /\ (job[r] = "reread" /\ n \notin listed[r]) \/ job[r] \in {"marker", "capOpen", "capDump"}
              => WasThere(seen[r].second[n], final[r][n])

\* While a call goes on nothing it saw is forgotten, and what is there now is added.
LEMMA Remembers ==
  ASSUME Observe, NEW r \in Run, job'[r] \in Captures, NEW n \in Name
  PROVE  /\ seen[r].first[n] \subseteq seen'[r].first[n]
         /\ seen[r].second[n] \subseteq seen'[r].second[n]
         /\ job'[r] \in {"list", "read"} => tree'[r][n] \in seen'[r].first[n]
         /\ job'[r] \in {"relist", "reread"} => tree'[r][n] \in seen'[r].second[n]
BY DEF Observe, Pass

\* A call at the same step has seen all it had seen.
LEMMA SeesStay ==
  ASSUME NEW r \in Run, Sees(r), Observe,
         job'[r] = job[r], start'[r] = start[r], listed'[r] = listed[r],
         artifacts'[r] = artifacts[r], final'[r] = final[r],
         Written(prep[r]) => prep'[r] = prep[r]
  PROVE  Sees(r)'
<1> SUFFICES ASSUME job[r] \in Captures PROVE Sees(r)'
  BY DEF Sees
<1>1. Written(prep[r])' /\ start'[r] = prep'[r].manifest
  BY DEF Sees, Written
<1> QED BY <1>1, Remembers DEF Sees, WasThere

\* A step of capture gathers what is there.
LEMMA CallSees ==
  ASSUME CaptureTypeOK, NEW r \in Run, CallStep(r), job[r] \in Captures, Sees(r), Observe
  PROVE  Sees(r)'
<1> USE DEF CaptureTypeOK, Goto, world, callVars, Captures
<1>1. UNCHANGED <<tree, prep, start>> /\ Written(prep[r])' /\ start'[r] = prep'[r].manifest
  BY CallFrame DEF Sees, Written
<1> SUFFICES ASSUME job'[r] \in Captures PROVE Sees(r)'
  BY DEF Sees
<1>2. CASE List(r)
  <2>1. Ordinary(tree[r]) /\ UNCHANGED <<artifacts, final>> /\ listed'[r] = regular(tree[r])
    BY <1>2 DEF List
  <2>2. \A n \in Name : n \notin listed'[r] => tree'[r][n] = None
    BY <1>1, <2>1 DEF regular
  <2>3. CASE job[r] = "list"
    <3>1. job'[r] = "read"
      BY <1>2, <2>1, <2>3 DEF List
    <3>2. artifacts'[r] = NoFiles /\ final'[r] = NoFiles
      BY <2>1, <2>3 DEF Sees
    <3> QED BY <1>1, <2>2, <3>1, <3>2, Remembers DEF Sees, WasThere, NoFiles
  <2>4. CASE job[r] = "relist"
    <3>1. job'[r] = "reread"
      BY <1>2, <2>1, <2>4 DEF List
    <3>2. final'[r] = NoFiles
      BY <2>1, <2>4 DEF Sees
    <3> QED BY <1>1, <2>1, <2>2, <2>4, <3>1, <3>2, Remembers DEF Sees, WasThere, NoFiles
  <2> QED BY <1>2, <2>3, <2>4 DEF List
<1>3. CASE ReadArtifact(r)
  <2>1. PICK n \in listed[r] :
          /\ \E c \in readable(tree[r][n]) : artifacts' = [artifacts EXCEPT ![r][n] = c]
          /\ listed' = [listed EXCEPT ![r] = @ \ {n}]
    BY <1>3 DEF ReadArtifact
  <2>2. job[r] = "read" /\ job'[r] = "read" /\ final' = final
    BY <1>3 DEF ReadArtifact
  <2>3. WasThere(seen'[r].first[n], artifacts'[r][n])
    <3>1. PICK c \in readable(tree[r][n]) : artifacts' = [artifacts EXCEPT ![r][n] = c]
      BY <2>1
    <3>2. artifacts'[r][n] = c
      BY <3>1 DEF Decoded
    <3> QED BY <1>1, <2>2, <3>2, Remembers DEF WasThere, readable
  <2>4. \A m \in Name : m # n =>
           artifacts'[r][m] = artifacts[r][m] /\ (m \in listed'[r] <=> m \in listed[r])
    BY <2>1 DEF Decoded
  <2> QED BY <1>1, <2>2, <2>3, <2>4, Remembers DEF Sees, WasThere
<1>4. CASE ReadFinal(r)
  <2>1. PICK n \in listed[r] :
          /\ \E c \in readable(tree[r][n]) : final' = [final EXCEPT ![r][n] = c]
          /\ listed' = [listed EXCEPT ![r] = @ \ {n}]
    BY <1>4 DEF ReadFinal
  <2>2. job[r] = "reread" /\ job'[r] = "reread" /\ artifacts' = artifacts
    BY <1>4 DEF ReadFinal
  <2>3. WasThere(seen'[r].second[n], final'[r][n])
    <3>1. PICK c \in readable(tree[r][n]) : final' = [final EXCEPT ![r][n] = c]
      BY <2>1
    <3>2. final'[r][n] = c
      BY <3>1 DEF Tree
    <3> QED BY <1>1, <2>2, <3>2, Remembers DEF WasThere, readable
  <2>4. \A m \in Name : m # n =>
           final'[r][m] = final[r][m] /\ (m \in listed'[r] <=> m \in listed[r])
    BY <2>1 DEF Tree
  <2> QED BY <1>1, <2>2, <2>3, <2>4, Remembers DEF Sees, WasThere
<1>5. CASE EndPass(r)
  <2>1. listed[r] = {} /\ UNCHANGED <<artifacts, final>>
        /\ \/ job[r] = "read" /\ job'[r] = "relist"
           \/ job[r] = "reread" /\ job'[r] = "marker"
    BY <1>5 DEF EndPass
  <2> QED BY <1>1, <2>1, Remembers DEF Sees, WasThere
<1>6. CASE ReadMarker(r) \/ CapOpen(r)
  <2>1. /\ job[r] \in {"marker", "capOpen"} /\ job'[r] \in {"capOpen", "capDump"}
        /\ UNCHANGED <<artifacts, final>>
    BY <1>6 DEF ReadMarker, CapOpen
  <2> QED BY <1>1, <2>1, Remembers DEF Sees, WasThere
<1>7. CASE CapDump(r)
  BY <1>7 DEF CapDump
<1>8. ~(\/ Preflight(r) \/ CheckBuilt(r) \/ Baseline(r) \/ CheckAfterBaseline(r)
        \/ PrepOpen(r) \/ PrepDump(r))
  BY DEF Preflight, CheckBuilt, Baseline, CheckAfterBaseline, PrepOpen, PrepDump
<1> QED BY <1>2, <1>3, <1>4, <1>5, <1>6, <1>7, <1>8 DEF CallStep

SeenInv == RecordInv /\ \A r \in Run : Sees(r)

\* Every step keeps what calls have seen, and a record is finished only by a call
\* that has seen what it writes.
LEMMA StepSees == SeenInv /\ [Next]_vars => SeenInv'
<1> SUFFICES ASSUME SeenInv, [Next]_vars PROVE SeenInv'
  OBVIOUS
<1> USE DEF SeenInv
<1>1. RecordInv' /\ KeepsRecords /\ CaptureTypeOK
  BY StepRecords, HistoryOnly DEF RecordInv
<1>2. ASSUME NEW r \in Run, CallStep(r), Observe
      PROVE  SeenInv'
  <2>1. ASSUME NEW q \in Run
        PROVE  Sees(q)'
    <3>1. CASE q # r
      BY <1>1, <1>2, <3>1, CallFrame, SeesStay
    <3>2. CASE q = r /\ job[r] \in Captures
      BY <1>1, <1>2, <3>2, CallSees
    <3>3. CASE q = r /\ job[r] \notin Captures
      BY <1>1, <1>2, <3>3, CallMoves DEF Sees, Prepares, Captures, Outcome
    <3> QED BY <3>1, <3>2, <3>3
  <2> QED BY <1>1, <2>1
<1>3. ASSUME NEW r \in Run, Capture(r), Observe
      PROVE  SeenInv'
  <2>1. /\ UNCHANGED <<tree, prep, cap, session>>
        /\ \A q \in Run \ {r} : /\ job'[q] = job[q] /\ start'[q] = start[q]
                                /\ listed'[q] = listed[q]
                                /\ artifacts'[q] = artifacts[q] /\ final'[q] = final[q]
    BY <1>1, <1>3 DEF Capture, CaptureCall, Goto, world, CaptureTypeOK
  <2>2. Sees(r)'
    <3>1. PICK p \in Run, state \in States : CaptureCall(r, p, trace[r], state)
      BY <1>3 DEF Capture
    <3>2. artifacts'[r] = NoFiles /\ final'[r] = NoFiles
      BY <1>1, <3>1 DEF CaptureCall, CaptureTypeOK
    <3>3. CASE Accepts(r, p, trace[r])
      <4>1. job'[r] = "list" /\ start'[r] = prep'[r].manifest /\ Written(prep[r])'
        BY <1>1, <2>1, <3>1, <3>3 DEF CaptureCall, CaptureTypeOK, Accepts, Goto, Written
      <4> QED BY <1>3, <3>2, <4>1, Remembers DEF Sees, Captures
    <3>4. CASE ~Accepts(r, p, trace[r])
      <4>1. job'[r] = "raised"
        BY <1>1, <3>1, <3>4 DEF CaptureCall, CaptureTypeOK, Goto
      <4> QED BY <4>1 DEF Sees, Captures
    <3> QED BY <3>3, <3>4
  <2>3. \A q \in Run : Sees(q)'
    BY <1>3, <2>1, <2>2, SeesStay
  <2> QED BY <1>1, <2>3
<1>4. ASSUME NEW r \in Run, Observe,
             Prepare(r) \/ Launch(r) \/ CallEnds(r) \/ CallKilled(r) \/ CallRaises(r)
      PROVE  SeenInv'
  <2>1. /\ UNCHANGED prep
        /\ \A q \in Run \ {r} : /\ job'[q] = job[q] /\ start'[q] = start[q]
                                /\ listed'[q] = listed[q]
                                /\ artifacts'[q] = artifacts[q] /\ final'[q] = final[q]
        /\ job'[r] \notin Captures
    BY <1>1, <1>4 DEF Prepare, PrepareCall, Launch, SessionStarts, CallEnds, CallKilled,
       ProcessEnds, CallRaises, Goto, world, callVars, CaptureTypeOK, Captures
  <2>2. Sees(r)'
    BY <2>1 DEF Sees
  <2>3. \A q \in Run : Sees(q)'
    BY <1>4, <2>1, <2>2, SeesStay
  <2> QED BY <1>1, <2>3
<1>5. ASSUME NEW r \in Run, SessionStep(r), Observe
      PROVE  SeenInv'
  <2>1. UNCHANGED <<prep, job, start, listed, artifacts, final>>
    BY <1>5 DEF SessionStep, SessionWrites, SessionSays, LeaderExits, callVars
  <2>2. \A q \in Run : Sees(q)'
    BY <1>5, <2>1, SeesStay
  <2> QED BY <1>1, <2>2
<1>6. CASE UNCHANGED vars
  <2>1. \A q \in Run : Sees(q)'
    BY <1>6 DEF vars, captureVars, Sees, Written
  <2> QED BY <1>1, <2>1
<1> QED BY <1>2, <1>3, <1>4, <1>5, <1>6 DEF Next, Step

\* What CaptureWasThere says of the step that finishes a record.
Finished(r) ==
  /\ \A n \in Name : /\ WasThere(seen[r].first[n], cap'.artifacts[n])
                     /\ WasThere(seen[r].second[n], cap'.final[n])
  /\ Written(prep[r]) /\ cap'.start = prep[r].manifest

LEMMA RecordWasSeen ==
  ASSUME SeenInv, [Next]_vars, Written(cap'), ~Written(cap)
  PROVE  Finished(cap'.run)
<1>1. CaptureTypeOK /\ OneWriter
  BY DEF SeenInv, RecordInv
<1>2. PICK r \in Run : CallStep(r)
  BY <1>1 DEF Next, Step, vars, captureVars, Prepare, PrepareCall, Launch, Capture,
     CaptureCall, CallEnds, CallKilled, ProcessEnds, CallRaises, SessionStep,
     SessionWrites, SessionSays, LeaderExits, Written
<1>3. job[r] = "capDump" /\ job'[r] = "returned"
  BY <1>1, <1>2, CallMoves DEF Written
<1>4. CapDump(r)
  BY <1>2, <1>3 DEF CallStep, Preflight, CheckBuilt, Baseline, CheckAfterBaseline,
     PrepOpen, PrepDump, List, ReadArtifact, ReadFinal, EndPass, ReadMarker, CapOpen
<1>5. /\ cap'.run = r /\ cap'.artifacts = artifacts[r] /\ cap'.final = final[r]
      /\ cap'.start = start[r]
  BY <1>4 DEF CapDump
<1> QED BY <1>3, <1>5 DEF SeenInv, Sees, Captures, Finished

\* No call was made yet.
LEMMA InitSees == Init => SeenInv
BY InitRecords DEF Init, CaptureInit, SeenInv, Sees, Captures

\* For any number of descendants' writes at any moment of a call: what a record shows
\* was in the fixture of its run while the pass that read it went on, and it carries
\* the preparation of that fixture, whichever preparation the operator named
\* (capture).
THEOREM CapturesWereThere == Spec => CaptureWasThere
<1>1. ASSUME SeenInv, [Next]_vars
      PROVE  [Written(cap') /\ ~Written(cap) => Finished(cap'.run)]_vars
  BY <1>1, RecordWasSeen
<1> QED BY <1>1, InitSees, StepSees, PTL DEF Spec, CaptureWasThere, Finished
=============================================================================
