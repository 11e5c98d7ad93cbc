------------------------- MODULE EvalCaptureProofs -------------------------
(***************************************************************************)
(* Lemmas about the steps of EvalCapture, for whoever calls them: what     *)
(* their types are, what they do to the records, and what a capture has    *)
(* read of a fixture that nobody writes to.                                *)
(***************************************************************************)
EXTENDS EvalCapture, TLAPS

\* Changing one file of one run's directory leaves a directory to every run.
LEMMA FileUpdate ==
  ASSUME NEW S, NEW f \in [Run -> [Name -> S]], NEW r \in Run, NEW n \in Name,
         NEW c \in S
  PROVE  [f EXCEPT ![r][n] = c] \in [Run -> [Name -> S]]
<1>1. [f[r] EXCEPT ![n] = c] \in [Name -> S]
  OBVIOUS
<1>2. [f EXCEPT ![r][n] = c] = [f EXCEPT ![r] = [f[r] EXCEPT ![n] = c]]
  OBVIOUS
<1> QED BY <1>1, <1>2

\* One write leaves trees.
LEMMA TouchTyped ==
  ASSUME tree \in [Run -> Tree], writes \in Nat, NEW r \in Run, TouchesTree(r)
  PROVE  tree' \in [Run -> Tree] /\ writes' \in Nat
<1>1. PICK n \in Name, c \in Content \cup {None} : tree' = [tree EXCEPT ![r][n] = c]
  BY DEF TouchesTree
<1>2. tree' \in [Run -> Tree]
  BY <1>1, FileUpdate DEF Tree
<1> QED BY <1>2 DEF TouchesTree

\* A prepared manifest is a tree.
LEMMA ManifestType ==
  ASSUME CaptureTypeOK, NEW r \in Run, Written(prep[r])
  PROVE  prep[r].manifest \in Tree
BY DEF CaptureTypeOK, Written, Preparation

\* What is read through a name decodes unless it is binary.
LEMMA ReadableType ==
  ASSUME NEW c \in Content, NEW d \in readable(c)
  PROVE  d \in Content /\ (c # "binary" => d \in Texts)
BY DEF readable, Content

\* The session and the commands keep every variable in its type.
LEMMA SessionTyped ==
  ASSUME CaptureTypeOK, NEW r \in Run, SessionStep(r)
  PROVE  CaptureTypeOK'
<1> USE DEF CaptureTypeOK, callVars
<1>1. CASE SessionWrites(r)
  <2>1. tree' \in [Run -> Tree] /\ marker' \in [Run -> Marker] /\ writes' \in Nat
    BY <1>1, TouchTyped DEF SessionWrites
  <2> QED BY <1>1, <2>1 DEF SessionWrites
<1>2. CASE SessionSays(r)
  BY <1>2 DEF SessionSays
<1>3. CASE LeaderExits(r)
  BY <1>3 DEF LeaderExits
<1> QED BY <1>1, <1>2, <1>3 DEF SessionStep

\* The commands of prepare do.
LEMMA CommandTyped ==
  ASSUME CaptureTypeOK, NEW r \in Run, CommandRuns(r)
  PROVE  /\ tree' \in [Run -> Tree] /\ marker' \in [Run -> Marker]
         /\ writes' \in Nat
BY TouchTyped DEF CaptureTypeOK, CommandRuns, Marker

\* Every step of prepare keeps every variable in its type.
LEMMA PrepareTyped ==
  ASSUME CaptureTypeOK, NEW r \in Run,
         \/ Preflight(r) \/ CheckBuilt(r) \/ Baseline(r) \/ CheckAfterBaseline(r)
         \/ PrepOpen(r) \/ PrepDump(r)
  PROVE  CaptureTypeOK'
<1> USE DEF CaptureTypeOK, callVars, world, Goto, Prepares, Outcome
<1>1. CASE Preflight(r) \/ Baseline(r)
  <2>1. CommandRuns(r)
    BY <1>1 DEF Preflight, Baseline
  <2> QED BY <1>1, <2>1, CommandTyped DEF Preflight, Baseline, CommandRuns
<1>2. CASE CheckBuilt(r) \/ CheckAfterBaseline(r)
  BY <1>2 DEF CheckBuilt, CheckAfterBaseline
<1>3. CASE PrepOpen(r)
  BY <1>3 DEF PrepOpen
<1>4. CASE PrepDump(r)
  BY <1>4 DEF PrepDump, Preparation
<1> QED BY <1>1, <1>2, <1>3, <1>4

\* Every step of capture keeps every variable in its type; in particular no
\* artifact is retained that does not decode.
LEMMA CaptureTyped ==
  ASSUME CaptureTypeOK, NEW r \in Run,
         \/ List(r) \/ ReadArtifact(r) \/ ReadFinal(r) \/ EndPass(r)
         \/ ReadMarker(r) \/ CapOpen(r) \/ CapDump(r)
  PROVE  CaptureTypeOK'
<1> USE DEF CaptureTypeOK, callVars, world, Goto, Captures, Outcome
<1>1. CASE List(r)
  BY <1>1 DEF List, regular
<1>2. CASE ReadArtifact(r)
  <2>1. PICK n \in listed[r] :
          IF tree[r][n] \in {None, "binary"}
            THEN Goto(r, "raised") /\ UNCHANGED <<listed, artifacts>>
            ELSE /\ \E c \in readable(tree[r][n]) :
                      artifacts' = [artifacts EXCEPT ![r][n] = c]
                 /\ listed' = [listed EXCEPT ![r] = @ \ {n}]
                 /\ UNCHANGED job
    BY <1>2 DEF ReadArtifact
  <2>2. n \in Name /\ tree[r][n] \in Content \cup {None}
    BY DEF Tree
  <2>3. CASE tree[r][n] \in {None, "binary"}
    BY <1>2, <2>1, <2>3 DEF ReadArtifact
  <2>4. CASE ~(tree[r][n] \in {None, "binary"})
    <3>1. PICK c \in readable(tree[r][n]) : artifacts' = [artifacts EXCEPT ![r][n] = c]
      BY <2>1, <2>4
    <3>2. c \in Texts \cup {None}
      BY <2>2, <2>4, <3>1, ReadableType
    <3>3. artifacts' \in [Run -> Decoded]
      BY <2>2, <3>1, <3>2, FileUpdate DEF Decoded
    <3> QED BY <1>2, <2>1, <2>4, <3>3 DEF ReadArtifact
  <2> QED BY <2>3, <2>4
<1>3. CASE ReadFinal(r)
  <2>1. PICK n \in listed[r] :
          IF tree[r][n] = None
            THEN Goto(r, "raised") /\ UNCHANGED <<listed, final>>
            ELSE /\ \E c \in readable(tree[r][n]) :
                      final' = [final EXCEPT ![r][n] = c]
                 /\ listed' = [listed EXCEPT ![r] = @ \ {n}]
                 /\ UNCHANGED job
    BY <1>3 DEF ReadFinal
  <2>2. n \in Name /\ tree[r][n] \in Content \cup {None}
    BY DEF Tree
  <2>3. CASE tree[r][n] = None
    BY <1>3, <2>1, <2>3 DEF ReadFinal
  <2>4. CASE ~(tree[r][n] = None)
    <3>1. PICK c \in readable(tree[r][n]) : final' = [final EXCEPT ![r][n] = c]
      BY <2>1, <2>4
    <3>2. c \in Content \cup {None}
      BY <2>2, <2>4, <3>1, ReadableType
    <3>3. final' \in [Run -> Tree]
      BY <2>2, <3>1, <3>2, FileUpdate DEF Tree
    <3> QED BY <1>3, <2>1, <2>4, <3>3 DEF ReadFinal
  <2> QED BY <2>3, <2>4
<1>4. CASE EndPass(r) \/ ReadMarker(r)
  BY <1>4 DEF EndPass, ReadMarker
<1>5. CASE CapOpen(r)
  BY <1>5 DEF CapOpen
<1>6. CASE CapDump(r)
  BY <1>6 DEF CapDump, Receipt
<1> QED BY <1>1, <1>2, <1>3, <1>4, <1>5, <1>6

\* Both calls start from typed arguments.
LEMMA CallsTyped ==
  ASSUME CaptureTypeOK, NEW r \in Run,
         \/ PrepareCall(r)
         \/ \E p \in Run, retained \in BOOLEAN, state \in Terminal :
              CaptureCall(r, p, retained, state)
  PROVE  CaptureTypeOK'
<1> USE DEF CaptureTypeOK, world, Goto, Prepares, Captures, Outcome
<1>1. CASE PrepareCall(r)
  BY <1>1 DEF PrepareCall
<1>2. ASSUME NEW p \in Run, NEW retained \in BOOLEAN, NEW state \in Terminal,
             CaptureCall(r, p, retained, state)
      PROVE  CaptureTypeOK'
  <2>1. start' \in [Run -> Tree] /\ job' \in [Run -> Prepares \cup Captures \cup Outcome \cup {"none"}]
    BY <1>2, ManifestType DEF CaptureCall, Accepts, Written
  <2>2. NoFiles \in Tree /\ NoFiles \in Decoded
    BY DEF NoFiles, Tree, Decoded
  <2> QED BY <1>2, <2>1, <2>2 DEF CaptureCall
<1> QED BY <1>1, <1>2

\* So does an exception.
LEMMA RaiseTyped ==
  ASSUME CaptureTypeOK, NEW r \in Run, CallRaises(r)
  PROVE  CaptureTypeOK'
BY DEF CaptureTypeOK, CallRaises, Strikes, callVars, world, Goto, Outcome

\* Nothing has happened yet.
LEMMA InitTyped ==
  ASSUME CaptureInit, tree \in [Run -> Tree]
  PROVE  CaptureTypeOK
<1>1. NoFiles \in Tree /\ NoFiles \in Decoded
  BY DEF NoFiles, Tree, Decoded
<1> QED BY <1>1 DEF CaptureInit, CaptureTypeOK, Marker, Terminal

---------------------------------------------------------------------------
(* The records.                                                            *)

\* Only one run has the capture record open.
OneWriter ==
  \A r \in Run :
    job[r] = "capDump" => cap = Partial /\ \A q \in Run : job[q] = "capDump" => q = r

\* A preparation record is opened and finished by one call.
Fresh ==
  \A r \in Run :
    /\ job[r] \in Prepares \ {"prepDump"} => prep[r] = Absent
    /\ job[r] = "prepDump" => prep[r] = Partial

\* From the last comparison on the fixture is the one that is recorded.
Compared == \A r \in Run : job[r] \in {"prepOpen", "prepDump"} => tree[r] = start[r]

\* What RecordsStay says of one step.
KeepsRecords ==
  /\ cap # Absent => cap' = cap \/ (cap = Partial /\ Written(cap'))
  /\ Written(cap) => cap' = cap
  /\ \A r \in Run : Written(prep[r]) => prep'[r] = prep[r]

\* What a step of a call does to the calls and to the record.
LEMMA CallMoves ==
  ASSUME CaptureTypeOK, NEW r \in Run, CallStep(r)
  PROVE  /\ \A q \in Run \ {r} : job'[q] = job[q]
         /\ \/ /\ job[r] \in Prepares /\ job'[r] \in Prepares \cup Outcome
               /\ cap' = cap
            \/ /\ job[r] \in Captures
               /\ job'[r] \in (Captures \ {"capDump"}) \cup {"raised"}
               /\ job[r] = "capDump" => job'[r] # "capDump"
               /\ cap' = cap
            \/ /\ job[r] = "capOpen" /\ job'[r] = "capDump"
               /\ cap = Absent /\ cap' = Partial
            \/ /\ job[r] = "capDump" /\ job'[r] = "returned"
               /\ cap' \in Receipt /\ cap'.run = r
<1> USE DEF CaptureTypeOK, Prepares, Captures, Outcome, Goto
<1>1. CASE Preflight(r) \/ CheckBuilt(r) \/ Baseline(r) \/ CheckAfterBaseline(r)
  BY <1>1 DEF Preflight, CheckBuilt, Baseline, CheckAfterBaseline, CommandRuns
<1>2. CASE PrepOpen(r) \/ PrepDump(r)
  BY <1>2 DEF PrepOpen, PrepDump
<1>3. CASE List(r) \/ EndPass(r) \/ ReadMarker(r)
  BY <1>3 DEF List, EndPass, ReadMarker
<1>4. CASE ReadArtifact(r) \/ ReadFinal(r)
  BY <1>4 DEF ReadArtifact, ReadFinal
<1>5. CASE CapOpen(r)
  BY <1>5 DEF CapOpen
<1>6. CASE CapDump(r)
  BY <1>6 DEF CapDump, Receipt
<1> QED BY <1>1, <1>2, <1>3, <1>4, <1>5, <1>6 DEF CallStep

\* A step of one run's call leaves the others' alone, and the session.
LEMMA CallFrame ==
  ASSUME CaptureTypeOK, NEW r \in Run, CallStep(r)
  PROVE  /\ \A q \in Run \ {r} :
              /\ job'[q] = job[q] /\ start'[q] = start[q] /\ listed'[q] = listed[q]
              /\ artifacts'[q] = artifacts[q] /\ final'[q] = final[q]
              /\ tree'[q] = tree[q] /\ prep'[q] = prep[q]
         /\ UNCHANGED <<session, trace, terminal>>
         /\ job[r] \in Prepares \cup Captures
         /\ job[r] \in Captures => UNCHANGED <<tree, prep, start>>
<1> USE DEF CaptureTypeOK, Prepares, Captures, Goto, world, callVars
<1>1. CASE Preflight(r) \/ Baseline(r)
  <2>1. CommandRuns(r)
    BY <1>1 DEF Preflight, Baseline
  <2>2. \A q \in Run \ {r} : tree'[q] = tree[q]
    BY <2>1 DEF CommandRuns, TouchesTree
  <2> QED BY <1>1, <2>1, <2>2 DEF Preflight, Baseline, CommandRuns
<1>2. CASE CheckBuilt(r) \/ CheckAfterBaseline(r) \/ PrepOpen(r) \/ PrepDump(r)
  BY <1>2 DEF CheckBuilt, CheckAfterBaseline, PrepOpen, PrepDump
<1>3. CASE List(r) \/ EndPass(r) \/ ReadMarker(r) \/ CapOpen(r) \/ CapDump(r)
  BY <1>3 DEF List, EndPass, ReadMarker, CapOpen, CapDump
<1>4. CASE ReadArtifact(r) \/ ReadFinal(r)
  BY <1>4 DEF ReadArtifact, ReadFinal
<1> QED BY <1>1, <1>2, <1>3, <1>4 DEF CallStep

\* A step of a call keeps every record, whoever else is calling: open("x")
\* lets one call through, and that call alone writes what it opened.
LEMMA CallKeepsRecords ==
  ASSUME CaptureTypeOK, OneWriter, Fresh, NEW r \in Run, CallStep(r)
  PROVE  OneWriter' /\ Fresh' /\ KeepsRecords
<1> USE DEF CaptureTypeOK, OneWriter, Fresh
<1>1. OneWriter'
  BY CallMoves, CaptureAssumption DEF Prepares, Captures, Outcome
<1>2. /\ cap # Absent => cap' = cap \/ (cap = Partial /\ Written(cap'))
      /\ Written(cap) => cap' = cap
  BY CallMoves, CaptureAssumption DEF Written, Prepares, Captures
<1>3. \/ UNCHANGED prep /\ (job'[r] \in Prepares => job[r] \in Prepares \ {"prepDump"})
         /\ job'[r] # "prepDump"
      \/ /\ job[r] = "prepOpen" /\ prep[r] = Absent /\ job'[r] = "prepDump"
         /\ prep' = [prep EXCEPT ![r] = Partial]
      \/ /\ job[r] = "prepDump" /\ job'[r] = "returned"
         /\ \A q \in Run \ {r} : prep'[q] = prep[q]
  <2> USE DEF Goto, Prepares, Captures
  <2>1. CASE Preflight(r) \/ CheckBuilt(r) \/ Baseline(r) \/ CheckAfterBaseline(r)
    BY <2>1 DEF Preflight, CheckBuilt, Baseline, CheckAfterBaseline, CommandRuns
  <2>2. CASE PrepOpen(r) \/ PrepDump(r)
    BY <2>2 DEF PrepOpen, PrepDump
  <2>3. CASE List(r) \/ EndPass(r) \/ ReadMarker(r) \/ CapOpen(r) \/ CapDump(r)
    BY <2>3 DEF List, EndPass, ReadMarker, CapOpen, CapDump
  <2>4. CASE ReadArtifact(r) \/ ReadFinal(r)
    BY <2>4 DEF ReadArtifact, ReadFinal
  <2> QED BY <2>1, <2>2, <2>3, <2>4 DEF CallStep
<1>4. \A q \in Run \ {r} : job'[q] = job[q]
  BY CallFrame
<1>5. Fresh'
  BY <1>3, <1>4, CaptureAssumption DEF Prepares
<1>6. \A q \in Run : Written(prep[q]) => prep'[q] = prep[q]
  BY <1>3, CaptureAssumption DEF Written, Prepares
<1> QED BY <1>1, <1>2, <1>5, <1>6 DEF KeepsRecords

\* From the last comparison on nothing writes, so what a preparation records
\* is the fixture as it is then.
LEMMA CallCompares ==
  ASSUME CaptureTypeOK, Compared, NEW r \in Run, CallStep(r)
  PROVE  /\ Compared'
         /\ prep'[r] # prep[r] => prep'[r] \in {Partial, [manifest |-> tree'[r]]}
         /\ tree' # tree => job[r] \in {"preflight", "baseline"}
<1> USE DEF CaptureTypeOK, Compared, Goto, world, callVars, Prepares, Captures
<1>1. \A q \in Run \ {r} : job'[q] = job[q] /\ start'[q] = start[q] /\ tree'[q] = tree[q]
  BY CallFrame
<1>2. CASE Preflight(r) \/ Baseline(r)
  <2>1. job'[r] \notin {"prepOpen", "prepDump"} /\ prep' = prep
    BY <1>2 DEF Preflight, Baseline, CommandRuns
  <2> QED BY <1>1, <1>2, <2>1 DEF Preflight, Baseline
<1>3. CASE CheckBuilt(r)
  BY <1>1, <1>3 DEF CheckBuilt
<1>4. CASE CheckAfterBaseline(r)
  BY <1>1, <1>4 DEF CheckAfterBaseline
<1>5. CASE PrepOpen(r)
  BY <1>1, <1>5 DEF PrepOpen
<1>6. CASE PrepDump(r)
  BY <1>1, <1>6 DEF PrepDump
<1>7. CASE List(r) \/ EndPass(r) \/ ReadMarker(r) \/ CapOpen(r) \/ CapDump(r)
  BY <1>1, <1>7 DEF List, EndPass, ReadMarker, CapOpen, CapDump
<1>8. CASE ReadArtifact(r) \/ ReadFinal(r)
  BY <1>1, <1>8 DEF ReadArtifact, ReadFinal
<1> QED BY <1>2, <1>3, <1>4, <1>5, <1>6, <1>7, <1>8 DEF CallStep

---------------------------------------------------------------------------
(* What a capture has read.                                                *)

\* What a pass over the fixture has gathered: all but the names to come.
Gathered(r) == [n \in Name |-> IF n \in listed[r] THEN None ELSE tree[r][n]]

\* A capture under way rests on the finished preparation of its fixture, and
\* both of its passes have read the fixture as it is.
Reads(r) ==
  job[r] \in Captures =>
    /\ Written(prep[r]) /\ start[r] = prep[r].manifest
    /\ job[r] # "list" => Ordinary(tree[r])
    /\ job[r] = "list" => artifacts[r] = NoFiles
    /\ job[r] = "read" => artifacts[r] = Gathered(r)
    /\ job[r] \in {"list", "read", "relist"} => final[r] = NoFiles
    /\ job[r] \in Captures \ {"list", "read"} => artifacts[r] = tree[r]
    /\ job[r] = "reread" => final[r] = Gathered(r)
    /\ job[r] \in {"marker", "capOpen", "capDump"} => final[r] = tree[r]

\* files() lists what is there.
LEMMA NothingGathered ==
  ASSUME CaptureTypeOK, NEW r \in Run, listed'[r] = regular(tree[r]), tree'[r] = tree[r]
  PROVE  Gathered(r)' = NoFiles
BY DEF Gathered, regular, NoFiles, CaptureTypeOK, Tree

\* One more name is read.
LEMMA OneMoreGathered ==
  ASSUME CaptureTypeOK, NEW r \in Run, NEW n \in listed[r], tree' = tree,
         listed' = [listed EXCEPT ![r] = @ \ {n}]
  PROVE  Gathered(r)' = [Gathered(r) EXCEPT ![n] = tree[r][n]]
BY DEF Gathered, CaptureTypeOK

\* No name is left to be read.
LEMMA AllGathered ==
  ASSUME CaptureTypeOK, NEW r \in Run, listed[r] = {}
  PROVE  Gathered(r) = tree[r]
BY DEF Gathered, CaptureTypeOK, Tree

\* A step of capture keeps what it has read true to the fixture.
LEMMA CallReads ==
  ASSUME CaptureTypeOK, NEW r \in Run, CallStep(r), job[r] \in Captures, Reads(r)
  PROVE  Reads(r)'
<1> USE DEF CaptureTypeOK, Goto, world, callVars, Captures
<1>1. UNCHANGED <<tree, prep, start>> /\ Written(prep[r])' /\ start'[r] = prep'[r].manifest
  BY CallFrame DEF Reads, Written
<1>2. Ordinary(tree[r])' <=> Ordinary(tree[r])
  BY <1>1 DEF Ordinary, regular
<1>3. CASE List(r)
  <2>1. CASE Ordinary(tree[r])
    <3>1. listed'[r] = regular(tree[r]) /\ UNCHANGED <<artifacts, final>>
      BY <1>3, <2>1 DEF List
    <3>2. Gathered(r)' = NoFiles
      BY <1>1, <3>1, NothingGathered
    <3>3. CASE job[r] = "list"
      <4>1. job'[r] = "read"
        BY <1>3, <2>1, <3>3 DEF List
      <4>2. artifacts'[r] = NoFiles /\ final'[r] = NoFiles
        BY <3>1, <3>3 DEF Reads
      <4> QED BY <1>1, <1>2, <2>1, <3>2, <4>1, <4>2 DEF Reads
    <3>4. CASE job[r] = "relist"
      <4>1. job'[r] = "reread"
        BY <1>3, <2>1, <3>4 DEF List
      <4>2. artifacts'[r] = tree'[r] /\ final'[r] = NoFiles
        BY <1>1, <3>1, <3>4 DEF Reads
      <4> QED BY <1>1, <1>2, <2>1, <3>2, <4>1, <4>2 DEF Reads
    <3> QED BY <1>3, <3>3, <3>4 DEF List
  <2>2. CASE ~Ordinary(tree[r])
    BY <1>3, <2>2 DEF List, Reads
  <2> QED BY <2>1, <2>2
<1>4. CASE ReadArtifact(r)
  <2>1. PICK n \in listed[r] :
          IF tree[r][n] \in {None, "binary"}
            THEN Goto(r, "raised") /\ UNCHANGED <<listed, artifacts>>
            ELSE /\ \E c \in readable(tree[r][n]) :
                      artifacts' = [artifacts EXCEPT ![r][n] = c]
                 /\ listed' = [listed EXCEPT ![r] = @ \ {n}]
                 /\ UNCHANGED job
    BY <1>4 DEF ReadArtifact
  <2>2. job[r] = "read" /\ final' = final
    BY <1>4 DEF ReadArtifact
  <2>3. CASE tree[r][n] \in {None, "binary"}
    BY <2>1, <2>3 DEF Reads
  <2>4. CASE ~(tree[r][n] \in {None, "binary"})
    <3>1. tree[r][n] # "link"
      BY <2>2 DEF Reads, Ordinary
    <3>2. artifacts' = [artifacts EXCEPT ![r][n] = tree[r][n]]
      BY <2>1, <2>4, <3>1 DEF readable
    <3>3. artifacts'[r] = [artifacts[r] EXCEPT ![n] = tree[r][n]]
      BY <3>2
    <3>4. artifacts'[r] = Gathered(r)'
      BY <1>1, <2>1, <2>2, <2>4, <3>3, OneMoreGathered DEF Reads
    <3>5. job'[r] = "read" /\ final'[r] = NoFiles
      BY <2>1, <2>2, <2>4 DEF Reads
    <3> QED BY <1>1, <1>2, <2>2, <3>4, <3>5 DEF Reads
  <2> QED BY <2>3, <2>4
<1>5. CASE ReadFinal(r)
  <2>1. PICK n \in listed[r] :
          IF tree[r][n] = None
            THEN Goto(r, "raised") /\ UNCHANGED <<listed, final>>
            ELSE /\ \E c \in readable(tree[r][n]) :
                      final' = [final EXCEPT ![r][n] = c]
                 /\ listed' = [listed EXCEPT ![r] = @ \ {n}]
                 /\ UNCHANGED job
    BY <1>5 DEF ReadFinal
  <2>2. job[r] = "reread" /\ artifacts' = artifacts
    BY <1>5 DEF ReadFinal
  <2>3. CASE tree[r][n] = None
    BY <2>1, <2>3 DEF Reads
  <2>4. CASE tree[r][n] # None
    <3>1. tree[r][n] # "link"
      BY <2>2 DEF Reads, Ordinary
    <3>2. final' = [final EXCEPT ![r][n] = tree[r][n]]
      BY <2>1, <2>4, <3>1 DEF readable
    <3>3. final'[r] = [final[r] EXCEPT ![n] = tree[r][n]]
      BY <3>2
    <3>4. final'[r] = Gathered(r)'
      BY <1>1, <2>1, <2>2, <2>4, <3>3, OneMoreGathered DEF Reads
    <3>5. job'[r] = "reread" /\ artifacts'[r] = tree'[r]
      BY <1>1, <2>1, <2>2, <2>4 DEF Reads
    <3> QED BY <1>1, <1>2, <2>2, <3>4, <3>5 DEF Reads
  <2> QED BY <2>3, <2>4
<1>6. CASE EndPass(r)
  <2>1. Gathered(r) = tree[r] /\ UNCHANGED <<artifacts, final>>
    BY <1>6, AllGathered DEF EndPass
  <2>2. CASE job[r] = "read"
    <3>1. job'[r] = "relist"
      BY <1>6, <2>2 DEF EndPass
    <3> QED BY <1>1, <1>2, <2>1, <2>2, <3>1 DEF Reads
  <2>3. CASE job[r] = "reread"
    <3>1. job'[r] = "marker"
      BY <1>6, <2>3 DEF EndPass
    <3> QED BY <1>1, <1>2, <2>1, <2>3, <3>1 DEF Reads
  <2> QED BY <1>6, <2>2, <2>3 DEF EndPass
<1>7. CASE ReadMarker(r)
  <2>1. job'[r] \in {"raised", "capOpen"} /\ job[r] = "marker" /\ UNCHANGED <<artifacts, final>>
    BY <1>7 DEF ReadMarker
  <2> QED BY <1>1, <1>2, <2>1 DEF Reads
<1>8. CASE CapOpen(r)
  <2>1. job'[r] \in {"raised", "capDump"} /\ job[r] = "capOpen" /\ UNCHANGED <<artifacts, final>>
    BY <1>8 DEF CapOpen
  <2> QED BY <1>1, <1>2, <2>1 DEF Reads
<1>9. CASE CapDump(r)
  BY <1>9 DEF CapDump, Reads
<1>10. ~(\/ Preflight(r) \/ CheckBuilt(r) \/ Baseline(r) \/ CheckAfterBaseline(r)
         \/ PrepOpen(r) \/ PrepDump(r))
  BY DEF Preflight, CheckBuilt, Baseline, CheckAfterBaseline, PrepOpen, PrepDump
<1> QED BY <1>3, <1>4, <1>5, <1>6, <1>7, <1>8, <1>9, <1>10 DEF CallStep

\* Nothing a capture rests on changes while others work.
LEMMA ReadsStay ==
  ASSUME NEW r \in Run, Reads(r), job'[r] = job[r], start'[r] = start[r],
         listed'[r] = listed[r], artifacts'[r] = artifacts[r], final'[r] = final[r],
         job[r] \in Captures => tree'[r] = tree[r] /\ prep'[r] = prep[r]
  PROVE  Reads(r)'
<1>1. CASE job[r] \in Captures
  <2>1. Gathered(r)' = Gathered(r)
    BY <1>1 DEF Gathered
  <2>2. Ordinary(tree[r])' <=> Ordinary(tree[r])
    BY <1>1 DEF Ordinary, regular
  <2>3. Written(prep[r])' <=> Written(prep[r])
    BY <1>1 DEF Written
  <2> QED BY <1>1, <2>1, <2>2, <2>3 DEF Reads
<1>2. CASE job[r] \notin Captures
  BY <1>2 DEF Reads
<1> QED BY <1>1, <1>2

\* The record a call to capture writes holds what it read: one state of the
\* fixture of its run, and the preparation of that fixture.
LEMMA CallRecords ==
  ASSUME CaptureTypeOK, OneWriter, NEW r \in Run, CallStep(r), Reads(r),
         Written(cap'), cap' # cap
  PROVE  /\ job[r] = "capDump" /\ job'[r] = "returned"
         /\ cap'.run = r /\ cap'.terminal = terminal[r]
         /\ cap'.artifacts = tree[r] /\ cap'.final = tree[r]
         /\ cap'.start = prep[r].manifest /\ Written(prep[r])
         /\ UNCHANGED <<tree, prep>>
<1>1. job[r] = "capDump" /\ job'[r] = "returned"
  BY CallMoves DEF Written
<1>2. CapDump(r)
  BY <1>1 DEF CallStep, Preflight, CheckBuilt, Baseline, CheckAfterBaseline,
     PrepOpen, PrepDump, List, ReadArtifact, ReadFinal, EndPass, ReadMarker, CapOpen
<1>3. /\ Written(prep[r]) /\ start[r] = prep[r].manifest
      /\ artifacts[r] = tree[r] /\ final[r] = tree[r]
  BY <1>1 DEF Reads, Captures
<1> QED BY <1>1, <1>2, <1>3, CallFrame DEF CapDump, Captures, world
=============================================================================
