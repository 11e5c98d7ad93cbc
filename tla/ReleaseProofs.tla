---------------------------- MODULE ReleaseProofs ----------------------------
(***************************************************************************)
(* For every line of commits and every number of runs: a release is of a   *)
(* validated commit, the site is of a release or of what a repair was told *)
(* to show, and the versions an orderly maintainer releases increase along *)
(* the line.                                                               *)
(***************************************************************************)
EXTENDS Release, FiniteSetTheorems, SequenceTheorems, TLAPS

Outcome == {"waiting", "checked out", "queued", "passed", "failed", "cancelled"}

Run == [version : Version \cup {None}, ref : Version \cup {None}, commit : Nat,
        base : Nat, validate : Outcome, publish : Outcome, deploy : Outcome]

Typed ==
  /\ history \in Seq(CommitContents)
  /\ tags \in [Version -> Nat]
  /\ releases \in [Version -> Nat]
  /\ runs \in Seq(Run)
  /\ places \in [Version -> SUBSET Nat]
  /\ \A v \in Version : IsFiniteSet(places[v])
  /\ running \in 1 .. Len(runs) \cup {None}
  /\ pending \in 1 .. Len(runs) \cup {None}

\* What the jobs of a run have left behind: one for a tag, and one for a repair.
OfTag(run) ==
  /\ run.commit \in places[run.version]
  /\ run.validate = "passed" => <<run.version, run.commit>> \in validated
  /\ run.publish = "passed" => run.validate = "passed" /\ releases[run.version] # 0

OfRepair(run) ==
  /\ run.publish = "passed" /\ run.validate # "checked out"
  /\ run.validate = "passed" => run.commit \in repaired

TraceOf(run) ==
  /\ run.version # None => OfTag(run)
  /\ run.version = None => OfRepair(run)
  /\ run.deploy = "queued" => run.validate = "passed" /\ run.publish = "passed"

Traced == \A i \in 1 .. Len(runs) : TraceOf(runs[i])

\* Where a tag is and where a release was made, its tag was.
Placed ==
  \A v \in Version : /\ tags[v] # 0 => tags[v] \in places[v]
                     /\ releases[v] # 0 => releases[v] \in places[v]

Grouped ==
  /\ \A i \in 1 .. Len(runs) : runs[i].deploy = "queued" <=> i \in {running, pending}
  /\ running = None => pending = None
  /\ running # None => running # pending

IInv == /\ Typed /\ Traced /\ Placed /\ Grouped
        /\ ReleasedWasValidated /\ SiteIsOfARelease

LEMMA NoneIsNot == None \notin Nat /\ None \notin Version /\ Version \subseteq Nat
BY ReleaseAssumption DEF Version

LEMMA InitIInv == Init => IInv
<1> SUFFICES ASSUME Init PROVE IInv
  OBVIOUS
<1>1. PICK p \in Plans : history = p.history
  BY DEF Init
<1>2. /\ history \in Seq(CommitContents) /\ Len(history) > 0
  BY <1>1, ReleaseAssumption
<1>3. history[1].version \in Version
  <2>1. 1 \in 1 .. Len(history)
    BY <1>2, LenProperties
  <2>2. history[1] \in CommitContents
    BY <1>2, <2>1, ElementOfSeq
  <2> QED
    BY <2>2 DEF CommitContents
<1>4. /\ tags \in [Version -> Nat] /\ releases = tags
      /\ \A v \in Version : tags[v] # 0 => v = history[1].version /\ tags[v] = 1
      /\ tags[history[1].version] = 1
  BY <1>3 DEF Init
<1>5. /\ places \in [Version -> SUBSET Nat]
      /\ \A v \in Version : IsFiniteSet(places[v])
      /\ \A v \in Version : tags[v] # 0 => tags[v] \in places[v]
  <2>1. \A v \in Version : places[v] = {tags[v]} \ {0}
    BY DEF Init
  <2>2. \A v \in Version : IsFiniteSet({tags[v]})
    BY FS_Singleton
  <2>3. \A v \in Version : IsFiniteSet(places[v])
    BY <2>1, <2>2, FS_Subset
  <2> QED
    BY <2>1, <2>3, <1>4 DEF Init
<1>6. runs = <<>> /\ Len(runs) = 0 /\ runs \in Seq(Run)
  BY DEF Init
<1>7. Typed /\ Traced /\ Placed /\ Grouped
  BY <1>2, <1>4, <1>5, <1>6 DEF Init, Typed, Traced, Placed, Grouped
<1>8. ReleasedWasValidated /\ SiteIsOfARelease
  BY <1>3, <1>4 DEF Init, ReleasedWasValidated, SiteIsOfARelease
<1> QED
  BY <1>7, <1>8 DEF IInv

-----------------------------------------------------------------------------
(* The shapes of the step: what an action does to the runs.                *)

\* Changing one job's outcome of run i keeps its type.
LEMMA JobTyped ==
  ASSUME Typed, NEW i \in 1 .. Len(runs), NEW run \in Run,
         runs' = [runs EXCEPT ![i] = run]
  PROVE  /\ runs' \in Seq(Run) /\ Len(runs') = Len(runs)
         /\ runs'[i] = run
         /\ \A n \in 1 .. Len(runs) : n # i => runs'[n] = runs[n]
<1>1. runs \in Seq(Run) /\ Len(runs) \in Nat
  BY LenProperties DEF Typed
<1> QED
  BY <1>1, ExceptSeq

LEMMA AppendTyped ==
  ASSUME Typed, NEW run \in Run, runs' = Append(runs, run)
  PROVE  /\ runs' \in Seq(Run) /\ runs'[Len(runs) + 1] = run
         /\ \A n \in 1 .. Len(runs) : n \in 1 .. Len(runs') /\ runs'[n] = runs[n]
         /\ \A n \in 1 .. Len(runs') : n \in 1 .. Len(runs) \/ n = Len(runs) + 1
         /\ Len(runs) + 1 \notin 1 .. Len(runs) /\ Len(runs) + 1 # None
         /\ Len(runs) + 1 \in 1 .. Len(runs')
<1>1. runs \in Seq(Run) /\ Len(runs) \in Nat
  BY LenProperties DEF Typed
<1>2. /\ runs' \in Seq(Run) /\ Len(runs') = Len(runs) + 1
      /\ runs'[Len(runs) + 1] = run
      /\ \A n \in 1 .. Len(runs) : runs'[n] = runs[n]
  BY <1>1, AppendProperties
<1> QED
  BY <1>1, <1>2, NoneIsNot

\* A tag that has been on fewer than two commits has been on one.
LEMMA OnePlace ==
  ASSUME NEW S, IsFiniteSet(S), Cardinality(S) < 2, NEW a \in S, NEW b \in S
  PROVE  a = b
<1>1. {a, b} \subseteq S
  OBVIOUS
<1>2. IsFiniteSet({a, b}) /\ Cardinality({a, b}) <= Cardinality(S)
  BY <1>1, FS_Subset
<1>3. CASE a # b
  <2>1. IsFiniteSet({a}) /\ Cardinality({a}) = 1
    BY FS_Singleton
  <2>2. {a, b} = {a} \cup {b}
    OBVIOUS
  <2>3. Cardinality({a} \cup {b}) = Cardinality({a}) + 1
    <3>1. b \notin {a}
      BY <1>3
    <3> QED
      BY <3>1, <2>1, FS_AddElement, Zenon
  <2>4. Cardinality(S) \in Nat
    BY FS_CardinalityType
  <2>5. Cardinality({a, b}) = Cardinality({a}) + 1
    BY <2>2, <2>3, Zenon
  <2>6. Cardinality({a, b}) = 2
    BY <2>1, <2>5
  <2> QED
    BY <1>2, <2>4, <2>6
<1> QED
  BY <1>3

-----------------------------------------------------------------------------
(* The maintainer's steps.                                                 *)

LEMMA MergeStep ==
  ASSUME IInv, Merge
  PROVE  IInv'
BY DEF IInv, Merge, Typed, Traced, TraceOf, OfTag, OfRepair, Placed, Grouped, group, ghosts,
       ReleasedWasValidated, SiteIsOfARelease

LEMMA PushStep ==
  ASSUME IInv, NEW v \in Version, NEW c \in 1 .. Len(history), PushTag(v, c)
  PROVE  IInv'
<1> DEFINE run == [version |-> v, ref |-> None, commit |-> c, base |-> 0,
                   validate |-> "waiting", publish |-> "waiting", deploy |-> "waiting"]
<1>1. c \in Nat
  BY LenProperties DEF IInv, Typed
<1>2. run \in Run
  BY <1>1 DEF Run, Outcome
<1>3. runs' = Append(runs, run)
  BY NoneIsNot DEF PushTag, NewRun
<1>4. /\ runs' \in Seq(Run) /\ runs'[Len(runs) + 1] = run
      /\ \A n \in 1 .. Len(runs) : n \in 1 .. Len(runs') /\ runs'[n] = runs[n]
      /\ \A n \in 1 .. Len(runs') : n \in 1 .. Len(runs) \/ n = Len(runs) + 1
      /\ Len(runs) + 1 \notin 1 .. Len(runs) /\ Len(runs) + 1 # None
      /\ Len(runs) + 1 \in 1 .. Len(runs')
  BY <1>2, <1>3, AppendTyped DEF IInv
<1> HIDE DEF run
<1>5. /\ run.version = v /\ v # None /\ run.commit = c /\ run.validate = "waiting"
      /\ run.publish = "waiting" /\ run.deploy = "waiting"
  BY NoneIsNot DEF run
<1>6. /\ places \in [Version -> SUBSET Nat]
      /\ places' = [places EXCEPT ![v] = @ \cup {c}]
      /\ tags' = [tags EXCEPT ![v] = c]
      /\ UNCHANGED <<history, releases, running, pending, site, validated, repaired>>
  BY DEF PushTag, group, IInv, Typed
<1>7. /\ \A w \in Version : places[w] \subseteq places'[w] /\ (w # v => places'[w] = places[w])
      /\ places'[v] = places[v] \cup {c} /\ places' \in [Version -> SUBSET Nat]
  BY <1>1, <1>6
<1>8. \A w \in Version : IsFiniteSet(places'[w])
  <2>1. \A w \in Version : IsFiniteSet(places[w])
    BY DEF IInv, Typed
  <2>2. IsFiniteSet(places[v] \cup {c})
    BY <2>1, FS_AddElement
  <2> QED
    BY <2>1, <2>2, <1>7
<1>9. Typed'
  BY <1>1, <1>4, <1>6, <1>7, <1>8 DEF IInv, Typed
<1>10. Traced'
  <2>1. TraceOf(run)'
    BY <1>5, <1>6, <1>7 DEF TraceOf, OfTag, OfRepair
  <2>2. ASSUME NEW n \in 1 .. Len(runs) PROVE TraceOf(runs[n])'
    <3>1. runs[n] \in Run
      BY ElementOfSeq DEF IInv, Typed
    <3>2. TraceOf(runs[n])
      BY DEF IInv, Traced
    <3> QED
      BY <1>4, <1>6, <1>7, <3>1, <3>2 DEF TraceOf, OfTag, OfRepair, Run
  <2> QED
    BY <1>4, <2>1, <2>2 DEF Traced
<1>11. Placed'
  BY <1>1, <1>6, <1>7 DEF IInv, Placed, Typed
<1>12. Grouped'
  <2>1. Len(runs) + 1 \notin {running, pending}
    BY <1>4 DEF IInv, Typed
  <2>2. ASSUME NEW n \in 1 .. Len(runs')
        PROVE  runs'[n].deploy = "queued" <=> n \in {running, pending}
    BY <1>4, <1>5, <2>1 DEF IInv, Grouped
  <2> QED
    BY <1>6, <2>2 DEF IInv, Grouped
<1>13. ReleasedWasValidated'
  <2> SUFFICES ASSUME NEW w \in Version, releases[w] # 0, Cardinality(places'[w]) < 2
               PROVE  <<w, releases[w]>> \in validated
    BY <1>6 DEF ReleasedWasValidated
  <2>1. Cardinality(places[w]) <= Cardinality(places'[w])
    BY <1>7, <1>8, FS_Subset
  <2>2. Cardinality(places[w]) \in Nat /\ Cardinality(places'[w]) \in Nat
    BY <1>8, FS_CardinalityType DEF IInv, Typed
  <2> QED
    BY <2>1, <2>2 DEF IInv, ReleasedWasValidated
<1>14. SiteIsOfARelease'
  BY <1>6 DEF IInv, SiteIsOfARelease
<1> QED
  BY <1>9, <1>10, <1>11, <1>12, <1>13, <1>14 DEF IInv

LEMMA DeleteStep ==
  ASSUME IInv, NEW v \in Version, DeleteTag(v)
  PROVE  IInv'
<1>1. /\ tags' = [tags EXCEPT ![v] = 0]
      /\ UNCHANGED <<history, runs, releases, running, pending, site, places, validated,
                     repaired>>
  BY DEF DeleteTag, group
<1>2. Typed' /\ Placed'
  BY <1>1 DEF IInv, Typed, Placed
<1> QED
  BY <1>1, <1>2 DEF IInv, Traced, TraceOf, OfTag, OfRepair, Grouped, ReleasedWasValidated, SiteIsOfARelease

LEMMA RepairStep ==
  ASSUME IInv, NEW ref \in Version \cup {None}, NEW c \in 0 .. Len(history), Repair(ref, c)
  PROVE  IInv'
<1> DEFINE run == [version |-> None, ref |-> ref, commit |-> c, base |-> 0,
                   validate |-> "waiting", publish |-> "passed", deploy |-> "waiting"]
<1>1. c \in Nat
  BY LenProperties DEF IInv, Typed
<1>2. run \in Run
  BY <1>1 DEF Run, Outcome
<1>3. runs' = Append(runs, run)
  BY DEF Repair, NewRun
<1>4. /\ runs' \in Seq(Run) /\ runs'[Len(runs) + 1] = run
      /\ \A n \in 1 .. Len(runs) : n \in 1 .. Len(runs') /\ runs'[n] = runs[n]
      /\ \A n \in 1 .. Len(runs') : n \in 1 .. Len(runs) \/ n = Len(runs) + 1
      /\ Len(runs) + 1 \notin 1 .. Len(runs) /\ Len(runs) + 1 # None
      /\ Len(runs) + 1 \in 1 .. Len(runs')
  BY <1>2, <1>3, AppendTyped DEF IInv
<1> HIDE DEF run
<1>5. /\ run.version = None /\ run.commit = c /\ run.validate = "waiting"
      /\ run.publish = "passed" /\ run.deploy = "waiting"
  BY DEF run
<1>6. UNCHANGED <<history, tags, releases, running, pending, site, places, validated,
                  repaired>>
  BY DEF Repair, group, ghosts
<1>7. Typed'
  BY <1>4, <1>6 DEF IInv, Typed
<1>8. Traced'
  <2>1. TraceOf(run)'
    BY <1>5 DEF TraceOf, OfTag, OfRepair
  <2>2. ASSUME NEW n \in 1 .. Len(runs) PROVE TraceOf(runs[n])'
    BY <1>4, <1>6 DEF IInv, Traced, TraceOf, OfTag, OfRepair
  <2> QED
    BY <1>4, <2>1, <2>2 DEF Traced
<1>9. Grouped'
  <2>1. Len(runs) + 1 \notin {running, pending}
    BY <1>4 DEF IInv, Typed
  <2>2. ASSUME NEW n \in 1 .. Len(runs')
        PROVE  runs'[n].deploy = "queued" <=> n \in {running, pending}
    BY <1>4, <1>5, <2>1 DEF IInv, Grouped
  <2> QED
    BY <1>6, <2>2 DEF IInv, Grouped
<1> QED
  BY <1>6, <1>7, <1>8, <1>9
  DEF IInv, Placed, ReleasedWasValidated, SiteIsOfARelease

-----------------------------------------------------------------------------
(* The jobs' steps: run i becomes another of its version.                  *)

\* A run that is as far as it was.
LEMMA TraceKept ==
  ASSUME NEW n \in 1 .. Len(runs), runs[n] \in Run, TraceOf(runs[n]),
         runs'[n].version = runs[n].version, runs'[n].commit = runs[n].commit,
         runs'[n].validate = runs[n].validate, runs'[n].publish = runs[n].publish,
         runs'[n].deploy = "queued" =>
           runs[n].deploy = "queued" \/ (runs[n].validate = "passed" /\ runs[n].publish = "passed"),
         places' = places, validated \subseteq validated', repaired \subseteq repaired',
         \A v \in Version : releases[v] # 0 => releases'[v] # 0
  PROVE  TraceOf(runs[n])'
<1>1. runs[n].version \in Version \cup {None}
  BY DEF Run
<1>2. ASSUME runs[n].version # None PROVE OfTag(runs[n])'
  BY <1>1, <1>2 DEF TraceOf, OfTag
<1>3. ASSUME runs[n].version = None PROVE OfRepair(runs[n])'
  BY <1>3 DEF TraceOf, OfRepair
<1> QED
  BY <1>2, <1>3 DEF TraceOf

\* What every such step keeps, whatever it does to the deployments.
LEMMA JobKeeps ==
  ASSUME IInv, NEW i \in 1 .. Len(runs), NEW run \in Run,
         runs' = [runs EXCEPT ![i] = run],
         run.version = runs[i].version,
         UNCHANGED <<history, tags, places, running, pending>>,
         validated \subseteq validated', repaired \subseteq repaired', releases' \in [Version -> Nat],
         \A v \in Version : releases[v] # 0 => releases'[v] # 0,
         TraceOf(run)'
  PROVE  /\ Typed' /\ Traced'
         /\ Len(runs') = Len(runs) /\ runs'[i] = run
         /\ \A n \in 1 .. Len(runs) : n # i => runs'[n] = runs[n]
<1>1. /\ runs' \in Seq(Run) /\ Len(runs') = Len(runs)
      /\ runs'[i] = run
      /\ \A n \in 1 .. Len(runs) : n # i => runs'[n] = runs[n]
  BY JobTyped DEF IInv
<1>2. Typed'
  BY <1>1 DEF IInv, Typed
<1>3. ASSUME NEW n \in 1 .. Len(runs), n # i PROVE TraceOf(runs[n])'
  <2>1. runs[n] \in Run /\ TraceOf(runs[n])
    BY ElementOfSeq DEF IInv, Typed, Traced
  <2>2. runs'[n] = runs[n]
    BY <1>1, <1>3
  <2> QED
    BY <2>1, <2>2, TraceKept
<1>4. Traced'
  BY <1>1, <1>3 DEF Traced
<1> QED
  BY <1>1, <1>2, <1>4

\* And more, when deployments and site stay as they are.
LEMMA JobInv ==
  ASSUME IInv, NEW i \in 1 .. Len(runs), NEW run \in Run,
         runs' = [runs EXCEPT ![i] = run],
         run.version = runs[i].version,
         run.deploy = "queued" <=> runs[i].deploy = "queued",
         UNCHANGED <<history, tags, places>>, UNCHANGED group,
         validated \subseteq validated', repaired \subseteq repaired',
         releases' \in [Version -> Nat],
         \A v \in Version :
           releases'[v] = releases[v] \/ (releases'[v] = tags[v] /\ tags[v] # 0),
         TraceOf(run)', ReleasedWasValidated'
  PROVE  IInv'
<1>1. \A v \in Version : releases[v] # 0 => releases'[v] # 0
  OBVIOUS
<1>2. UNCHANGED <<history, tags, places, running, pending, site>>
  BY DEF group
<1>3. /\ Typed' /\ Traced'
      /\ Len(runs') = Len(runs) /\ runs'[i] = run
      /\ \A n \in 1 .. Len(runs) : n # i => runs'[n] = runs[n]
  BY <1>1, <1>2, JobKeeps
<1>4. Placed'
  BY <1>2 DEF IInv, Placed
<1>5. Grouped'
  BY <1>2, <1>3 DEF IInv, Grouped
<1>6. SiteIsOfARelease'
  BY <1>1, <1>2 DEF IInv, SiteIsOfARelease
<1> QED
  BY <1>3, <1>4, <1>5, <1>6 DEF IInv

\* A run, as the invariant has it.
LEMMA RunOf ==
  ASSUME IInv, NEW i \in 1 .. Len(runs)
  PROVE  runs[i] \in Run /\ TraceOf(runs[i]) /\ DOMAIN runs = 1 .. Len(runs)
BY ElementOfSeq, LenProperties DEF IInv, Typed, Traced

LEMMA RerunShape ==
  ASSUME NEW i \in 1 .. Len(runs), NEW job, Rerun(i, job)
  PROVE  \E run :
           /\ runs' = [runs EXCEPT ![i] = run]
           /\ \/ run = [runs[i] EXCEPT !.deploy = "waiting", !.base = 0,
                          !.validate = "waiting",
                          !.publish = IF runs[i].version = None THEN @ ELSE "waiting"]
              \/ /\ runs[i].version # None
                 /\ run = [runs[i] EXCEPT !.deploy = "waiting", !.publish = "waiting"]
              \/ run = [runs[i] EXCEPT !.deploy = "waiting"]
BY DEF Rerun

LEMMA RerunStep ==
  ASSUME IInv, NEW i \in 1 .. Len(runs), NEW job, Rerun(i, job)
  PROVE  IInv'
<1>1. runs[i] \in Run /\ TraceOf(runs[i]) /\ DOMAIN runs = 1 .. Len(runs)
  BY RunOf
<1>2. /\ UNCHANGED <<history, tags, releases, places, validated, repaired>>
      /\ UNCHANGED group /\ IsOver(runs[i])
  BY DEF Rerun, ghosts
<1>3. PICK run : /\ runs' = [runs EXCEPT ![i] = run]
                 /\ \/ run = [runs[i] EXCEPT !.deploy = "waiting", !.base = 0,
                                !.validate = "waiting",
                                !.publish = IF runs[i].version = None THEN @ ELSE "waiting"]
                    \/ /\ runs[i].version # None
                       /\ run = [runs[i] EXCEPT !.deploy = "waiting", !.publish = "waiting"]
                    \/ run = [runs[i] EXCEPT !.deploy = "waiting"]
  BY RerunShape
<1>4. run \in Run
  <2>1. /\ runs[i].version \in Version \cup {None} /\ runs[i].commit \in Nat
        /\ runs[i].ref \in Version \cup {None}
        /\ runs[i].base \in Nat /\ runs[i].validate \in Outcome
        /\ runs[i].publish \in Outcome
    BY <1>1 DEF Run
  <2>2. run = [version |-> runs[i].version, ref |-> runs[i].ref, commit |-> runs[i].commit,
               base |-> run.base, validate |-> run.validate, publish |-> run.publish,
               deploy |-> "waiting"]
    BY <1>1, <1>3 DEF Run
  <2>3. /\ run.base \in {0, runs[i].base} /\ run.validate \in {"waiting", runs[i].validate}
        /\ run.publish \in {"waiting", runs[i].publish}
    BY <1>1, <1>3 DEF Run
  <2>4. "waiting" \in Outcome /\ 0 \in Nat
    BY DEF Outcome
  <2> QED
    BY <2>1, <2>2, <2>3, <2>4 DEF Run
<1>5. run.version = runs[i].version /\ run.commit = runs[i].commit
  BY <1>1, <1>3 DEF Run
<1>6. run.deploy = "waiting" /\ runs[i].deploy # "queued"
  BY <1>1, <1>2, <1>3 DEF Run, IsOver, TraceOf, OfTag, OfRepair
<1>7. TraceOf(run)'
  BY <1>1, <1>2, <1>3 DEF Run, TraceOf, OfTag, OfRepair
<1>8. ReleasedWasValidated'
  BY <1>2 DEF IInv, ReleasedWasValidated
<1>9. /\ releases' \in [Version -> Nat]
      /\ \A v \in Version : releases'[v] = releases[v]
  BY <1>2 DEF IInv, Typed
<1>10. /\ UNCHANGED <<history, tags, places>> /\ validated \subseteq validated'
       /\ repaired \subseteq repaired' /\ UNCHANGED group
  BY <1>2
<1>11. run.deploy = "queued" <=> runs[i].deploy = "queued"
  BY <1>6
<1> QED
  BY <1>3, <1>4, <1>5, <1>7, <1>8, <1>9, <1>10, <1>11, JobInv

LEMMA CheckoutStep ==
  ASSUME IInv, NEW i \in 1 .. Len(runs), Checkout(i)
  PROVE  IInv'
<1>1. runs[i] \in Run /\ TraceOf(runs[i]) /\ DOMAIN runs = 1 .. Len(runs)
  BY RunOf
<1>2. UNCHANGED <<history, tags, releases, places, validated, repaired>> /\ UNCHANGED group
  BY DEF Checkout, ghosts
<1>3. PICK base \in infer_stable_release_base(runs[i].commit) :
        runs' = [runs EXCEPT ![i].validate = "checked out", ![i].base = base]
  BY DEF Checkout
<1>4. base \in Nat
  <2>1. base \in 1 .. runs[i].commit - 1 \cup {0}
    BY <1>3 DEF infer_stable_release_base, tagsBefore
  <2>2. runs[i].commit \in Nat
    BY <1>1 DEF Run
  <2> QED
    BY <2>1, <2>2
<1> PICK run : run = [runs[i] EXCEPT !.validate = "checked out", !.base = base]
  OBVIOUS
<1>5. runs' = [runs EXCEPT ![i] = run]
  BY <1>1, <1>3
<1>6. run \in Run
  BY <1>1, <1>4 DEF Run, Outcome
<1>7. /\ run.version = runs[i].version /\ run.commit = runs[i].commit
      /\ run.deploy = runs[i].deploy
  BY <1>1 DEF Run
<1>8. TraceOf(run)'
  BY <1>1, <1>2 DEF Run, TraceOf, OfTag, OfRepair, Checkout
<1>9. /\ ReleasedWasValidated' /\ releases' \in [Version -> Nat]
      /\ \A v \in Version : releases'[v] = releases[v]
  BY <1>2 DEF IInv, ReleasedWasValidated, Typed
<1>10. /\ UNCHANGED <<history, tags, places>> /\ validated \subseteq validated'
       /\ repaired \subseteq repaired' /\ UNCHANGED group
  BY <1>2
<1> QED
  BY <1>5, <1>6, <1>7, <1>8, <1>9, <1>10, JobInv

LEMMA ValidateStep ==
  ASSUME IInv, NEW i \in 1 .. Len(runs), Validate(i)
  PROVE  IInv'
<1>1. runs[i] \in Run /\ TraceOf(runs[i]) /\ DOMAIN runs = 1 .. Len(runs)
  BY RunOf
<1>2. /\ UNCHANGED <<history, tags, releases, places, repaired>> /\ UNCHANGED group
      /\ runs[i].validate = "checked out"
  BY DEF Validate
<1>3. PICK outcome \in {"passed", "failed"} :
        /\ runs' = [runs EXCEPT ![i].validate = outcome]
        /\ validated' = IF outcome = "passed"
                        THEN validated \cup {<<runs[i].version, runs[i].commit>>}
                        ELSE validated
  BY DEF Validate
<1> PICK run : run = [runs[i] EXCEPT !.validate = outcome]
  OBVIOUS
<1>4. runs' = [runs EXCEPT ![i] = run]
  BY <1>1, <1>3
<1>5. run \in Run
  BY <1>1 DEF Run, Outcome
<1>6. /\ run.version = runs[i].version /\ run.commit = runs[i].commit
      /\ run.deploy = runs[i].deploy
  BY <1>1 DEF Run
<1>7. validated \subseteq validated'
  BY <1>3
<1>8. TraceOf(run)'
  BY <1>1, <1>2, <1>3 DEF Run, TraceOf, OfTag, OfRepair
<1>9. /\ ReleasedWasValidated' /\ releases' \in [Version -> Nat]
      /\ \A v \in Version : releases'[v] = releases[v]
  BY <1>2, <1>7 DEF IInv, ReleasedWasValidated, Typed
<1>10. UNCHANGED <<history, tags, places>> /\ repaired \subseteq repaired' /\ UNCHANGED group
  BY <1>2
<1> QED
  BY <1>4, <1>5, <1>6, <1>7, <1>8, <1>9, <1>10, JobInv

\* A repair is of what its hash or its tag names when it is built.
LEMMA BuildShape ==
  ASSUME IInv, NEW i \in 1 .. Len(runs), Build(i)
  PROVE  \E outcome \in {"passed", "failed"}, c \in Nat :
           /\ runs' = [runs EXCEPT ![i] =
                         [runs[i] EXCEPT !.validate = outcome, !.commit = c]]
           /\ outcome = "passed" =>
                c \in repaired' /\ c # 0 /\ c \in {runs[i].commit} \cup {tags[v] : v \in Version}
           /\ outcome = "failed" => c = runs[i].commit
           /\ repaired' \in {repaired, repaired \cup {c}}
           /\ repaired' # repaired => outcome = "passed"
<1>1. runs[i] \in Run /\ DOMAIN runs = 1 .. Len(runs)
  BY RunOf
<1>2. /\ runs[i].commit \in Nat /\ \A v \in Version : tags[v] \in Nat
      /\ runs[i].ref \in Version \cup {None}
  BY <1>1 DEF Run, IInv, Typed
<1>3. CASE runs' = [runs EXCEPT ![i].validate = "failed"] /\ UNCHANGED repaired
  <2>1. [runs[i] EXCEPT !.validate = "failed", !.commit = runs[i].commit]
          = [runs[i] EXCEPT !.validate = "failed"]
    BY <1>1 DEF Run
  <2>2. runs' = [runs EXCEPT ![i] =
                  [runs[i] EXCEPT !.validate = "failed", !.commit = runs[i].commit]]
    BY <1>1, <1>3, <2>1
  <2> QED
    BY <1>2, <1>3, <2>2
<1>4. CASE ~(runs' = [runs EXCEPT ![i].validate = "failed"] /\ UNCHANGED repaired)
  <2>1. PICK c \in {runs[i].commit} \cup {tags[v] : v \in Version} :
          /\ runs' = [runs EXCEPT ![i].validate = "passed", ![i].commit = c]
          /\ repaired' = repaired \cup {c} /\ c # 0
    BY <1>2, <1>4 DEF Build
  <2>2. runs' = [runs EXCEPT ![i] = [runs[i] EXCEPT !.validate = "passed", !.commit = c]]
    BY <1>1, <2>1
  <2>3. c \in Nat
    BY <1>2, <2>1
  <2> QED
    BY <2>1, <2>2, <2>3
<1> QED
  BY <1>3, <1>4

LEMMA BuildStep ==
  ASSUME IInv, NEW i \in 1 .. Len(runs), Build(i)
  PROVE  IInv'
<1>1. runs[i] \in Run /\ TraceOf(runs[i]) /\ DOMAIN runs = 1 .. Len(runs)
  BY RunOf
<1>2. /\ UNCHANGED <<history, tags, releases, places, validated>> /\ UNCHANGED group
      /\ runs[i].version = None /\ runs[i].validate = "waiting"
  BY DEF Build
<1>3. PICK outcome \in {"passed", "failed"}, c \in Nat :
        /\ runs' = [runs EXCEPT ![i] = [runs[i] EXCEPT !.validate = outcome, !.commit = c]]
        /\ outcome = "passed" => c \in repaired'
        /\ repaired \subseteq repaired'
  BY BuildShape
<1> PICK run : run = [runs[i] EXCEPT !.validate = outcome, !.commit = c]
  OBVIOUS
<1>4. runs' = [runs EXCEPT ![i] = run]
  BY <1>3
<1>5. run \in Run
  BY <1>1 DEF Run, Outcome
<1>6. run.version = runs[i].version /\ run.deploy = runs[i].deploy
  BY <1>1 DEF Run
<1>7. TraceOf(run)'
  BY <1>1, <1>2, <1>3 DEF Run, TraceOf, OfTag, OfRepair
<1>8. /\ ReleasedWasValidated' /\ releases' \in [Version -> Nat]
      /\ \A v \in Version : releases'[v] = releases[v]
  BY <1>2 DEF IInv, ReleasedWasValidated, Typed
<1>9. /\ UNCHANGED <<history, tags, places>> /\ validated \subseteq validated'
      /\ repaired \subseteq repaired' /\ UNCHANGED group
  BY <1>2, <1>3
<1> QED
  BY <1>4, <1>5, <1>6, <1>7, <1>8, <1>9, JobInv

\* The release is of the commit the tag names, which is the run's unless the tag
\* was moved.
LEMMA PublishStep ==
  ASSUME IInv, NEW i \in 1 .. Len(runs), Publish(i)
  PROVE  IInv'
<1>1. runs[i] \in Run /\ TraceOf(runs[i]) /\ DOMAIN runs = 1 .. Len(runs)
  BY RunOf
<1> DEFINE v == runs[i].version
<1>2. /\ UNCHANGED <<history, tags, places, validated, repaired>> /\ UNCHANGED group
      /\ runs[i].validate = "passed" /\ runs[i].publish = "waiting"
  BY DEF Publish, Create, ghosts
<1>3. PICK outcome \in {"passed", "failed"} :
        /\ runs' = [runs EXCEPT ![i].publish = outcome]
        /\ outcome = "passed" => Create(v)
        /\ Create(v) \/ UNCHANGED releases
  BY DEF Publish
<1> PICK run : run = [runs[i] EXCEPT !.publish = outcome]
  OBVIOUS
<1>4. runs' = [runs EXCEPT ![i] = run]
  BY <1>1, <1>3
<1>5. run \in Run
  BY <1>1 DEF Run, Outcome
<1>6. /\ run.version = v /\ run.commit = runs[i].commit /\ run.deploy = runs[i].deploy
      /\ run.validate = runs[i].validate /\ run.publish = outcome
  BY <1>1 DEF Run
<1>7. /\ releases \in [Version -> Nat] /\ tags \in [Version -> Nat]
      /\ v \in Version \cup {None}
  BY <1>1 DEF IInv, Typed, Run
<1>8. /\ releases' \in [Version -> Nat]
      /\ \A w \in Version :
           releases'[w] = releases[w] \/ (w = v /\ releases'[w] = tags[w] /\ tags[w] # 0)
      /\ outcome = "passed" /\ v # None => releases'[v] # 0
  BY <1>3, <1>7 DEF Create
<1>9. runs[i].deploy # "queued"
  BY <1>1, <1>2 DEF TraceOf, OfTag, OfRepair
<1>10. TraceOf(run)'
  <2>1. v # None /\ OfTag(runs[i])
    BY <1>1, <1>2 DEF TraceOf, OfRepair
  <2>2. places' = places /\ validated' = validated
    BY <1>2
  <2>3. OfTag(run)'
    BY <1>2, <1>6, <1>8, <2>1, <2>2 DEF OfTag
  <2> QED
    BY <1>6, <1>9, <2>1, <2>3 DEF TraceOf
<1>11. ReleasedWasValidated'
  <2> SUFFICES ASSUME NEW w \in Version, releases'[w] # 0, Cardinality(places[w]) < 2
               PROVE  <<w, releases'[w]>> \in validated
    BY <1>2 DEF ReleasedWasValidated
  <2>1. CASE releases'[w] = releases[w]
    BY <2>1 DEF IInv, ReleasedWasValidated
  <2>2. CASE w = v /\ releases'[w] = tags[w] /\ tags[w] # 0
    <3>1. w # None
      BY NoneIsNot
    <3>2. tags[w] \in places[w] /\ runs[i].commit \in places[w] /\ IsFiniteSet(places[w])
      BY <1>1, <2>2, <3>1 DEF IInv, Placed, TraceOf, OfTag, OfRepair, Typed
    <3>3. tags[w] = runs[i].commit
      BY <3>2, OnePlace
    <3> QED
      BY <1>1, <1>2, <2>2, <3>1, <3>3 DEF TraceOf, OfTag, OfRepair
  <2> QED
    BY <1>8, <2>1, <2>2
<1> QED
  <2>1. UNCHANGED <<history, tags, places>> /\ UNCHANGED group
    BY <1>2
  <2>2. validated \subseteq validated' /\ repaired \subseteq repaired'
    BY <1>2
  <2>3. \A w \in Version :
          releases'[w] = releases[w] \/ (releases'[w] = tags[w] /\ tags[w] # 0)
    BY <1>8
  <2> QED
    BY <1>4, <1>5, <1>6, <1>8, <1>10, <1>11, <2>1, <2>2, <2>3, JobInv

\* The run joins the group; the one that waited before is cancelled.
LEMMA RequestStep ==
  ASSUME IInv, NEW i \in 1 .. Len(runs), RequestDeploy(i)
  PROVE  IInv'
<1>1. /\ runs \in Seq(Run) /\ DOMAIN runs = 1 .. Len(runs)
      /\ \A n \in 1 .. Len(runs) : runs[n] \in Run /\ TraceOf(runs[n])
  BY RunOf DEF IInv, Typed
<1>2. /\ UNCHANGED <<history, tags, releases, places, validated, repaired, site>>
      /\ runs[i].validate = "passed" /\ runs[i].publish = "passed"
      /\ runs[i].deploy = "waiting"
      /\ runs' = [n \in 1 .. Len(runs) |->
                   IF n = i THEN [runs[n] EXCEPT !.deploy = "queued"]
                   ELSE IF n = pending THEN [runs[n] EXCEPT !.deploy = "cancelled"]
                   ELSE runs[n]]
      /\ IF running = None THEN running' = i /\ pending' = pending
         ELSE pending' = i /\ running' = running
  BY <1>1 DEF RequestDeploy, Enter, needs, ghosts
<1>3. \A n \in 1 .. Len(runs) :
        /\ runs'[n] \in Run
        /\ runs'[n].version = runs[n].version /\ runs'[n].commit = runs[n].commit
        /\ runs'[n].validate = runs[n].validate /\ runs'[n].publish = runs[n].publish
        /\ runs'[n].deploy = IF n = i THEN "queued"
                             ELSE IF n = pending THEN "cancelled" ELSE runs[n].deploy
  BY <1>1, <1>2 DEF Run, Outcome
<1>4. runs' \in Seq(Run) /\ Len(runs') = Len(runs)
  <2>1. Len(runs) \in Nat
    BY <1>1, LenProperties
  <2>2. runs' \in [1 .. Len(runs) -> Run]
    BY <1>2, <1>3
  <2> QED
    BY <2>1, <2>2
<1>5. Typed'
  BY <1>2, <1>4 DEF IInv, Typed
<1>6. Traced'
  <2> SUFFICES ASSUME NEW n \in 1 .. Len(runs) PROVE TraceOf(runs[n])'
    BY <1>4 DEF Traced
  <2>1. runs'[n].deploy = "queued" => runs[n].deploy = "queued"
          \/ (runs[n].validate = "passed" /\ runs[n].publish = "passed")
    BY <1>2, <1>3
  <2>2. /\ places' = places /\ validated' = validated /\ repaired' = repaired
        /\ releases' = releases
    BY <1>2
  <2> QED
    BY <1>1, <1>3, <2>1, <2>2, TraceKept
<1>7. i \notin {running, pending} /\ i # None /\ (running = None => pending = None)
  BY <1>2, NoneIsNot, LenProperties, <1>1 DEF IInv, Grouped
<1>8. Grouped'
  <2>1. ASSUME NEW n \in 1 .. Len(runs)
        PROVE  runs'[n].deploy = "queued" <=> n \in {running', pending'}
    <3>1. runs[n].deploy = "queued" <=> n \in {running, pending}
      BY DEF IInv, Grouped
    <3>2. running # None => running # pending
      BY DEF IInv, Grouped
    <3>3. n # None
      BY NoneIsNot, LenProperties, <1>1
    <3> QED
      BY <1>2, <1>3, <1>7, <3>1, <3>2, <3>3
  <2> QED
    BY <1>2, <1>4, <1>7, <2>1 DEF Grouped
<1>9. Placed' /\ ReleasedWasValidated' /\ SiteIsOfARelease'
  BY <1>2 DEF IInv, Placed, ReleasedWasValidated, SiteIsOfARelease
<1> QED
  BY <1>5, <1>6, <1>8, <1>9 DEF IInv

\* The deployment under way ends and the one that waits follows.
LEMMA EndStep ==
  ASSUME IInv, EndDeploy
  PROVE  IInv'
<1> DEFINE i == running
<1>1. i \in 1 .. Len(runs) /\ i # None /\ pending # i
  BY DEF IInv, Typed, Grouped, EndDeploy
<1>2. runs[i] \in Run /\ TraceOf(runs[i]) /\ DOMAIN runs = 1 .. Len(runs)
  BY <1>1, RunOf
<1>3. PICK outcome \in {"passed", "failed"} :
        /\ runs' = [runs EXCEPT ![i].deploy = outcome]
        /\ site' \in {site, runs[i].commit}
        /\ running' = pending /\ pending' = None
        /\ UNCHANGED <<history, tags, releases, places, validated, repaired>>
  BY DEF EndDeploy, ghosts
<1> PICK run : run = [runs[i] EXCEPT !.deploy = outcome]
  OBVIOUS
<1>4. runs' = [runs EXCEPT ![i] = run] /\ run \in Run
  BY <1>2, <1>3 DEF Run, Outcome
<1>5. /\ run.version = runs[i].version /\ run.commit = runs[i].commit
      /\ run.deploy = outcome /\ run.publish = runs[i].publish
      /\ run.validate = runs[i].validate
  BY <1>2 DEF Run
<1>6. /\ runs' \in Seq(Run) /\ Len(runs') = Len(runs) /\ runs'[i] = run
      /\ \A n \in 1 .. Len(runs) : n # i => runs'[n] = runs[n]
  BY <1>1, <1>4, JobTyped DEF IInv
<1>7. Typed'
  BY <1>3, <1>6 DEF IInv, Typed
<1>8. Traced'
  <2>1. /\ places' = places /\ validated' = validated /\ repaired' = repaired
        /\ releases' = releases
    BY <1>3
  <2>2. ASSUME NEW n \in 1 .. Len(runs)
        PROVE  /\ runs'[n].version = runs[n].version /\ runs'[n].commit = runs[n].commit
               /\ runs'[n].validate = runs[n].validate
               /\ runs'[n].publish = runs[n].publish
               /\ runs'[n].deploy = "queued" => runs[n].deploy = "queued"
    BY <1>3, <1>5, <1>6
  <2>3. ASSUME NEW n \in 1 .. Len(runs) PROVE TraceOf(runs[n])'
    BY <2>1, <2>2, TraceKept, RunOf
  <2> QED
    BY <1>6, <2>3 DEF Traced
<1>9. Grouped'
  <2>1. ASSUME NEW n \in 1 .. Len(runs)
        PROVE  runs'[n].deploy = "queued" <=> n \in {running', pending'}
    <3>1. runs[n].deploy = "queued" <=> n \in {running, pending}
      BY DEF IInv, Grouped
    <3>2. n # None
      BY NoneIsNot, <1>1, LenProperties DEF IInv, Typed
    <3> QED
      BY <1>1, <1>3, <1>5, <1>6, <3>1, <3>2
  <2> QED
    BY <1>3, <1>6, <2>1 DEF Grouped
<1>10. SiteIsOfARelease'
  <2>1. CASE site' = site
    BY <2>1, <1>3 DEF IInv, SiteIsOfARelease
  <2>2. CASE site' = runs[i].commit
    <3>1. runs[i].deploy = "queued"
      BY <1>1 DEF IInv, Grouped
    <3>2. runs[i].validate = "passed" /\ runs[i].publish = "passed"
      BY <1>2, <3>1 DEF TraceOf, OfTag, OfRepair
    <3>3. CASE runs[i].version = None
      BY <1>2, <1>3, <2>2, <3>2, <3>3 DEF TraceOf, OfTag, OfRepair, SiteIsOfARelease
    <3>4. CASE runs[i].version # None
      BY <1>2, <1>3, <2>2, <3>2, <3>4 DEF TraceOf, OfTag, OfRepair, Run, SiteIsOfARelease
    <3> QED
      BY <3>3, <3>4
  <2> QED
    BY <1>3, <2>1, <2>2
<1>11. Placed' /\ ReleasedWasValidated'
  BY <1>3 DEF IInv, Placed, ReleasedWasValidated
<1> QED
  BY <1>7, <1>8, <1>9, <1>10, <1>11 DEF IInv

-----------------------------------------------------------------------------
LEMMA StepIInv == IInv /\ [Next]_vars => IInv'
<1> SUFFICES ASSUME IInv, [Next]_vars PROVE IInv'
  OBVIOUS
<1>1. CASE Maintainer
  BY <1>1, MergeStep, PushStep, DeleteStep, RepairStep, RerunStep DEF Maintainer
<1>2. ASSUME NEW i \in 1 .. Len(runs), Job(i) PROVE IInv'
  BY <1>2, CheckoutStep, ValidateStep, BuildStep, PublishStep, RequestStep DEF Job
<1>3. CASE EndDeploy
  BY <1>3, EndStep
<1>4. CASE UNCHANGED vars
  BY <1>4 DEF vars, group, ghosts, IInv, Typed, Traced, TraceOf, OfTag, OfRepair, Placed, Grouped,
              ReleasedWasValidated, SiteIsOfARelease
<1> QED
  BY <1>1, <1>2, <1>3, <1>4 DEF Next

LEMMA Invariance == Spec => []IInv
BY InitIInv, StepIInv, PTL DEF Spec

\* What TypeOK says beyond the invariant: everything names a commit of the line, but
\* for a repair that was told a tag and is not built.
NamedRun(run) ==
  /\ run.commit \in 0 .. Len(history)
  /\ run.commit = 0 => run.version = None /\ run.validate # "passed"

Named ==
  /\ Len(history) \in Nat /\ main \in Commit /\ site \in Commit
  /\ repaired \subseteq Commit
  /\ \A v \in Version : tags[v] \in 0 .. Len(history) /\ releases[v] \in 0 .. Len(history)
  /\ \A i \in 1 .. Len(runs) : NamedRun(runs[i])

LEMMA InitNamed == Init => Named
<1> SUFFICES ASSUME Init PROVE Named
  OBVIOUS
<1>1. Len(history) \in Nat /\ Len(history) > 0
  BY ReleaseAssumption, LenProperties DEF Init
<1> QED
  BY <1>1 DEF Init, Named, Commit

\* Only new runs add to what is named, and they are made of commits of the line.
LEMMA NamedStep == IInv /\ Named /\ [Next]_vars => Named'
<1> SUFFICES ASSUME IInv, Named, [Next]_vars PROVE Named'
  OBVIOUS
<1> DEFINE Places == /\ Len(history) \in Nat /\ main \in Commit /\ site \in Commit
                     /\ repaired \subseteq Commit
                     /\ \A v \in Version : /\ tags[v] \in 0 .. Len(history)
                                           /\ releases[v] \in 0 .. Len(history)
<1>1. /\ runs \in Seq(Run) /\ DOMAIN runs = 1 .. Len(runs) /\ Len(runs) \in Nat
      /\ tags \in [Version -> Nat] /\ releases \in [Version -> Nat]
      /\ \A i \in 1 .. Len(runs) :
           runs[i] \in Run /\ TraceOf(runs[i]) /\ NamedRun(runs[i])
      /\ running \in 1 .. Len(runs) \cup {None}
  BY LenProperties, RunOf DEF IInv, Typed, Named
<1>2. history' = history /\ Commit' = Commit
  BY DEF Next, Maintainer, Merge, PushTag, DeleteTag, Repair, Rerun, Job, Checkout,
         Validate, Build, Publish, RequestDeploy, EndDeploy, vars, Commit
<1>3. Places'
  <2>1. ASSUME UNCHANGED <<main, site, tags, releases, repaired>> PROVE Places'
    BY <1>2, <2>1 DEF Named
  <2>2. CASE Merge
    BY <1>2, <2>2 DEF Merge, group, ghosts, Named, Commit
  <2>3. ASSUME NEW v \in Version, NEW c \in 1 .. Len(history), PushTag(v, c) PROVE Places'
    BY <1>1, <1>2, <2>3 DEF PushTag, group, Named, Commit
  <2>4. ASSUME NEW v \in Version, DeleteTag(v) PROVE Places'
    BY <1>1, <1>2, <2>4 DEF DeleteTag, group, Named, Commit
  <2>5. ASSUME NEW i \in 1 .. Len(runs), Publish(i) PROVE Places'
    BY <1>1, <1>2, <2>5 DEF Publish, Create, group, ghosts, Named
  <2>6. CASE EndDeploy
    <3>1. running \in 1 .. Len(runs)
      BY <1>1, <2>6 DEF EndDeploy
    <3>2. runs[running].validate = "passed"
      BY <1>1, <3>1 DEF IInv, Grouped, TraceOf, OfTag, OfRepair
    <3>3. runs[running].commit \in Commit
      BY <1>1, <3>1, <3>2 DEF NamedRun, Named, Commit
    <3> QED
      BY <1>2, <2>6, <3>3 DEF EndDeploy, ghosts, Named
  <2>7. ASSUME NEW i \in 1 .. Len(runs), Build(i) PROVE Places'
    <3>1. PICK outcome \in {"passed", "failed"}, c \in Nat :
            /\ outcome = "passed" =>
                 c # 0 /\ c \in {runs[i].commit} \cup {tags[v] : v \in Version}
            /\ repaired' \in {repaired, repaired \cup {c}}
            /\ repaired' # repaired => outcome = "passed"
      BY <2>7, BuildShape
    <3>2. outcome = "passed" => c \in Commit
      BY <1>1, <3>1 DEF NamedRun, Named, Commit
    <3>3. repaired' \subseteq Commit
      BY <3>1, <3>2 DEF Named
    <3> QED
      BY <1>2, <2>7, <3>3 DEF Build, group, Named
  <2> HIDE DEF Places
  <2>8. CASE Maintainer
    BY <2>1, <2>2, <2>3, <2>4, <2>8 DEF Maintainer, Repair, Rerun, group, ghosts
  <2>9. ASSUME NEW i \in 1 .. Len(runs), Job(i) PROVE Places'
    BY <2>1, <2>5, <2>7, <2>9 DEF Job, Checkout, Validate, RequestDeploy, group, ghosts
  <2> QED
    BY <2>1, <2>6, <2>8, <2>9 DEF Next, vars, group, ghosts
<1> DEFINE Kept == \A i \in 1 .. Len(runs') : NamedRun(runs'[i])
<1>4. ASSUME NEW i \in 1 .. Len(runs), NEW run, runs' = [runs EXCEPT ![i] = run],
             NamedRun(run)
      PROVE  Kept
  <2>1. Len(runs') = Len(runs) /\ \A n \in 1 .. Len(runs) :
          runs'[n] = IF n = i THEN run ELSE runs[n]
    BY <1>1, <1>4
  <2> QED
    BY <1>2, <1>4, <2>1 DEF Named, NamedRun
<1>5. ASSUME NEW version, NEW ref, NEW c \in 0 .. Len(history), c = 0 => version = None,
             NewRun(version, ref, c)
      PROVE  Kept
  <2>1. PICK run : runs' = Append(runs, run) /\ NamedRun(run)
    BY <1>5 DEF NewRun, NamedRun
  <2>2. /\ Len(runs') = Len(runs) + 1 /\ runs'[Len(runs) + 1] = run
        /\ \A n \in 1 .. Len(runs) : runs'[n] = runs[n]
    BY <1>1, <2>1
  <2> QED
    BY <1>1, <1>2, <2>1, <2>2 DEF Named, NamedRun
<1>6. ASSUME runs' = runs PROVE Kept
  BY <1>2, <1>6 DEF Named, NamedRun
<1>7. ASSUME Maintainer PROVE Kept
  <2>1. ASSUME NEW i \in 1 .. Len(runs), NEW job, Rerun(i, job) PROVE Kept
    <3>1. PICK run : /\ runs' = [runs EXCEPT ![i] = run]
                     /\ \/ run = [runs[i] EXCEPT !.deploy = "waiting", !.base = 0,
                                    !.validate = "waiting",
                                    !.publish = IF runs[i].version = None THEN @ ELSE "waiting"]
                        \/ /\ runs[i].version # None
                           /\ run = [runs[i] EXCEPT !.deploy = "waiting", !.publish = "waiting"]
                        \/ run = [runs[i] EXCEPT !.deploy = "waiting"]
      BY <2>1, RerunShape
    <3>2. NamedRun(run)
      BY <1>1, <3>1 DEF Run, NamedRun
    <3> QED
      BY <1>4, <3>1, <3>2
  <2>2. CASE Merge
    BY <1>6, <2>2 DEF Merge
  <2>3. ASSUME NEW v \in Version, NEW c \in 1 .. Len(history), PushTag(v, c) PROVE Kept
    <3>1. c \in 0 .. Len(history) /\ c # 0
      BY <2>3 DEF Named
    <3> QED
      BY <1>5, <2>3, <3>1 DEF PushTag
  <2>4. ASSUME NEW v \in Version, DeleteTag(v) PROVE Kept
    BY <1>6, <2>4 DEF DeleteTag
  <2>5. ASSUME NEW ref, NEW c \in 0 .. Len(history), Repair(ref, c) PROVE Kept
    BY <1>5, <2>5 DEF Repair
  <2> HIDE DEF Kept
  <2> QED
    BY <1>7, <2>1, <2>2, <2>3, <2>4, <2>5 DEF Maintainer
<1>8. ASSUME NEW i \in 1 .. Len(runs), Job(i) PROVE Kept
  <2>1. CASE RequestDeploy(i)
    <3>1. /\ DOMAIN runs' = DOMAIN runs
          /\ \A n \in DOMAIN runs : NamedRun(runs'[n])
      BY <1>1, <2>1 DEF RequestDeploy, Enter, Run, NamedRun
    <3>2. runs' \in Seq(Run)
      BY <2>1, RequestStep DEF IInv, Typed
    <3>3. Len(runs') = Len(runs)
      BY <1>1, <3>1, <3>2, LenProperties
    <3> QED
      BY <1>1, <1>2, <3>1, <3>3 DEF NamedRun
  <2>2. CASE Build(i)
    <3>1. PICK outcome \in {"passed", "failed"}, c \in Nat :
            /\ runs' = [runs EXCEPT ![i] =
                          [runs[i] EXCEPT !.validate = outcome, !.commit = c]]
            /\ outcome = "passed" =>
                 c # 0 /\ c \in {runs[i].commit} \cup {tags[v] : v \in Version}
            /\ outcome = "failed" => c = runs[i].commit
      BY <2>2, BuildShape
    <3>2. c \in 0 .. Len(history)
      BY <1>1, <3>1 DEF NamedRun, Named
    <3>3. runs[i].version = None
      BY <2>2 DEF Build
    <3>4. PICK run : run = [runs[i] EXCEPT !.validate = outcome, !.commit = c]
      OBVIOUS
    <3>5. NamedRun(run)
      BY <1>1, <3>1, <3>3, <3>4, <3>2 DEF Run, NamedRun
    <3> QED
      BY <1>4, <3>1, <3>4, <3>5
  <2>3. CASE ~RequestDeploy(i) /\ ~Build(i)
    <3>1. CASE Checkout(i)
      <4>1. PICK base : runs' = [runs EXCEPT ![i].validate = "checked out", ![i].base = base]
        BY <3>1 DEF Checkout
      <4>2. PICK run : run = [runs[i] EXCEPT !.validate = "checked out", !.base = base]
        OBVIOUS
      <4>3. runs' = [runs EXCEPT ![i] = run] /\ NamedRun(run)
        BY <1>1, <4>1, <4>2 DEF Run, NamedRun
      <4> QED
        BY <1>4, <4>3
    <3>2. CASE Validate(i)
      <4>1. PICK outcome : runs' = [runs EXCEPT ![i].validate = outcome]
        BY <3>2 DEF Validate
      <4>2. PICK run : run = [runs[i] EXCEPT !.validate = outcome]
        OBVIOUS
      <4>3. runs[i].version # None
        BY <1>1, <3>2 DEF Validate, TraceOf, OfRepair
      <4>4. runs' = [runs EXCEPT ![i] = run] /\ NamedRun(run)
        BY <1>1, <4>1, <4>2, <4>3 DEF Run, NamedRun
      <4> QED
        BY <1>4, <4>4
    <3>3. CASE Publish(i)
      <4>1. PICK outcome : runs' = [runs EXCEPT ![i].publish = outcome]
        BY <3>3 DEF Publish
      <4>2. PICK run : run = [runs[i] EXCEPT !.publish = outcome]
        OBVIOUS
      <4>3. runs' = [runs EXCEPT ![i] = run] /\ NamedRun(run)
        BY <1>1, <4>1, <4>2 DEF Run, NamedRun
      <4> QED
        BY <1>4, <4>3
    <3> QED
      BY <1>8, <2>3, <3>1, <3>2, <3>3 DEF Job
  <2> QED
    BY <2>1, <2>2, <2>3
<1>9. ASSUME EndDeploy PROVE Kept
  <2>1. running \in 1 .. Len(runs)
    BY <1>1, <1>9 DEF EndDeploy
  <2>2. PICK outcome : runs' = [runs EXCEPT ![running].deploy = outcome]
    BY <1>9 DEF EndDeploy
  <2>3. PICK run : run = [runs[running] EXCEPT !.deploy = outcome]
    OBVIOUS
  <2>4. runs' = [runs EXCEPT ![running] = run] /\ NamedRun(run)
    BY <1>1, <2>1, <2>2, <2>3 DEF Run, NamedRun
  <2> QED
    BY <1>4, <2>1, <2>4
<1> HIDE DEF Kept, Places
<1>10. Kept
  BY <1>6, <1>7, <1>8, <1>9 DEF Next, vars
<1> QED
  BY <1>2, <1>3, <1>10 DEF Named, NamedRun, Kept, Places

\* For every number of runs: what is queued is what runs or waits in the group,
\* and tags, releases, site and runs name commits of the line.
THEOREM TypeCorrect == Spec => []TypeOK
<1>1. IInv /\ Named => TypeOK
  BY DEF IInv, Typed, Grouped, Named, NamedRun, TypeOK, Commit
<1> QED
  BY <1>1, InitNamed, NamedStep, Invariance, PTL DEF Spec

\* For every line of commits: whatever is deleted, moved, rerun or repaired, a
\* release is of a commit that passed validate under its version, unless its tag
\* was on two commits.
THEOREM ReleasesAreValidated == Spec => []ReleasedWasValidated
BY Invariance, PTL DEF IInv

\* And the site is of such a commit whose version was published, or a repair.
THEOREM SiteIsReleased == Spec => []SiteIsOfARelease
BY Invariance, PTL DEF IInv

-----------------------------------------------------------------------------
(* An orderly maintainer's versions increase.  One comparison with the      *)
(* nearest tag is enough because that tag has passed its own.               *)

Once == \A v \in Version : \A c, d \in places[v] : c = d

Standing == \A v \in Version : releases[v] # 0 => tags[v] = releases[v]

\* Only the last tag may not have passed.
Earlier ==
  \A v, w \in Version :
    tags[v] # 0 /\ tags[v] < tags[w] => <<v, tags[v]>> \in validated

Increasing ==
  \A v, w \in Version :
    tags[v] # 0 /\ tags[v] < tags[w] /\ <<w, tags[w]>> \in validated => v < w

\* The base of a run stands for all the tags before its commit.
ComparedOf(run) ==
  run.validate = "checked out" /\ run.version # None =>
    (tags[run.version] = run.commit /\ run.commit # 0 =>
       \A v \in Version : tags[v] # 0 /\ tags[v] < run.commit =>
         /\ history[run.base].version \in Version /\ v <= history[run.base].version
         /\ history[run.base].manifest = history[run.base].version)

Compared == \A i \in 1 .. Len(runs) : ComparedOf(runs[i])

\* What has passed is what it says, and its tag was there.
Passed ==
  \A v \in Version : \A c \in Nat : <<v, c>> \in validated =>
    /\ history[c].version = v /\ history[c].manifest = v
    /\ c \in places[v]

OrderlyInv == orderly => Once /\ Standing /\ Earlier /\ Increasing /\ Compared

Chain == IInv /\ Passed /\ OrderlyInv

LEMMA InitChain == Init => Chain
<1> SUFFICES ASSUME Init PROVE Chain
  OBVIOUS
<1>1. IInv
  BY InitIInv
<1>2. PICK p \in Plans : history = p.history
  BY DEF Init
<1>3. history[1].manifest = history[1].version
  BY <1>2, ReleaseAssumption
<1>4. /\ validated = {<<history[1].version, 1>>} /\ releases = tags
      /\ \A v \in Version : tags[v] = IF v = history[1].version THEN 1 ELSE 0
      /\ \A v \in Version : places[v] = {tags[v]} \ {0}
      /\ runs = <<>> /\ Len(runs) = 0
  BY DEF Init
<1>5. Passed
  BY <1>3, <1>4 DEF Passed
<1>6. Once /\ Standing /\ Earlier /\ Increasing /\ Compared
  BY <1>4 DEF Once, Standing, Earlier, Increasing, Compared
<1> QED
  BY <1>1, <1>5, <1>6 DEF Chain, OrderlyInv

LEMMA NotBoth ==
  ASSUME NEW a \in Nat, NEW b \in Nat, a < b PROVE ~(b < a)
OBVIOUS

\* An orderly push is past all tags, and of a version nothing is known of.
LEMMA PushChain ==
  ASSUME Chain, NEW v \in Version, NEW c \in 1 .. Len(history), PushTag(v, c), orderly'
  PROVE  Once' /\ Standing' /\ Earlier' /\ Increasing' /\ Compared'
<1>1. /\ orderly /\ places[v] = {} /\ c \in Nat /\ c # 0
      /\ \A w \in Version : tags[w] # 0 => tags[w] < c /\ <<w, tags[w]>> \in validated
  <2>1. Len(history) \in Nat
    BY LenProperties DEF Chain, IInv, Typed
  <2>2. /\ orderly /\ places[v] = {}
        /\ \A w \in Version : tags[w] # 0 => tags[w] < c /\ <<w, tags[w]>> \in validated
    BY Zenon DEF PushTag
  <2> QED
    BY <2>1, <2>2
<1>2. Once /\ Standing /\ Earlier /\ Increasing /\ Compared
  BY <1>1 DEF Chain, OrderlyInv
<1>3. /\ tags \in [Version -> Nat] /\ tags' = [tags EXCEPT ![v] = c]
      /\ places \in [Version -> SUBSET Nat] /\ places' = [places EXCEPT ![v] = @ \cup {c}]
      /\ UNCHANGED <<history, releases, validated>>
  BY DEF PushTag, Chain, IInv, Typed
<1>4. /\ tags'[v] = c /\ tags \in [Version -> Nat] /\ tags' \in [Version -> Nat]
      /\ \A w \in Version : w # v => tags'[w] = tags[w]
  BY <1>1, <1>3
<1>5. releases[v] = 0 /\ tags[v] = 0 /\ \A d \in Nat : <<v, d>> \notin validated
  BY <1>1 DEF Chain, IInv, Placed, Passed
<1>11. \A w \in Version : tags'[w] \in Nat /\ ~(c < tags'[w])
  <2> SUFFICES ASSUME NEW w \in Version PROVE tags'[w] \in Nat /\ ~(c < tags'[w])
    OBVIOUS
  <2>1. CASE w = v
    BY <1>1, <1>4, <2>1
  <2>2. CASE w # v
    <3>1. tags'[w] = tags[w] /\ tags[w] \in Nat
      BY <1>4, <2>2
    <3>2. tags[w] = 0 \/ tags[w] < c
      BY <1>1
    <3> QED
      BY <1>1, <3>1, <3>2
  <2> QED
    BY <2>1, <2>2
<1>6. Once'
  BY <1>1, <1>2, <1>3 DEF Once
<1>7. Standing'
  BY <1>2, <1>3, <1>4, <1>5 DEF Standing
<1>8. Earlier'
  <2> SUFFICES ASSUME NEW u \in Version, NEW w \in Version, tags'[u] # 0, tags'[u] < tags'[w]
               PROVE  <<u, tags'[u]>> \in validated
    BY <1>3 DEF Earlier
  <2>1. u # v
    <3>1. ~(c < tags'[w])
      BY <1>11
    <3> QED
      BY <1>4, <3>1
  <2> QED
    BY <1>1, <1>4, <2>1
<1>9. Increasing'
  <2> SUFFICES ASSUME NEW u \in Version, NEW w \in Version, tags'[u] # 0,
                      tags'[u] < tags'[w], <<w, tags'[w]>> \in validated
               PROVE  u < w
    BY <1>3 DEF Increasing
  <2>1. w # v
    BY <1>1, <1>4, <1>5
  <2>2. u # v
    BY <1>4, <1>11
  <2> QED
    BY <1>2, <1>4, <2>1, <2>2 DEF Increasing
<1>10. Compared'
  <2>1. PICK run \in Run : runs' = Append(runs, run) /\ run.validate = "waiting"
    <3>1. [version |-> v, ref |-> None, commit |-> c, base |-> 0, validate |-> "waiting",
           publish |-> "waiting", deploy |-> "waiting"] \in Run
      BY <1>1 DEF Run, Outcome
    <3> QED
      BY <3>1, NoneIsNot DEF PushTag, NewRun
  <2>2. /\ runs'[Len(runs) + 1] = run
        /\ \A n \in 1 .. Len(runs) : runs'[n] = runs[n]
        /\ \A n \in 1 .. Len(runs') : n \in 1 .. Len(runs) \/ n = Len(runs) + 1
    BY <2>1, AppendTyped DEF Chain, IInv
  <2>3. ASSUME NEW n \in 1 .. Len(runs) PROVE ComparedOf(runs[n])'
    <3>1. ComparedOf(runs[n]) /\ runs[n] \in Run /\ TraceOf(runs[n]) /\ runs'[n] = runs[n]
      BY <1>2, <2>2, RunOf DEF Compared, Chain
    <3>2. runs[n].version # None => runs[n].version # v
      BY <1>1, <3>1 DEF TraceOf, OfTag, OfRepair
    <3> SUFFICES ASSUME runs[n].validate = "checked out", runs[n].version # None,
                        tags'[runs[n].version] = runs[n].commit, runs[n].commit # 0,
                        NEW u \in Version, tags'[u] # 0, tags'[u] < runs[n].commit
                 PROVE  /\ history[runs[n].base].version \in Version
                        /\ u <= history[runs[n].base].version
                        /\ history[runs[n].base].manifest = history[runs[n].base].version
      BY <1>3, <3>1 DEF ComparedOf
    <3>3. runs[n].version \in Version /\ runs[n].commit \in Nat
      BY <3>1 DEF Run
    <3>4. tags[runs[n].version] = runs[n].commit
      BY <1>4, <3>2, <3>3
    <3>5. runs[n].commit < c
      BY <1>1, <3>3, <3>4
    <3>6. u # v
      <4>1. ~(c < runs[n].commit)
        <5>1. c \in Nat /\ runs[n].commit \in Nat
          BY <1>1, <3>3
        <5> QED
          BY <5>1, <3>5, NotBoth
      <4> QED
        BY <1>4, <4>1
    <3> QED
      BY <1>4, <3>1, <3>4, <3>6 DEF ComparedOf
  <2>4. ComparedOf(run)'
    BY <2>1 DEF ComparedOf
  <2> QED
    BY <2>2, <2>3, <2>4 DEF Compared
<1> QED
  BY <1>6, <1>7, <1>8, <1>9, <1>10

\* An orderly deletion takes away a tag of which there is no release.
LEMMA DeleteChain ==
  ASSUME Chain, NEW v \in Version, DeleteTag(v), orderly'
  PROVE  Once' /\ Standing' /\ Earlier' /\ Increasing' /\ Compared'
<1>1. orderly /\ releases[v] = 0
  BY DEF DeleteTag
<1>2. Once /\ Standing /\ Earlier /\ Increasing /\ Compared
  BY <1>1 DEF Chain, OrderlyInv
<1>3. /\ tags \in [Version -> Nat] /\ tags' \in [Version -> Nat]
      /\ tags'[v] = 0 /\ \A w \in Version : w # v => tags'[w] = tags[w]
      /\ UNCHANGED <<history, runs, releases, places, validated>>
  BY DEF DeleteTag, Chain, IInv, Typed
<1>4. Once' /\ Standing'
  BY <1>1, <1>2, <1>3 DEF Once, Standing
<1>5. ASSUME NEW u \in Version, NEW w \in Version, tags'[u] # 0, tags'[u] < tags'[w]
      PROVE  tags'[u] = tags[u] /\ tags'[w] = tags[w]
  BY <1>3, <1>5
<1>6. Earlier' /\ Increasing'
  BY <1>2, <1>3, <1>5 DEF Earlier, Increasing
<1>7. Compared'
  <2> SUFFICES ASSUME NEW n \in 1 .. Len(runs) PROVE ComparedOf(runs[n])'
    BY <1>3 DEF Compared
  <2>1. ComparedOf(runs[n]) /\ runs[n] \in Run
    BY <1>2, RunOf DEF Compared, Chain
  <2> QED
    BY <1>3, <2>1 DEF ComparedOf, Run
<1> QED
  BY <1>4, <1>6, <1>7

\* A job that leaves tags, releases and what has passed as they are, and does not
\* check anything out.
LEMMA PlainChain ==
  ASSUME Chain, orderly, UNCHANGED <<history, tags, releases, places, validated>>,
         \A n \in 1 .. Len(runs') : runs'[n].validate = "checked out" =>
           /\ n \in 1 .. Len(runs)
           /\ runs[n].validate = "checked out" /\ runs'[n].version = runs[n].version
           /\ runs'[n].commit = runs[n].commit /\ runs'[n].base = runs[n].base
  PROVE  Once' /\ Standing' /\ Earlier' /\ Increasing' /\ Compared'
<1>1. Once /\ Standing /\ Earlier /\ Increasing /\ Compared
  BY DEF Chain, OrderlyInv
<1>2. Once' /\ Standing' /\ Earlier' /\ Increasing'
  BY <1>1 DEF Once, Standing, Earlier, Increasing
<1>3. Compared'
  BY <1>1 DEF Compared, ComparedOf
<1> QED
  BY <1>2, <1>3

LEMMA CheckoutChain ==
  ASSUME Chain, orderly, NEW i \in 1 .. Len(runs), Checkout(i)
  PROVE  Once' /\ Standing' /\ Earlier' /\ Increasing' /\ Compared'
<1>1. Once /\ Standing /\ Earlier /\ Increasing /\ Compared
  BY DEF Chain, OrderlyInv
<1>2. UNCHANGED <<history, tags, releases, places, validated>>
  BY DEF Checkout, ghosts
<1>3. Once' /\ Standing' /\ Earlier' /\ Increasing'
  BY <1>1, <1>2 DEF Once, Standing, Earlier, Increasing
<1>4. runs[i] \in Run /\ DOMAIN runs = 1 .. Len(runs)
  BY RunOf DEF Chain
<1>5. PICK base \in infer_stable_release_base(runs[i].commit) :
        runs' = [runs EXCEPT ![i].validate = "checked out", ![i].base = base]
  BY DEF Checkout
<1> DEFINE before == tagsBefore(runs[i].commit)
<1>6. base \in before \cup {0} /\ \A d \in before : d <= base
  BY <1>5 DEF infer_stable_release_base
<1>7. /\ runs'[i].version = runs[i].version /\ runs'[i].commit = runs[i].commit
      /\ runs'[i].base = base /\ Len(runs') = Len(runs)
      /\ \A n \in 1 .. Len(runs) : n # i => runs'[n] = runs[n]
  <2>1. PICK run \in Run : /\ runs' = [runs EXCEPT ![i] = run] /\ run.base = base
                          /\ run.version = runs[i].version /\ run.commit = runs[i].commit
    <3>1. base \in Nat
      <4>1. base \in 1 .. runs[i].commit - 1 \cup {0}
        BY <1>6 DEF tagsBefore
      <4>2. runs[i].commit \in Nat
        BY <1>4 DEF Run
      <4> QED
        BY <4>1, <4>2
    <3>2. [runs[i] EXCEPT !.validate = "checked out", !.base = base] \in Run
      BY <1>4, <3>1 DEF Run, Outcome
    <3>3. runs' = [runs EXCEPT ![i] = [runs[i] EXCEPT !.validate = "checked out", !.base = base]]
      BY <1>4, <1>5
    <3> QED
      BY <1>4, <3>2, <3>3 DEF Run
  <2> QED
    BY <2>1, JobTyped DEF Chain, IInv
<1>8. ComparedOf(runs[i])'
  <2> SUFFICES ASSUME NEW v \in Version, tags[v] # 0, tags[v] < runs[i].commit,
                      runs[i].version # None, tags[runs[i].version] = runs[i].commit
               PROVE  /\ history[base].version \in Version
                      /\ v <= history[base].version
                      /\ history[base].manifest = history[base].version
    BY <1>2, <1>7 DEF ComparedOf
  <2>1. /\ tags \in [Version -> Nat] /\ runs[i].version \in Version
        /\ runs[i].commit \in Nat /\ v \in Nat
    BY <1>4, NoneIsNot DEF Chain, IInv, Typed, Run
  <2>2. tags[v] \in before
    BY <2>1 DEF tagsBefore
  <2>3. base \in before /\ tags[v] <= base
    <3>1. base # 0
      BY <1>6, <2>1, <2>2
    <3> QED
      BY <1>6, <2>2, <3>1
  <2>4. PICK u \in Version : tags[u] = base /\ base \in 1 .. runs[i].commit - 1
    BY <2>3 DEF tagsBefore
  <2>5. tags[u] # 0 /\ tags[u] < tags[runs[i].version] /\ tags[u] \in Nat
    BY <2>1, <2>4
  <2>6. <<u, tags[u]>> \in validated /\ <<v, tags[v]>> \in validated
    BY <1>1, <2>1, <2>5 DEF Earlier
  <2>7. history[base].version = u /\ history[base].manifest = u
    BY <2>4, <2>5, <2>6 DEF Chain, Passed
  <2>8. CASE tags[v] = base
    <3>1. history[base].version = v
      BY <2>1, <2>6, <2>8 DEF Chain, Passed
    <3> QED
      BY <2>1, <2>7, <3>1
  <2>9. CASE tags[v] # base
    <3>1. tags[v] < tags[u]
      BY <2>1, <2>3, <2>4, <2>5, <2>9
    <3>2. v < u
      BY <1>1, <2>6, <3>1 DEF Increasing
    <3>3. u \in Nat
      BY NoneIsNot
    <3> QED
      BY <2>1, <2>7, <3>2, <3>3
  <2> QED
    BY <2>8, <2>9
<1>9. Compared'
  <2>1. ASSUME NEW n \in 1 .. Len(runs), n # i PROVE ComparedOf(runs[n])'
    BY <1>1, <1>2, <1>7, <2>1 DEF Compared, ComparedOf
  <2> QED
    BY <1>7, <1>8, <2>1 DEF Compared
<1> QED
  BY <1>3, <1>9

\* A commit that passes is of a later version than every tag before it: than its
\* base when the plugin changed, and else there is no such commit.
LEMMA ValidateChain ==
  ASSUME Chain, orderly, NEW i \in 1 .. Len(runs), Validate(i)
  PROVE  Once' /\ Standing' /\ Earlier' /\ Increasing' /\ Compared'
<1>1. Once /\ Standing /\ Earlier /\ Increasing /\ Compared
  BY DEF Chain, OrderlyInv
<1>2. /\ UNCHANGED <<history, tags, releases, places>> /\ validated \subseteq validated'
      /\ runs[i].validate = "checked out"
  BY DEF Validate
<1>3. PICK outcome \in {"passed", "failed"} :
        /\ runs' = [runs EXCEPT ![i].validate = outcome]
        /\ \/ validated' = validated
           \/ /\ IsRelease(runs[i])
              /\ validated' = validated \cup {<<runs[i].version, runs[i].commit>>}
  BY DEF Validate
<1>4. runs[i] \in Run /\ DOMAIN runs = 1 .. Len(runs)
  BY RunOf DEF Chain
<1>5. Once' /\ Standing' /\ Earlier'
  BY <1>1, <1>2 DEF Once, Standing, Earlier
<1>6. Increasing'
  <2> SUFFICES ASSUME NEW v \in Version, NEW w \in Version, tags[v] # 0, tags[v] < tags[w],
                      <<w, tags[w]>> \in validated'
               PROVE  v < w
    BY <1>2 DEF Increasing
  <2>1. CASE <<w, tags[w]>> \in validated
    BY <1>1, <2>1 DEF Increasing
  <2>2. CASE <<w, tags[w]>> \notin validated
    <3> DEFINE run == runs[i]
    <3>1. IsRelease(run) /\ w = run.version /\ tags[w] = run.commit
      BY <1>3, <2>2
    <3>2. /\ w \in Nat /\ v \in Nat /\ w # None /\ tags[v] \in Nat /\ tags[w] \in Nat
          /\ run.commit # 0
      BY NoneIsNot, <3>1 DEF Chain, IInv, Typed
    <3>3. /\ history[run.base].version \in Version /\ v <= history[run.base].version
          /\ history[run.base].manifest = history[run.base].version
      BY <1>1, <1>2, <3>1, <3>2 DEF Compared, ComparedOf
    <3>4. /\ history[run.commit].version = w /\ history[run.commit].manifest = w
          /\ run.base # 0
          /\ plugin(run.commit) # plugin(run.base) =>
               history[run.commit].version > history[run.base].version
      BY <3>1 DEF IsRelease, validate_version, validate_release_version_change
    <3>5. <<v, tags[v]>> \in validated
      BY <1>1 DEF Earlier
    <3>6. history[tags[v]].version = v
      BY <3>2, <3>5 DEF Chain, Passed
    <3>7. v <= w
      <4>1. CASE plugin(run.commit) = plugin(run.base)
        <5>1. history[run.base].version = w
          BY <3>3, <3>4, <4>1 DEF plugin
        <5> QED
          BY <3>3, <5>1
      <4>2. CASE plugin(run.commit) # plugin(run.base)
        <5>1. w > history[run.base].version
          BY <3>4, <4>2
        <5>2. history[run.base].version \in Nat
          BY <3>3, NoneIsNot
        <5> QED
          BY <3>2, <3>3, <5>1, <5>2
      <4> QED
        BY <4>1, <4>2
    <3>8. v # w
      BY <3>2
    <3> QED
      BY <3>2, <3>7, <3>8
  <2> QED
    BY <2>1, <2>2
<1>7. Compared'
  <2>1. PICK run \in Run : runs' = [runs EXCEPT ![i] = run] /\ run.validate # "checked out"
    <3>1. [runs[i] EXCEPT !.validate = outcome] \in Run
      BY <1>4 DEF Run, Outcome
    <3>2. runs' = [runs EXCEPT ![i] = [runs[i] EXCEPT !.validate = outcome]]
      BY <1>3, <1>4
    <3> QED
      BY <1>4, <3>1, <3>2 DEF Run
  <2>2. /\ Len(runs') = Len(runs) /\ runs'[i] = run
        /\ \A n \in 1 .. Len(runs) : n # i => runs'[n] = runs[n]
    BY <2>1, JobTyped DEF Chain, IInv
  <2>3. ASSUME NEW n \in 1 .. Len(runs), n # i PROVE ComparedOf(runs[n])'
    BY <1>1, <1>2, <2>2, <2>3 DEF Compared, ComparedOf
  <2>4. ComparedOf(runs[i])'
    BY <2>1, <2>2 DEF ComparedOf
  <2> QED
    BY <2>2, <2>3, <2>4 DEF Compared
<1> QED
  BY <1>5, <1>6, <1>7

LEMMA PublishChain ==
  ASSUME Chain, orderly, NEW i \in 1 .. Len(runs), Publish(i)
  PROVE  Once' /\ Standing' /\ Earlier' /\ Increasing' /\ Compared'
<1>1. Once /\ Standing /\ Earlier /\ Increasing /\ Compared
  BY DEF Chain, OrderlyInv
<1>2. UNCHANGED <<history, tags, places, validated>>
  BY DEF Publish, Create, ghosts
<1>3. PICK outcome \in {"passed", "failed"} :
        /\ runs' = [runs EXCEPT ![i].publish = outcome]
        /\ Create(runs[i].version) \/ UNCHANGED releases
  BY DEF Publish
<1>4. runs[i] \in Run /\ DOMAIN runs = 1 .. Len(runs)
  BY RunOf DEF Chain
<1>5. Once' /\ Earlier' /\ Increasing'
  BY <1>1, <1>2 DEF Once, Earlier, Increasing
<1>6. Standing'
  <2>1. releases \in [Version -> Nat]
    BY DEF Chain, IInv, Typed
  <2> QED
    BY <1>1, <1>2, <1>3, <2>1 DEF Standing, Create
<1>7. Compared'
  <2>1. PICK run \in Run :
          /\ runs' = [runs EXCEPT ![i] = run] /\ run.validate = runs[i].validate
          /\ run.version = runs[i].version /\ run.commit = runs[i].commit
          /\ run.base = runs[i].base
    <3>1. [runs[i] EXCEPT !.publish = outcome] \in Run
      BY <1>4 DEF Run, Outcome
    <3>2. runs' = [runs EXCEPT ![i] = [runs[i] EXCEPT !.publish = outcome]]
      BY <1>3, <1>4
    <3> QED
      BY <1>4, <3>1, <3>2 DEF Run
  <2>2. /\ Len(runs') = Len(runs) /\ runs'[i] = run
        /\ \A n \in 1 .. Len(runs) : n # i => runs'[n] = runs[n]
    BY <2>1, JobTyped DEF Chain, IInv
  <2>3. ASSUME NEW n \in 1 .. Len(runs), n # i PROVE ComparedOf(runs[n])'
    BY <1>1, <1>2, <2>2, <2>3 DEF Compared, ComparedOf
  <2>4. ComparedOf(runs[i])'
    <3>1. ComparedOf(runs[i])
      BY <1>1 DEF Compared
    <3> QED
      BY <1>2, <2>1, <2>2, <3>1 DEF ComparedOf
  <2> QED
    BY <2>2, <2>3, <2>4 DEF Compared
<1> QED
  BY <1>5, <1>6, <1>7

\* The other steps of the runs check nothing out.
LEMMA OtherChain ==
  ASSUME Chain, orderly,
         \/ \E ref \in Version \cup {None}, c \in 0 .. Len(history) : Repair(ref, c)
         \/ \E i \in 1 .. Len(runs), job \in {"validate", "publish", "deploy"} : Rerun(i, job)
         \/ \E i \in 1 .. Len(runs) : Build(i) \/ RequestDeploy(i)
         \/ EndDeploy
  PROVE  Once' /\ Standing' /\ Earlier' /\ Increasing' /\ Compared'
<1> DEFINE Same(n) ==
      /\ n \in 1 .. Len(runs)
      /\ runs[n].validate = "checked out" /\ runs'[n].version = runs[n].version
      /\ runs'[n].commit = runs[n].commit /\ runs'[n].base = runs[n].base
<1>1. UNCHANGED <<history, tags, releases, places, validated>>
  BY DEF Repair, Rerun, Build, RequestDeploy, EndDeploy, ghosts
<1>2. /\ \A n \in 1 .. Len(runs) : runs[n] \in Run
      /\ DOMAIN runs = 1 .. Len(runs) /\ Typed
  BY RunOf, LenProperties DEF Chain, IInv, Typed
<1>3. SUFFICES ASSUME NEW n \in 1 .. Len(runs'), runs'[n].validate = "checked out"
               PROVE  Same(n)
  BY <1>1, PlainChain
<1>4. ASSUME NEW ref \in Version \cup {None}, NEW c \in 0 .. Len(history), Repair(ref, c)
      PROVE  Same(n)
  <2>1. PICK run \in Run : runs' = Append(runs, run) /\ run.validate = "waiting"
    <3>1. c \in Nat
      BY LenProperties, <1>2 DEF Typed
    <3>2. [version |-> None, ref |-> ref, commit |-> c, base |-> 0, validate |-> "waiting",
           publish |-> "passed", deploy |-> "waiting"] \in Run
      BY <3>1 DEF Run, Outcome
    <3> QED
      BY <1>4, <3>2 DEF Repair, NewRun
  <2>2. /\ runs'[Len(runs) + 1] = run
        /\ \A m \in 1 .. Len(runs) : runs'[m] = runs[m]
        /\ \A m \in 1 .. Len(runs') : m \in 1 .. Len(runs) \/ m = Len(runs) + 1
    BY <1>2, <2>1, AppendTyped
  <2> QED
    BY <1>3, <2>1, <2>2
<1>5. ASSUME NEW i \in 1 .. Len(runs), NEW run \in Run, runs' = [runs EXCEPT ![i] = run],
             run.validate # "checked out" \/
               (/\ run.validate = runs[i].validate /\ run.version = runs[i].version
                /\ run.commit = runs[i].commit /\ run.base = runs[i].base)
      PROVE  Same(n)
  <2>1. /\ Len(runs') = Len(runs) /\ runs'[i] = run
        /\ \A m \in 1 .. Len(runs) : m # i => runs'[m] = runs[m]
    BY <1>2, <1>5, JobTyped
  <2> QED
    BY <1>3, <1>5, <2>1
<1>6. ASSUME NEW i \in 1 .. Len(runs), NEW job, Rerun(i, job) PROVE Same(n)
  <2>1. PICK run : /\ runs' = [runs EXCEPT ![i] = run]
                   /\ \/ run = [runs[i] EXCEPT !.deploy = "waiting", !.base = 0,
                                  !.validate = "waiting",
                                  !.publish = IF runs[i].version = None THEN @ ELSE "waiting"]
                      \/ /\ runs[i].version # None
                         /\ run = [runs[i] EXCEPT !.deploy = "waiting", !.publish = "waiting"]
                      \/ run = [runs[i] EXCEPT !.deploy = "waiting"]
    BY <1>6, RerunShape
  <2>2. run.validate # "checked out"
    BY <1>2, <1>6, <2>1 DEF Rerun, IsOver, Run
  <2>3. run \in Run
    <3>1. /\ runs[i].version \in Version \cup {None} /\ runs[i].commit \in Nat
          /\ runs[i].ref \in Version \cup {None}
          /\ runs[i].base \in Nat /\ runs[i].validate \in Outcome
          /\ runs[i].publish \in Outcome
      BY <1>2 DEF Run
    <3>2. run = [version |-> runs[i].version, ref |-> runs[i].ref, commit |-> runs[i].commit,
                 base |-> run.base, validate |-> run.validate, publish |-> run.publish,
                 deploy |-> "waiting"]
      BY <1>2, <2>1 DEF Run
    <3>3. /\ run.base \in {0, runs[i].base} /\ run.validate \in {"waiting", runs[i].validate}
          /\ run.publish \in {"waiting", runs[i].publish}
      BY <1>2, <2>1 DEF Run
    <3>4. "waiting" \in Outcome /\ 0 \in Nat
      BY DEF Outcome
    <3> QED
      BY <3>1, <3>2, <3>3, <3>4 DEF Run
  <2> QED
    BY <1>5, <2>1, <2>2, <2>3
<1>7. ASSUME NEW i \in 1 .. Len(runs), RequestDeploy(i) PROVE Same(n)
  <2>1. runs' = [m \in 1 .. Len(runs) |->
                   IF m = i THEN [runs[m] EXCEPT !.deploy = "queued"]
                   ELSE IF m = pending THEN [runs[m] EXCEPT !.deploy = "cancelled"]
                   ELSE runs[m]]
    BY <1>2, <1>7 DEF RequestDeploy, Enter
  <2>2. Typed' /\ DOMAIN runs' = 1 .. Len(runs)
    BY <1>7, <2>1, RequestStep DEF Chain, IInv
  <2>3. n \in 1 .. Len(runs)
    BY <2>2, LenProperties DEF Typed
  <2> QED
    BY <1>2, <1>3, <2>1, <2>3 DEF Run
<1>8. ASSUME NEW i \in 1 .. Len(runs), Build(i) PROVE Same(n)
  <2>1. PICK outcome \in {"passed", "failed"}, c \in Nat :
          runs' = [runs EXCEPT ![i] = [runs[i] EXCEPT !.validate = outcome, !.commit = c]]
    BY <1>8, BuildShape DEF Chain
  <2>2. PICK run : run = [runs[i] EXCEPT !.validate = outcome, !.commit = c]
    OBVIOUS
  <2>3. run \in Run /\ run.validate # "checked out"
    BY <1>2, <2>2 DEF Run, Outcome
  <2> QED
    BY <1>5, <2>1, <2>2, <2>3
<1>9. CASE EndDeploy
  <2>1. running \in 1 .. Len(runs)
    BY <1>2, <1>9 DEF EndDeploy, Typed
  <2>2. PICK outcome \in {"passed", "failed"} :
          runs' = [runs EXCEPT ![running].deploy = outcome]
    BY <1>9 DEF EndDeploy
  <2>3. PICK run : run = [runs[running] EXCEPT !.deploy = outcome]
    OBVIOUS
  <2>4. run \in Run /\ runs' = [runs EXCEPT ![running] = run]
    BY <1>2, <2>1, <2>2, <2>3 DEF Run, Outcome
  <2>5. /\ run.validate = runs[running].validate /\ run.version = runs[running].version
        /\ run.commit = runs[running].commit /\ run.base = runs[running].base
    BY <1>2, <2>1, <2>3 DEF Run
  <2> QED
    BY <1>5, <2>1, <2>4, <2>5
<1> QED
  BY <1>4, <1>6, <1>7, <1>8, <1>9

\* Whatever the maintainer does, only validate adds to what has passed.
LEMMA PassedStep ==
  ASSUME Chain, [Next]_vars
  PROVE  Passed'
<1>1. ASSUME UNCHANGED <<history, places, validated>> PROVE Passed'
  BY <1>1 DEF Chain, Passed
<1>2. ASSUME NEW v \in Version, NEW c \in 1 .. Len(history), PushTag(v, c) PROVE Passed'
  <2>1. \A w \in Version : places[w] \subseteq places'[w]
    BY <1>2 DEF PushTag, Chain, IInv, Typed
  <2>2. UNCHANGED <<history, validated>>
    BY <1>2 DEF PushTag
  <2> QED
    BY <2>1, <2>2 DEF Chain, Passed
<1>3. ASSUME NEW i \in 1 .. Len(runs), Validate(i) PROVE Passed'
  <2> SUFFICES ASSUME NEW v \in Version, NEW c \in Nat, <<v, c>> \in validated'
               PROVE  /\ history[c].version = v /\ history[c].manifest = v
                      /\ c \in places[v]
    BY <1>3 DEF Validate, Passed
  <2>1. CASE <<v, c>> \in validated
    BY <2>1 DEF Chain, Passed
  <2>2. CASE <<v, c>> \notin validated
    <3>1. IsRelease(runs[i]) /\ v = runs[i].version /\ c = runs[i].commit
      <4>1. \/ validated' = validated
            \/ (/\ IsRelease(runs[i])
                /\ validated' = validated \cup {<<runs[i].version, runs[i].commit>>})
        BY <1>3 DEF Validate
      <4> QED
        BY <2>2, <4>1
    <3>2. TraceOf(runs[i]) /\ v # None
      BY NoneIsNot DEF Chain, IInv, Traced
    <3> QED
      BY <3>1, <3>2 DEF IsRelease, validate_version, TraceOf, OfTag, OfRepair
  <2> QED
    BY <2>1, <2>2
<1>4. CASE Maintainer
  <2>1. CASE Merge
    BY <1>1, <2>1 DEF Merge, ghosts
  <2>2. ASSUME NEW v \in Version, DeleteTag(v) PROVE Passed'
    BY <1>1, <2>2 DEF DeleteTag
  <2>3. ASSUME NEW ref, NEW c, Repair(ref, c) PROVE Passed'
    BY <1>1, <2>3 DEF Repair, ghosts
  <2>4. ASSUME NEW i \in 1 .. Len(runs), NEW job, Rerun(i, job) PROVE Passed'
    BY <1>1, <2>4 DEF Rerun, ghosts
  <2> QED
    BY <1>2, <1>4, <2>1, <2>2, <2>3, <2>4 DEF Maintainer
<1>5. ASSUME NEW i \in 1 .. Len(runs), Job(i) PROVE Passed'
  BY <1>1, <1>3, <1>5 DEF Job, Checkout, Build, Publish, RequestDeploy, ghosts
<1>6. CASE EndDeploy
  BY <1>1, <1>6 DEF EndDeploy, ghosts
<1>7. CASE UNCHANGED vars
  BY <1>1, <1>7 DEF vars, ghosts
<1> QED
  BY <1>4, <1>5, <1>6, <1>7 DEF Next

LEMMA StepChain == Chain /\ [Next]_vars => Chain'
<1> SUFFICES ASSUME Chain, [Next]_vars PROVE Chain'
  OBVIOUS
<1>1. IInv'
  BY StepIInv DEF Chain
<1>2. Passed'
  BY PassedStep
<1> DEFINE Ordered == Once /\ Standing /\ Earlier /\ Increasing /\ Compared
<1>3. ASSUME orderly' PROVE Ordered'
  <2>1. ASSUME orderly, UNCHANGED <<history, tags, releases, runs, places, validated>>
        PROVE  Ordered'
    BY <2>1, PlainChain
  <2>2. CASE Maintainer
    <3>1. CASE Merge
      BY <1>3, <2>1, <3>1 DEF Merge, ghosts
    <3>2. ASSUME NEW ref \in Version \cup {None}, NEW c \in 0 .. Len(history), Repair(ref, c)
          PROVE  Ordered'
      BY <1>3, <3>2, OtherChain DEF Repair, ghosts
    <3>3. ASSUME NEW i \in 1 .. Len(runs), NEW job \in {"validate", "publish", "deploy"},
                 Rerun(i, job)
          PROVE  Ordered'
      <4>1. orderly
        BY <1>3, <3>3 DEF Rerun, ghosts
      <4> QED
        BY <3>3, <4>1, OtherChain
    <3> QED
      BY <1>3, <2>2, <3>1, <3>2, <3>3, PushChain, DeleteChain DEF Maintainer
  <2>3. ASSUME NEW i \in 1 .. Len(runs), Job(i) PROVE Ordered'
    <3>1. orderly
      BY <1>3, <2>3 DEF Job, Checkout, Validate, Build, Publish, RequestDeploy, ghosts
    <3> QED
      BY <2>3, <3>1, CheckoutChain, ValidateChain, PublishChain, OtherChain DEF Job
  <2>4. CASE EndDeploy
    <3>1. orderly
      BY <1>3, <2>4 DEF EndDeploy, ghosts
    <3> QED
      BY <2>4, <3>1, OtherChain
  <2>5. CASE UNCHANGED vars
    BY <1>3, <2>1, <2>5 DEF vars, ghosts
  <2> QED
    BY <2>2, <2>3, <2>4, <2>5 DEF Next
<1> QED
  BY <1>1, <1>2, <1>3 DEF Chain, OrderlyInv

\* For every line of commits and every order of the jobs: though a commit is only
\* compared with the nearest tag before it, the releases of an orderly maintainer
\* have later versions the later their commit is.
THEOREM OrderlyVersionsIncrease == Spec => []VersionsIncrease
<1>1. Chain => VersionsIncrease
  <2> SUFFICES ASSUME Chain, orderly, NEW v \in Version, NEW w \in Version,
                      releases[v] # 0, releases[w] # 0, releases[v] < releases[w]
               PROVE  v < w
    BY DEF VersionsIncrease
  <2>1. Once /\ Standing /\ Increasing
    BY DEF Chain, OrderlyInv
  <2>2. places[w] = {releases[w]}
    BY <2>1 DEF Once, Chain, IInv, Placed
  <2>3. Cardinality(places[w]) = 1
    BY <2>2, FS_Singleton
  <2>4. <<w, releases[w]>> \in validated
    BY <2>3 DEF Chain, IInv, ReleasedWasValidated
  <2> QED
    BY <2>1, <2>4 DEF Standing, Increasing
<1> QED
  BY <1>1, InitChain, StepChain, PTL DEF Spec
=============================================================================
