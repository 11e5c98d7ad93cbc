------------------------------- MODULE Release -------------------------------
(***************************************************************************)
(* The release pipeline: .github/workflows/release.yml and pages.yml, with *)
(* the part of scripts/check.py that compares a tagged commit with the     *)
(* nearest release tag before it.  The maintainer pushes, moves and        *)
(* deletes tags, reruns jobs and repairs the site.  The commits lie on one *)
(* line, of which main is a growing prefix.                                *)
(*                                                                         *)
(* GitHub is external: it starts a run for a pushed tag, runs a job when   *)
(* those it needs have passed, ends it by its timeout at the latest, and   *)
(* lets one deployment of the group "pages" run and one wait.              *)
(***************************************************************************)
EXTENDS Integers, Sequences, FiniteSets

CONSTANTS
  Plans,       \* lines of commits, each with the bounds of what is done on it
  MaxVersion,
  None

Version == 1 .. MaxVersion

\* A commit has its VERSION, the version the plugin.json say, and other contents.
CommitContents == [version : Version, manifest : Version, body : Nat]

ASSUME ReleaseAssumption ==
  /\ MaxVersion \in Nat \ {0} /\ None \notin Nat
  /\ \A p \in Plans :
       /\ p.history \in Seq(CommitContents) /\ Len(p.history) > 0
       /\ p.history[1].manifest = p.history[1].version
       \* bounds: how often the maintainer does each of these
       /\ p.limit \in [pushes : Nat, deletes : Nat, reruns : Nat, repairs : Nat]

VARIABLES
  history,
  main,       \* the commits up to this one are on main
  tags,       \* where each release tag is, 0 for nowhere
  runs,       \* the runs of the workflows, in the order of their start
  releases,   \* the commit each GitHub release was made of, 0 for no release
  running,    \* the run that deploys to the group "pages", None
  pending,    \* the run that waits for the group, None
  site,       \* the commit whose site is shown
  left,       \* what the bounds leave to the maintainer
  places,     \* history: the commits each tag has named
  validated,  \* history: the versions and commits that passed validate
  repaired,   \* history: the commits that exact refs named to a repair
  orderly     \* history: see PushTag and DeleteTag

group == <<running, pending, site>>
ghosts == <<places, validated, repaired, orderly>>
vars == <<history, main, tags, runs, releases, group, left, ghosts>>

\* The first commit is released and its site is shown.
Init ==
  /\ \E p \in Plans : history = p.history /\ left = p.limit
  /\ main = 1
  /\ tags = [v \in Version |-> IF v = history[1].version THEN 1 ELSE 0]
  /\ releases = tags
  /\ runs = <<>>
  /\ running = None /\ pending = None /\ site = 1
  /\ places = [v \in Version |-> {tags[v]} \ {0}]
  /\ validated = {<<history[1].version, 1>>}
  /\ repaired = {}
  /\ orderly = TRUE

-----------------------------------------------------------------------------
(* scripts/check.py on a commit of the line.                               *)

plugin(c) == [manifest |-> history[c].manifest, body |-> history[c].body]

\* Mutant: nobody compares the manifests of the plugin with VERSION.
AnyManifest(c) == history[c].version \in Version

\* VERSION and the manifests agree; changelog and security policy likewise.
validate_version(c) == history[c].manifest = history[c].version

tagsBefore(c) == {tags[v] : v \in Version} \cap 1 .. c - 1

\* Mutant: the first release tag is the base, not the nearest.
FarthestTag(c) ==
  {b \in tagsBefore(c) \cup {0} : /\ \A d \in tagsBefore(c) : b <= d
                                 /\ b = 0 => tagsBefore(c) = {}}

\* The one commit with the nearest tag before this one, or 0: a tag on the commit
\* itself is no base.
infer_stable_release_base(c) ==
  {b \in tagsBefore(c) \cup {0} : \A d \in tagsBefore(c) : d <= b}

\* A plugin that differs from the one at the base has a later VERSION.
validate_release_version_change(c, base) ==
  /\ base # 0
  /\ plugin(c) # plugin(base) => history[c].version > history[base].version

-----------------------------------------------------------------------------
(* The maintainer.                                                         *)

Merge ==
  /\ main < Len(history)
  /\ main' \in main + 1 .. Len(history)
  /\ UNCHANGED <<history, tags, runs, releases, group, left, ghosts>>

\* The bounds let the maintainer do this.
Spend(what) == left[what] > 0 /\ left' = [left EXCEPT ![what] = @ - 1]

\* A run of release.yml has the version of its tag, and a run of pages.yml none, but
\* the tag it was told, if it was not told a commit; its job build is the first job
\* of the run, as validate is of the other, and it has nothing to publish.
NewRun(version, ref, commit) ==
  runs' = Append(runs, [version |-> version, ref |-> ref, commit |-> commit, base |-> 0,
                        validate |-> "waiting",
                        publish |-> IF version = None THEN "passed" ELSE "waiting",
                        deploy |-> "waiting"])

\* A tag is pushed on a commit, of main or not, or moved to it.  Orderly is a
\* maintainer who pushes each tag once, past all others, and only when every
\* other tag has passed validate.
PushTag(v, c) ==
  /\ tags[v] # c /\ Spend("pushes")
  /\ tags' = [tags EXCEPT ![v] = c]
  /\ NewRun(v, None, c)
  /\ places' = [places EXCEPT ![v] = @ \cup {c}]
  /\ orderly' = /\ orderly /\ places[v] = {}
                /\ \A w \in Version : tags[w] # 0 =>
                     tags[w] < c /\ <<w, tags[w]>> \in validated
  /\ UNCHANGED <<history, main, releases, group, validated, repaired>>

\* And who deletes no tag but one whose run has failed.
DeleteTag(v) ==
  /\ tags[v] # 0 /\ Spend("deletes")
  /\ tags' = [tags EXCEPT ![v] = 0]
  /\ orderly' = /\ orderly /\ releases[v] = 0
                /\ \A i \in 1 .. Len(runs) :
                     runs[i].version = v => runs[i].validate = "failed"
  /\ UNCHANGED <<history, main, runs, releases, group, places, validated, repaired>>

\* pages.yml is told a commit by its hash, or a release tag.
Repair(ref, c) ==
  /\ ref = None <=> c # 0
  /\ Spend("repairs")
  /\ NewRun(None, ref, c)
  /\ UNCHANGED <<history, main, tags, releases, group, ghosts>>

IsOver(run) ==
  /\ run.validate \in {"passed", "failed"}
  /\ run.validate = "passed" => run.publish \in {"passed", "failed"}
  /\ run.validate = "passed" /\ run.publish = "passed" =>
       run.deploy \in {"passed", "failed", "cancelled"}

\* A job of a run that is over, and with it the jobs that need it.
Rerun(i, job) ==
  LET run == runs[i]
      again == [run EXCEPT !.deploy = "waiting"]
  IN /\ IsOver(run) /\ Spend("reruns")
     /\ \/ /\ job = "validate"
           /\ runs' = [runs EXCEPT ![i] =
                [again EXCEPT !.base = 0, !.validate = "waiting",
                              !.publish = IF run.version = None THEN @ ELSE "waiting"]]
        \/ /\ job = "publish" /\ run.version # None /\ run.validate = "passed"
           /\ runs' = [runs EXCEPT ![i] = [again EXCEPT !.publish = "waiting"]]
        \/ /\ job = "deploy" /\ run.validate = "passed" /\ run.publish = "passed"
           /\ runs' = [runs EXCEPT ![i] = again]
     /\ UNCHANGED <<history, main, tags, releases, group, ghosts>>

Maintainer ==
  \/ Merge
  \/ \E v \in Version, c \in 1 .. Len(history) : PushTag(v, c)
  \/ \E v \in Version : DeleteTag(v)
  \/ \E ref \in Version \cup {None}, c \in 0 .. Len(history) : Repair(ref, c)
  \/ \E i \in 1 .. Len(runs), job \in {"validate", "publish", "deploy"} : Rerun(i, job)

-----------------------------------------------------------------------------
(* The jobs of run i.                                                      *)

\* validate: the commit of the event, with all tags there are now.
Checkout(i) ==
  /\ runs[i].version # None /\ runs[i].validate = "waiting"
  /\ \E base \in infer_stable_release_base(runs[i].commit) :
       runs' = [runs EXCEPT ![i].validate = "checked out", ![i].base = base]
  /\ UNCHANGED <<history, main, tags, releases, group, left, ghosts>>

\* What the job demands of the commit; main is fetched here.
IsRelease(run) ==
  /\ history[run.commit].version = run.version
  /\ run.commit <= main
  /\ validate_version(run.commit)
  /\ validate_release_version_change(run.commit, run.base)

\* Other checks, the network or the timeout may fail the job too.
Validate(i) ==
  /\ runs[i].validate = "checked out"
  /\ \/ /\ IsRelease(runs[i])
        /\ runs' = [runs EXCEPT ![i].validate = "passed"]
        /\ validated' = validated \cup {<<runs[i].version, runs[i].commit>>}
     \/ /\ runs' = [runs EXCEPT ![i].validate = "failed"]
        /\ UNCHANGED validated
  /\ UNCHANGED <<history, main, tags, releases, group, left, places, repaired, orderly>>

\* Mutant: where the tag is not there, the build goes on with nothing checked out.
MissingTag(i) ==
  /\ runs[i].version = None /\ runs[i].validate = "waiting"
  /\ LET c == IF runs[i].ref = None THEN runs[i].commit ELSE tags[runs[i].ref]
     IN /\ runs' = [runs EXCEPT ![i].validate = "passed", ![i].commit = c]
        /\ repaired' = repaired \cup {c}
  /\ UNCHANGED <<history, main, tags, releases, group, left, places, validated, orderly>>

\* build of pages.yml: a tag is looked up now, whatever it named when the repair was
\* asked for.  It may not be there, and the job may fail for other reasons.
Build(i) ==
  /\ runs[i].version = None /\ runs[i].validate = "waiting"
  /\ LET c == IF runs[i].ref = None THEN runs[i].commit ELSE tags[runs[i].ref]
     IN \/ /\ c # 0
           /\ runs' = [runs EXCEPT ![i].validate = "passed", ![i].commit = c]
           /\ repaired' = repaired \cup {c}
        \/ /\ runs' = [runs EXCEPT ![i].validate = "failed"]
           /\ UNCHANGED repaired
  /\ UNCHANGED <<history, main, tags, releases, group, left, places, validated, orderly>>

\* Mutant: without --verify-tag the tag is made, at the tip of main.
MakesTheTag(v) ==
  /\ releases[v] = 0
  /\ tags' = [tags EXCEPT ![v] = IF @ = 0 THEN main ELSE @]
  /\ releases' = [releases EXCEPT ![v] = tags'[v]]

\* gh release create --verify-tag: of the commit the tag names now.
Create(v) ==
  /\ releases[v] = 0 /\ tags[v] # 0
  /\ releases' = [releases EXCEPT ![v] = tags[v]]
  /\ UNCHANGED tags

\* The job may fail with or without having created the release: its notes may be
\* gone, or it is ended by its timeout after the creation.
Publish(i) ==
  /\ runs[i].validate = "passed" /\ runs[i].publish = "waiting"
  /\ \/ /\ Create(runs[i].version)
        /\ \E outcome \in {"passed", "failed"} :
             runs' = [runs EXCEPT ![i].publish = outcome]
     \/ /\ runs' = [runs EXCEPT ![i].publish = "failed"]
        /\ UNCHANGED <<tags, releases>>
  /\ UNCHANGED <<history, main, group, left, ghosts>>

\* Mutant: the deployment waits for validate alone.
ValidateIsEnough(run) == run.validate = "passed" /\ run.publish # "waiting"

needs(run) == run.validate = "passed" /\ run.publish = "passed"

\* concurrency: group pages.  One runs to its end; the latest to come waits, and
\* the one that waited before is cancelled.
Enter(i) ==
  /\ IF running = None THEN running' = i /\ UNCHANGED pending
     ELSE pending' = i /\ UNCHANGED running
  /\ runs' = [n \in DOMAIN runs |->
               IF n = i THEN [runs[n] EXCEPT !.deploy = "queued"]
               ELSE IF n = pending THEN [runs[n] EXCEPT !.deploy = "cancelled"]
               ELSE runs[n]]

RequestDeploy(i) ==
  /\ needs(runs[i]) /\ runs[i].deploy = "waiting"
  /\ Enter(i)
  /\ UNCHANGED <<history, main, tags, releases, site, left, ghosts>>

\* The deployment under way ends; the one that waits takes its place.
EndDeploy ==
  /\ running # None
  /\ \/ /\ site' = runs[running].commit
        /\ runs' = [runs EXCEPT ![running].deploy = "passed"]
     \/ /\ runs' = [runs EXCEPT ![running].deploy = "failed"]
        /\ UNCHANGED site
  /\ running' = pending /\ pending' = None
  /\ UNCHANGED <<history, main, tags, releases, left, ghosts>>

Job(i) == Checkout(i) \/ Validate(i) \/ Build(i) \/ Publish(i) \/ RequestDeploy(i)

Next ==
  \/ Maintainer
  \/ \E i \in 1 .. Len(runs) : Job(i)
  \/ EndDeploy

Spec == Init /\ [][Next]_vars

-----------------------------------------------------------------------------
Commit == 1 .. Len(history)

\* Every run that has passed its first job is of a commit, and so is the site; the
\* runs of the group "pages" are the ones that wait to be deployed or are.
TypeOK ==
  /\ history \in Seq(CommitContents) /\ main \in Commit /\ site \in Commit
  /\ tags \in [Version -> Commit \cup {0}] /\ releases \in [Version -> Commit \cup {0}]
  /\ repaired \subseteq Commit
  /\ \A i \in 1 .. Len(runs) :
       /\ runs[i].commit \in Commit \cup {0}
       /\ runs[i].commit = 0 => runs[i].version = None /\ runs[i].validate # "passed"
       /\ runs[i].deploy = "queued" <=> i \in {running, pending}
  /\ running \in 1 .. Len(runs) \cup {None} /\ pending \in 1 .. Len(runs) \cup {None}
  /\ running = None => pending = None
  /\ running # None => running # pending

\* Whatever is deleted, moved, rerun or repaired: a release names a commit that
\* passed validate under its own version, unless its tag was on two commits.
ReleasedWasValidated ==
  \A v \in Version :
    releases[v] # 0 /\ Cardinality(places[v]) < 2 => <<v, releases[v]>> \in validated

\* An orderly maintainer's releases have later versions the later their commit
\* is, though each was compared with one earlier tag only.
VersionsIncrease ==
  orderly => \A v, w \in Version :
    releases[v] # 0 /\ releases[w] # 0 /\ releases[v] < releases[w] => v < w

\* "A failed validate job produces neither a release nor a site deployment": the
\* site is of a commit that passed and whose version was published, or of one that
\* a repair was told, by its hash or by a tag that was on it when it was built.
SiteIsOfARelease ==
  (\E v \in Version : <<v, site>> \in validated /\ releases[v] # 0) \/ site \in repaired
=============================================================================
