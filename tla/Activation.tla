----------------------------- MODULE Activation -----------------------------
(***************************************************************************)
(* plugins/skiphow/skills/skiphow/scripts/activation.py: install and       *)
(* remove runs of the helper, step by step, against the files of one host  *)
(* and an owner who may save those files at any moment.                    *)
(*                                                                         *)
(* One run is: Start (the command line), Resolve (which file the host      *)
(* reads), PlanFile for each candidate, PlanDone (the preview ends here),  *)
(* and for each planned change CheckTarget, then either UnlinkTarget or    *)
(* the steps of atomic_write: OpenStaged, WriteStaged, Recheck, Publish,   *)
(* Cleanup.  An exception goes through Unwind, the finally clause.         *)
(* Several runs may be alive at once; nothing in the code locks them out.  *)
(***************************************************************************)
EXTENDS OwnedBlock, Naturals, Sequences

CONSTANTS
  Helper,       \* processes that run the helper, one run at a time each
  Host,         \* "codex", "claude-code", or "target" for --target
  Primary,      \* AGENTS.md, CLAUDE.md, or the explicit target
  Others,       \* <<AGENTS.override.md>>, the rules in sorted order, or <<>>
  Conditional,  \* rules whose frontmatter names paths:
  Commands,     \* the command lines given: an action, and whether --apply
  Saves,        \* what the owner may leave at a path
  Modes,        \* file modes; chmod by the owner picks one
  Private,      \* the mode NamedTemporaryFile gives a new file
  Faults,       \* the faults that may hit a run
  MaxEdits,     \* bound: how many times the owner saves
  MaxFaults     \* bound: how many faults hit all runs together

Path == {Primary} \cup {Others[i] : i \in DOMAIN Others}

ASSUME ConstantsAssumption ==
  /\ Host \in {"codex", "claude-code", "target"}
  /\ Others \in Seq(Path)
  /\ Host = "codex" => Len(Others) = 1
  /\ Host = "target" => Others = <<>>
  /\ Commands \subseteq [action : Action, apply : BOOLEAN]
  /\ Commands # {}
  /\ Saves \subseteq File
  /\ Private \in Modes
  /\ Faults \subseteq {"oserror", "sigterm", "sigkill"}
  /\ MaxEdits \in Nat /\ MaxFaults \in Nat

VARIABLES
  fs,         \* what each path holds
  mode,       \* the mode of the file at each path
  saved,      \* history: the owner's part of what the owner last left there
  raced,      \* history: that save fell between a last check and a write
  modeRaced,  \* history: it fell between reading the mode and the write
  edits,      \* how many times the owner has saved
  faults,     \* how many faults have struck
  pc,         \* the next step of each run
  cmd,        \* its command line
  eff,        \* Layout.effective as this run resolved it
  cands,      \* candidates plan has yet to look at
  todo,       \* the changes plan returned and apply has yet to finish
  smode,      \* mode of the staged file
  temps,      \* helpers whose last staged file is in the directory
  stray       \* the directory also holds one that an earlier run left

ownerVars  == <<saved, raced, modeRaced, edits>>
fileVars   == <<fs, mode>>
runVars    == <<pc, cmd, eff, cands, todo, smode, temps>>
vars == <<fs, mode, saved, raced, modeRaced, edits, faults,
          pc, cmd, eff, cands, todo, smode, temps, stray>>

Change == [path : Path, original : File, changed : File]

Ended == {"idle", "done", "failed", "killed"}
Staged == {"opened", "recheck", "publish"}

\* Where an exception leaves the staged file behind: it has been created and
\* temporary does not name it yet, or its unlink is what fails.
Unguarded == {"opened", "cleanup", "unwind"}

PC == Ended \cup Staged \cup
      {"resolve", "plan", "check", "unlink", "stage", "cleanup", "unwind"}

---------------------------------------------------------------------------
(* resolve: the layout of the host's files, from what they hold now.       *)

Override == Others[1]

overrideRead(f) == Host = "codex" /\ nonempty(f[Override])

effective(f) == IF overrideRead(f) THEN Override ELSE Primary

\* Mutant: only the file the host reads is a candidate.
OnlyEffectiveListed(f) == {effective(f)}

\* Mutant: rules that name paths: are left out.
ConditionalLeftOut(f) == {Primary} \cup {p \in Path \ Conditional : f[p] # None}

\* Layout.candidates: the primary file and every other one that exists ...
candidates(f) == {Primary} \cup {p \in Path : f[p] # None}

\* Mutant: copies are taken out of the other files first.
OthersFirst(effectiveFile, p, q) == q = effectiveFile

\* ... in this order: the effective file, then the others as they are sorted.
before(effectiveFile, p, q) ==
  \/ p = effectiveFile
  \/ /\ q # effectiveFile
     /\ \E i, j \in DOMAIN Others : i < j /\ Others[i] = p /\ Others[j] = q

readByHost(f) ==
  IF Host = "claude-code"
    THEN {Primary} \cup
         {p \in Path \ Conditional : p # Primary /\ f[p] # None}
    ELSE {effective(f)}

\* status_report: some file the host reads holds the block.
configured(f) == \E p \in readByHost(f) : HasBlock(f[p])

---------------------------------------------------------------------------
Init ==
  /\ fs \in [Path -> Saves \cup {None}]
  /\ mode \in [Path -> Modes]
  /\ saved = [p \in Path |-> OwnerPart(fs[p])]
  /\ raced = {} /\ modeRaced = {}
  /\ edits = 0 /\ faults = 0
  /\ pc = [h \in Helper |-> "idle"]
  /\ \E c \in Commands : cmd = [h \in Helper |-> c]
  /\ eff = [h \in Helper |-> Primary]
  /\ cands = [h \in Helper |-> {}]
  /\ todo = [h \in Helper |-> <<>>]
  /\ smode = [h \in Helper |-> Private]
  /\ temps = {}
  /\ stray = FALSE

Goto(h, label) == pc' = [pc EXCEPT ![h] = label]

Target(h) == Head(todo[h]).path
Original(h) == Head(todo[h]).original
Changed(h) == Head(todo[h]).changed

\* The next change, or the end of the run.
NextChange(h) ==
  /\ todo' = [todo EXCEPT ![h] = Tail(@)]
  /\ Goto(h, IF Tail(todo[h]) = <<>> THEN "done" ELSE "check")

\* An exception outside atomic_write: main prints it and returns 1.
Abort(h) ==
  /\ Goto(h, "failed")
  /\ todo' = [todo EXCEPT ![h] = <<>>]

Start(h) ==
  /\ pc[h] \in Ended
  /\ \E c \in Commands : cmd' = [cmd EXCEPT ![h] = c]
  /\ Goto(h, "resolve")
  /\ temps' = temps \ {h}
  /\ stray' = (stray \/ h \in temps)
  /\ UNCHANGED <<fileVars, ownerVars, faults, eff, cands, todo, smode>>

Resolve(h) ==
  /\ pc[h] = "resolve"
  /\ eff' = [eff EXCEPT ![h] = effective(fs)]
  /\ cands' = [cands EXCEPT ![h] = candidates(fs)]
  /\ todo' = [todo EXCEPT ![h] = <<>>]
  /\ Goto(h, "plan")
  /\ UNCHANGED <<fileVars, ownerVars, faults, cmd, smode, temps, stray>>



\* plan: a linked file other than the effective one is skipped; a linked
\* effective file or an edited block stops the run before it writes.
wanted(h, p) == IF p = eff[h] THEN cmd[h].action ELSE "remove"

PlanSkips(h, p) == p # eff[h] /\ linked(fs[p])

PlanRefuses(h, p) == ~PlanSkips(h, p) /\ (linked(fs[p]) \/ Raises(fs[p]))

planned(h, p) ==
  [path |-> p, original |-> fs[p], changed |-> transform(fs[p], wanted(h, p))]

PlanFile(h) ==
  /\ pc[h] = "plan"
  /\ \E p \in cands[h] :
       /\ \A q \in cands[h] \ {p} : before(eff[h], p, q)
       /\ IF PlanRefuses(h, p)
            THEN /\ Abort(h)
                 /\ cands' = [cands EXCEPT ![h] = {}]
            ELSE /\ cands' = [cands EXCEPT ![h] = @ \ {p}]
                 /\ todo' = IF PlanSkips(h, p) \/ planned(h, p).changed = fs[p]
                              THEN todo
                              ELSE [todo EXCEPT ![h] = Append(@, planned(h, p))]
                 /\ UNCHANGED pc
  /\ UNCHANGED <<fileVars, ownerVars, faults, cmd, eff, smode, temps, stray>>

\* No change, or a preview: nothing is written.
PlanDone(h) ==
  /\ pc[h] = "plan"
  /\ cands[h] = {}
  /\ IF todo[h] # <<>> /\ cmd[h].apply
       THEN Goto(h, "check") /\ UNCHANGED todo
       ELSE Goto(h, "done") /\ todo' = [todo EXCEPT ![h] = <<>>]
  /\ UNCHANGED <<fileVars, ownerVars, faults, cmd, eff, cands, smode, temps, stray>>

---------------------------------------------------------------------------
(* apply and atomic_write, for the change at the head of todo.             *)

\* Mutant: links are followed.
LinksFollowed(f, original) == SameBytes(f, original)

\* apply: read raises on a link; the bytes must still be the planned ones.
unchanged(f, original) == ~linked(f) /\ SameBytes(f, original)

CheckTarget(h) ==
  /\ pc[h] = "check"
  /\ IF unchanged(fs[Target(h)], Original(h))
       THEN /\ Goto(h, IF Changed(h) = None THEN "unlink" ELSE "stage")
            /\ UNCHANGED todo
       ELSE Abort(h)
  /\ UNCHANGED <<fileVars, ownerVars, faults, cmd, eff, cands, smode, temps, stray>>

\* path.unlink() looks at nothing but that the path exists.
UnlinkTarget(h) ==
  /\ pc[h] = "unlink"
  /\ IF fs[Target(h)] = None
       THEN Abort(h) /\ UNCHANGED fs
       ELSE NextChange(h) /\ fs' = [fs EXCEPT ![Target(h)] = None]
  /\ UNCHANGED <<mode, ownerVars, faults, cmd, eff, cands, smode, temps, stray>>

\* NamedTemporaryFile(delete=False) beside the target.
OpenStaged(h) ==
  /\ pc[h] = "stage"
  /\ temps' = temps \cup {h}
  /\ Goto(h, "opened")
  /\ UNCHANGED <<fileVars, ownerVars, faults, cmd, eff, cands, todo, smode, stray>>

\* Mutant: the staged file keeps the mode it was made with.
ModeNotCopied(h) ==
  /\ pc[h] = "opened"
  /\ Goto(h, "recheck")
  /\ smode' = [smode EXCEPT ![h] = Private]
  /\ UNCHANGED <<fileVars, ownerVars, faults, cmd, eff, cands, todo, temps, stray>>

\* Mutant: the mode of a file that is not there.
ModeOfMissing(h) ==
  /\ pc[h] = "opened"
  /\ Goto(h, "recheck")
  /\ smode' = [smode EXCEPT ![h] = IF Original(h) = None THEN None ELSE mode[Target(h)]]
  /\ UNCHANGED <<fileVars, ownerVars, faults, cmd, eff, cands, todo, temps, stray>>

\* chmod from target.stat(), which follows links and fails on no file;
\* then write, flush and fsync.
WriteStaged(h) ==
  /\ pc[h] = "opened"
  /\ IF Original(h) # None /\ fs[Target(h)] = None
       THEN Goto(h, "unwind") /\ UNCHANGED smode
       ELSE /\ Goto(h, "recheck")
            /\ smode' = [smode EXCEPT ![h] = IF Original(h) = None
                                               THEN Private
                                               ELSE mode[Target(h)]]
  /\ UNCHANGED <<fileVars, ownerVars, faults, cmd, eff, cands, todo, temps, stray>>

\* Mutant: no second look before the file is published.
RecheckDropped(h) ==
  /\ pc[h] = "recheck"
  /\ Goto(h, "publish")
  /\ UNCHANGED <<fileVars, ownerVars, faults, cmd, eff, cands, todo, smode, temps, stray>>

Recheck(h) ==
  /\ pc[h] = "recheck"
  /\ Goto(h, IF unchanged(fs[Target(h)], Original(h)) THEN "publish" ELSE "unwind")
  /\ UNCHANGED <<fileVars, ownerVars, faults, cmd, eff, cands, todo, smode, temps, stray>>

\* Mutant: a new file is renamed into place over anything that appeared there.
AlwaysReplaced(h) ==
  /\ pc[h] = "publish"
  /\ fs' = [fs EXCEPT ![Target(h)] = Changed(h)]
  /\ mode' = [mode EXCEPT ![Target(h)] = smode[h]]
  /\ temps' = temps \ {h}
  /\ Goto(h, "cleanup")
  /\ UNCHANGED <<ownerVars, faults, cmd, eff, cands, todo, smode, stray>>

\* os.link fails if anything is at the target and leaves the staged name;
\* os.replace renames over whatever is there.
Publish(h) ==
  /\ pc[h] = "publish"
  /\ IF Original(h) = None /\ fs[Target(h)] # None
       THEN Goto(h, "unwind") /\ UNCHANGED <<fs, mode, temps>>
       ELSE /\ fs' = [fs EXCEPT ![Target(h)] = Changed(h)]
            /\ mode' = [mode EXCEPT ![Target(h)] = smode[h]]
            /\ temps' = IF Original(h) = None THEN temps ELSE temps \ {h}
            /\ Goto(h, "cleanup")
  /\ UNCHANGED <<ownerVars, faults, cmd, eff, cands, todo, smode, stray>>

\* The finally clause after a write that worked, and the next change.
Cleanup(h) ==
  /\ pc[h] = "cleanup"
  /\ temps' = temps \ {h}
  /\ NextChange(h)
  /\ UNCHANGED <<fileVars, ownerVars, faults, cmd, eff, cands, smode, stray>>

\* Mutant: the staged file is taken away only after a write that worked.
StagedFileForgotten(h) ==
  /\ pc[h] = "unwind"
  /\ Abort(h)
  /\ UNCHANGED <<fileVars, ownerVars, faults, cmd, eff, cands, smode, temps, stray>>

\* The finally clause while an exception propagates out of atomic_write.
Unwind(h) ==
  /\ pc[h] = "unwind"
  /\ temps' = temps \ {h}
  /\ Abort(h)
  /\ UNCHANGED <<fileVars, ownerVars, faults, cmd, eff, cands, smode, stray>>

---------------------------------------------------------------------------
(* Faults.                                                                 *)

Strikes(kind) ==
  /\ kind \in Faults
  /\ faults < MaxFaults
  /\ faults' = faults + 1

\* A read, a write, a link, a rename or an unlink fails, that of the finally
\* clause included; so does every step of apply when the parent directory is
\* missing.
OSFails(h) ==
  /\ Strikes("oserror")
  /\ \/ /\ pc[h] \in {"resolve", "plan", "check", "unlink", "stage", "cleanup", "unwind"}
        /\ Abort(h)
     \/ /\ pc[h] \in Staged
        /\ Goto(h, "unwind")
        /\ UNCHANGED todo
  /\ UNCHANGED <<fileVars, ownerVars, cmd, eff, cands, smode, temps, stray>>

\* SIGTERM or SIGHUP raises SystemExit at the next bytecode.  atomic_write
\* unwinds through its finally clause, unless the signal comes after the
\* staged file exists and before temporary names it, or inside the finally
\* clause before its unlink.
Cancel(h) ==
  /\ Strikes("sigterm")
  /\ \/ /\ pc[h] \in {"resolve", "plan", "check", "unlink", "stage"} \cup Unguarded
        /\ Abort(h)
     \/ /\ pc[h] \in Staged
        /\ Goto(h, "unwind")
        /\ UNCHANGED todo
  /\ UNCHANGED <<fileVars, ownerVars, cmd, eff, cands, smode, temps, stray>>

\* SIGKILL or a crash of the machine: nothing runs after it.
Kill(h) ==
  /\ Strikes("sigkill")
  /\ pc[h] \notin Ended
  /\ Goto(h, "killed")
  /\ todo' = [todo EXCEPT ![h] = <<>>]
  /\ UNCHANGED <<fileVars, ownerVars, cmd, eff, cands, smode, temps, stray>>

---------------------------------------------------------------------------
(* The owner.                                                              *)

\* The run looks at p no more before it replaces or unlinks it.
Exposed(h, p) ==
  /\ pc[h] \in {"publish", "unlink"}
  /\ Target(h) = p
  /\ Original(h) # None

\* The run has read the mode of p and will give it to what it publishes.
ModeStaged(h, p) ==
  /\ pc[h] \in {"recheck", "publish"}
  /\ Target(h) = p
  /\ Original(h) # None

Mark(set, p, condition) == IF condition THEN set \cup {p} ELSE set \ {p}

\* Any save: new text, a pasted, damaged or deleted block, a link, a delete,
\* another mode.
OwnerSaves(p) ==
  /\ edits < MaxEdits
  /\ edits' = edits + 1
  /\ \E f \in Saves \cup {None}, m \in Modes :
       /\ fs' = [fs EXCEPT ![p] = f]
       /\ mode' = [mode EXCEPT ![p] = m]
       /\ saved' = [saved EXCEPT ![p] = OwnerPart(f)]
  /\ raced' = Mark(raced, p, \E h \in Helper : Exposed(h, p))
  /\ modeRaced' = Mark(modeRaced, p, \E h \in Helper : ModeStaged(h, p))
  /\ UNCHANGED <<runVars, faults, stray>>

---------------------------------------------------------------------------
HelperStep(h) ==
  \/ Resolve(h) \/ PlanFile(h) \/ PlanDone(h)
  \/ CheckTarget(h) \/ UnlinkTarget(h)
  \/ OpenStaged(h) \/ WriteStaged(h) \/ Recheck(h) \/ Publish(h)
  \/ Cleanup(h) \/ Unwind(h)

Fault(h) == OSFails(h) \/ Cancel(h) \/ Kill(h)

Next ==
  \/ \E h \in Helper : Start(h) \/ HelperStep(h) \/ Fault(h)
  \/ \E p \in Path : OwnerSaves(p)

Spec == Init /\ [][Next]_vars

\* A live run keeps running, and the owner starts another one after a run
\* that ended, which is what the helper's messages ask for.
Fairness == \A h \in Helper : WF_vars(HelperStep(h)) /\ WF_vars(Start(h))

FairSpec == Spec /\ Fairness

\* Runs of one action only: an install and a remove at the same time undo each
\* other, and nothing can be said of where they end.
SameAction == \A h \in Helper : cmd'[h].action = cmd[h].action
OneActionSpec == Init /\ [][Next /\ SameAction]_vars

---------------------------------------------------------------------------
(* Properties.                                                             *)

\* Every variable holds what the code can put there.
TypeOK ==
  /\ fs \in [Path -> File] /\ mode \in [Path -> Modes]
  /\ saved \in [Path -> [own : Own, link : BOOLEAN]]
  /\ raced \subseteq Path /\ modeRaced \subseteq Path
  /\ edits \in Nat /\ faults \in Nat
  /\ pc \in [Helper -> PC]
  /\ cmd \in [Helper -> [action : Action, apply : BOOLEAN]]
  /\ eff \in [Helper -> Path]
  /\ cands \in [Helper -> SUBSET Path]
  /\ todo \in [Helper -> Seq(Change)]
  /\ smode \in [Helper -> Modes]
  /\ temps \subseteq Helper /\ stray \in BOOLEAN

\* The owner's text and links survive every run, whatever else runs, fails or
\* is killed meanwhile; only a save that falls between a run's last look at
\* an existing file and its replace or unlink can be lost (atomic_write).
OwnerKept == \A p \in Path \ raced : OwnerPart(fs[p]) = saved[p]

\* A write gives the new file the mode the old one has, unless the owner
\* changed the mode after target.stat(), or lost the race for the text, which
\* lets two runs replace each other's files (atomic_write, line 109).
ModeKept ==
  [][\A p \in Path \ (modeRaced \cup raced) :
       edits' = edits /\ fs[p] # None /\ fs'[p] # None => mode'[p] = mode[p]]_vars

Inside(h) == pc[h] \in Staged \cup {"cleanup", "unwind"}

\* A staged file that is in the directory with no run inside atomic_write was left
\* there by a kill, or by a signal or an OSError that came where the finally clause
\* does not help (Unguarded).  Whatever else goes wrong, from the other run's files
\* to a failed chmod, link or rename, the run that leaves atomic_write has taken its
\* file away, the second name that os.link leaves included (lines 102-123).
StagedRemoved ==
  [][\A h \in temps' :
       \/ Inside(h)'
       \/ h \in temps /\ ~Inside(h)
       \/ faults' # faults /\ (pc'[h] = "killed" \/ pc[h] \in Unguarded)]_vars

\* What a planned write makes of the file it was planned on.
Verb(c) == IF HasBlock(c.changed) THEN "install" ELSE "remove"

\* The file is still one that the planned write transforms.
Current(c, f) ==
  /\ ~linked(f) /\ ~Raises(f)
  /\ transform(f, Verb(c)) = c.changed

\* The bytes a run is about to write over a file are what its action makes of
\* the file as it is now, not only as it was when planned, whatever the other
\* runs did since the last look (apply, atomic_write).
PlanStaysCurrent ==
  \A h \in Helper : \A p \in Path \ raced :
    Exposed(h, p) => Current(Head(todo[h]), fs[p])

\* Although a run decides long before it writes and other runs write in
\* between, every write amounts to installing or removing the block in one
\* step on what the file then holds (apply, atomic_write).
Files == INSTANCE AtomicFiles
AtomicPublish == Files!Spec

\* While only install runs are about, a host that reads the block never stops
\* reading it, whichever step fails or is killed: plan writes the effective
\* file before it takes a copy out of another one.
InstallKeepsConfigured ==
  [][(\A h \in Helper : cmd[h].action = "install") /\ configured(fs)
       => configured(fs')]_vars

\* The only place left with a block is the file the host reads first, links
\* apart, which the helper leaves to the owner.
onlyEffective(f) ==
  /\ HasBlock(f[effective(f)])
  /\ \A p \in Path \ {effective(f)} : HasBlock(f[p]) => linked(f[p])

\* An install that ended well left the block in the effective file and in no
\* other file it may edit (setup.md: "moves a copy found in any other file"); a
\* remove that ended well left no copy at all ("deletes every copy it may edit").
RunsSettle ==
  \A h \in Helper :
    pc[h] = "done" /\ cmd[h].apply =>
      IF cmd[h].action = "install" THEN onlyEffective(fs)
      ELSE \A p \in Path : HasBlock(fs[p]) => linked(fs[p])

\* However many runs fail or are killed half way through, running install
\* again in the end leaves the block in the effective file alone, for good.
EventuallyInstalled == <>[]onlyEffective(fs)

---------------------------------------------------------------------------
(* What the documentation says and the code does not quite keep.           *)

\* The docstring: the helper "preserves every other byte" (lines 16-18).
EveryOtherByteKept == \A p \in Path : OwnerPart(fs[p]) = saved[p]

\* The entry point: "Convert normal process cancellation into unwinding so
\* staged files are removed" (line 398).
CancelledRunsCleanUp == ~stray /\ \A h \in temps : Inside(h)

\* The docstring: the file is resolved "so the owned activation block lands
\* where the host will read it" (lines 4-5).
BlockLandsWhereRead ==
  [][\A h \in Helper :
       pc[h] = "publish" /\ pc'[h] = "cleanup" /\ HasBlock(Changed(h))
         => Target(h) \in readByHost(fs)]_vars
=============================================================================
