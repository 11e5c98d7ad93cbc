----------------------------- MODULE HostChecks -----------------------------
(***************************************************************************)
(* scripts/check_hosts.py: one run of the matrix.  Runner is its process   *)
(* and Gate the check.py it may start; the maintainer edits and commits    *)
(* the package meanwhile.  A host is external: its commands succeed or     *)
(* fail, its list is true, unreadable or vague, and it may install other   *)
(* bytes than it was given.  VERSION is one more file of the package here. *)
(***************************************************************************)
EXTENDS HostAdmission

CONSTANTS
  Runner, Gate,
  File, Content,
  First,     \* the package at the start
  MaxEdits,  \* bound: edits and commits of the maintainer
  Option     \* the options and what the run meets: see HostsAssumption

Host == {"codex", "claude"}
Tree == [File -> Content]

StepName == {"plain marketplace", "marketplace", "install", "list", "inspect installed files",
             "uninstall", "list after uninstall", "verify uninstall"}

ASSUME HostsAssumption ==
  /\ {Runner, Gate} \subseteq Process /\ Runner # Gate
  /\ Runner \notin CheckPy /\ Gate \in CheckPy
  /\ Parent[Gate] = Runner /\ Parent[Runner] = None
  /\ First \in Tree /\ MaxEdits \in Nat
  /\ None \notin StepName \cup {"PASS", "FAIL", "UNVERIFIED"}
  /\ Option \subseteq
       [package_gate : BOOLEAN, skip_install : BOOLEAN, smoke : BOOLEAN,
        validators : SUBSET Host, installs : SUBSET Host,  \* those that are required
        source : BOOLEAN,                \* --codex-marketplace-source is given
        present : SUBSET Host,           \* the host CLIs on the path
        schema : [Host -> {"PASS", "FAIL", "UNVERIFIED"}], \* what a validator will say
        outside : SUBSET Process]        \* other processes started meanwhile
  \* parser.error refuses the rest.
  /\ \A o \in Option : /\ o.skip_install => o.installs = {} /\ ~o.smoke
                       /\ \A p \in o.outside : Parent[p] = None

VARIABLES
  options,
  package,   \* VERSION and plugins/skiphow as they are now
  head,      \* the package of the last commit
  edits,
  seen,      \* the packages there were since the current step began
  at,        \* where main is
  host,      \* the host of the cycle under way
  identity,  \* what package_identity read
  source,    \* the payload of the plain marketplace
  plugin,    \* None or what the host installed; usable: enabled, in its clean home
  listed,    \* the last inventory the host printed
  steps,     \* recorded steps that passed
  failed,    \* the one that failed, None before
  installed, \* the payload the host home held when it was inspected
  blocked,   \* the failure reads like a managed source policy
  past,      \* history: the packages there were since the cycle began
  returned,  \* history: one of them came back after another
  rows,      \* the status of each capability that has a row
  errors,    \* whether there are any
  receipt    \* the bundle of this host, once it is written

history == <<past, returned>>
worldVars == <<package, head, edits, seen, history>>
cycleVars == <<identity, source, plugin, listed, steps, failed, installed, blocked>>
matrixVars == <<rows, errors, receipt>>
vars == <<admissionVars, options, at, host, worldVars, cycleVars, matrixVars>>

Capability == {"gate", "codex schema", "claude schema"} \cup Host

Init ==
  /\ options \in Option
  /\ AdmissionInit(options.outside \cup {Runner})
  /\ package = First
  /\ head = package
  /\ edits = 0
  /\ seen = {package}
  /\ past = {package} /\ returned = FALSE
  /\ at = "gate" /\ host = "codex"
  /\ identity = None /\ source = None /\ plugin = None /\ listed = None
  /\ steps = {} /\ failed = None /\ installed = None /\ blocked = FALSE
  /\ rows = [c \in Capability |-> None]
  /\ errors = FALSE
  /\ receipt = None

-----------------------------------------------------------------------------
(* The maintainer; a run that installs nothing reads nothing of the edits. *)

Edit ==
  /\ edits < MaxEdits /\ ~options.skip_install
  /\ \E f \in File, c \in Content : package' = [package EXCEPT ![f] = c]
  /\ package' # package
  /\ edits' = edits + 1 /\ seen' = seen \cup {package'}
  /\ past' = past \cup {package'} /\ returned' = (returned \/ package' \in past)
  /\ UNCHANGED <<admissionVars, options, at, host, head, cycleVars, matrixVars>>

Commit ==
  /\ edits < MaxEdits /\ ~options.skip_install
  /\ package # head /\ head' = package
  /\ edits' = edits + 1
  /\ UNCHANGED <<admissionVars, options, at, host, package, seen, history,
                 cycleVars, matrixVars>>

\* What a walk over the files may have read since the step began.
Torn == {t \in Tree : \A f \in File : \E s \in seen : t[f] = s[f]}

-----------------------------------------------------------------------------
(* main: the gate and the validators.                                      *)

Running == stage[Runner] = "admitted"

\* main goes from one place to another; what it read before is read.
Step(from, to) ==
  /\ Running /\ at = from
  /\ at' = to
  /\ seen' = {package}
  /\ UNCHANGED <<options, package, head, edits>>

Row(c, status, error) ==
  /\ rows' = [rows EXCEPT ![c] = status]
  /\ errors' = (errors \/ error)

StartGate ==
  /\ Step("gate", IF options.package_gate THEN "gating" ELSE "codex schema")
  /\ IF options.package_gate
     THEN stage' = [stage EXCEPT ![Gate] = "started"] /\ UNCHANGED matrixVars
     ELSE Row("gate", "UNVERIFIED", FALSE) /\ UNCHANGED <<stage, receipt>>
  /\ UNCHANGED <<adapter, holders, exit, host, history, cycleVars>>

\* The gate is over, or is killed after its 900 seconds.
GateEnds ==
  /\ Step("gating", "codex schema")
  /\ \/ /\ stage[Gate] = "over" /\ UNCHANGED admissionVars
        /\ IF exit[Gate] = 0 THEN Row("gate", "PASS", FALSE)
           ELSE Row("gate", "FAIL", TRUE)
     \/ /\ stage[Gate] # "over" /\ Leave(Gate, 1) /\ UNCHANGED adapter
        /\ Row("gate", "FAIL", TRUE)
  /\ UNCHANGED <<host, history, cycleVars, receipt>>

\* A validator, or the Python it needs, may not be there.
SchemaRow(h, c, status) ==
  Row(c, status, status = "FAIL" \/ (status = "UNVERIFIED" /\ h \in options.validators))

CodexSchema ==
  /\ Step("codex schema", "claude schema")
  /\ SchemaRow("codex", "codex schema", options.schema["codex"])
  /\ UNCHANGED <<admissionVars, host, history, cycleVars, receipt>>

ClaudeSchema ==
  /\ Step("claude schema", "host")
  /\ SchemaRow("claude", "claude schema",
               IF "claude" \in options.present THEN options.schema["claude"]
               ELSE "UNVERIFIED")
  /\ UNCHANGED <<admissionVars, host, history, cycleVars, receipt>>

-----------------------------------------------------------------------------
(* One host: its clean home, the cycle of _InstallCycle, its row.          *)

\* Mutant: a host that is not there has no row.
SkippedWithoutRow ==
  LET next == IF options.skip_install \/ host \notin options.present THEN "next host"
              ELSE IF options.smoke THEN "identity" ELSE "plain marketplace"
  IN /\ Step("host", next)
     /\ UNCHANGED matrixVars
     /\ past' = {package} /\ returned' = FALSE
     /\ UNCHANGED <<admissionVars, host, cycleVars>>

BeginHost ==
  LET next == IF options.skip_install \/ host \notin options.present THEN "next host"
              ELSE IF options.smoke THEN "identity" ELSE "plain marketplace"
  IN /\ Step("host", next)
     /\ IF next = "next host"
        THEN Row(host, "UNVERIFIED", host \in options.installs) /\ UNCHANGED receipt
        ELSE UNCHANGED matrixVars
     /\ past' = {package} /\ returned' = FALSE
     /\ UNCHANGED <<admissionVars, host, cycleVars>>

\* Mutant: a policy excuses the host even where its install is required.
PolicyExcuses(passed, policy) ==
  LET excused == host = "codex" /\ ~passed /\ policy
  IN Row(host, IF passed THEN "PASS" ELSE IF excused THEN "UNVERIFIED" ELSE "FAIL",
         ~passed /\ ~excused)

\* The row of main, from what the cycle returned.
InstallRow(passed, policy) ==
  LET excused == host = "codex" /\ ~passed /\ policy /\ host \notin options.installs
  IN Row(host, IF passed THEN "PASS" ELSE IF excused THEN "UNVERIFIED" ELSE "FAIL",
         ~passed /\ ~excused)

\* smoke raises ValueError, which main turns into a row without a receipt.
NoReceipt(from) ==
  Step(from, "next host") /\ InstallRow(FALSE, FALSE) /\ UNCHANGED receipt

ReadPayload ==
  /\ \/ NoReceipt("identity") /\ UNCHANGED identity
     \/ /\ Step("identity", "status")
        /\ \E t \in Torn : identity' = [payload |-> t]
        /\ UNCHANGED matrixVars
  /\ UNCHANGED <<admissionVars, host, history, source, plugin, listed, steps, failed,
                 installed, blocked>>

\* git status: anything uncommitted ends the smoke.
ReadStatus ==
  /\ IF package = head THEN Step("status", "commit") /\ UNCHANGED matrixVars
     ELSE NoReceipt("status")
  /\ UNCHANGED <<admissionVars, host, history, cycleVars>>

ReadCommit ==
  /\ Step("commit", "tree")
  /\ identity' = [payload |-> identity.payload, commit |-> head]
  /\ UNCHANGED <<admissionVars, host, history, source, plugin, listed, steps, failed,
                 installed, blocked, matrixVars>>

\* The tree of HEAD; then the version of the host, which may be unknown.
ReadTree ==
  /\ \/ NoReceipt("tree") /\ UNCHANGED identity
     \/ /\ Step("tree", "plain marketplace")
        /\ identity' = [payload |-> identity.payload, commit |-> identity.commit,
                        tree |-> head]
        /\ UNCHANGED matrixVars
  /\ UNCHANGED <<admissionVars, host, history, source, plugin, listed, steps, failed,
                 installed, blocked>>

\* The snapshot of the package, or the marketplace the caller gave for Codex.
PlainMarketplace ==
  /\ \/ /\ Step("plain marketplace", "verify source")
        /\ source' \in IF host = "codex" /\ options.source THEN Tree ELSE Torn
        /\ UNCHANGED matrixVars
     \/ options.smoke /\ NoReceipt("plain marketplace") /\ UNCHANGED source
  /\ UNCHANGED <<admissionVars, host, history, identity, plugin, listed, steps, failed,
                 installed, blocked>>

Passed(from, to, step) ==
  /\ Step(from, to)
  /\ steps' = steps \cup {step} /\ UNCHANGED <<failed, blocked>>

Failed(from, step) ==
  /\ Step(from, "cycle over")
  /\ failed' = step /\ UNCHANGED steps

\* A file that cannot be read fails the step like one that differs.
VerifySource ==
  /\ \/ source \in Torn /\ Passed("verify source", "marketplace", "plain marketplace")
     \/ Failed("verify source", "plain marketplace") /\ UNCHANGED blocked
  /\ UNCHANGED <<admissionVars, host, history, identity, source, plugin, listed, installed,
                 matrixVars>>

\* run(): a command fails on its exit code, its 180 seconds, or a repository it
\* leaves behind; what it printed may read like a refusal by a policy.
CommandFails(name) == Failed(name, name) /\ blocked' \in BOOLEAN

AddMarketplace ==
  /\ Passed("marketplace", "install", "marketplace") \/ CommandFails("marketplace")
  /\ UNCHANGED <<admissionVars, host, history, identity, source, plugin, listed, installed,
                 matrixVars>>

\* A host may install other bytes, outside its home, or disabled; one that fails
\* may have installed them before.
Install ==
  /\ \/ /\ Passed("install", "list", "install")
        /\ plugin' \in [payload : Tree, usable : BOOLEAN]
     \/ /\ CommandFails("install")
        /\ plugin' \in {None, [payload |-> source, usable |-> TRUE]}
  /\ UNCHANGED <<admissionVars, host, history, identity, source, listed, installed,
                 matrixVars>>

Inventory == IF plugin = None THEN "absent" ELSE "present"

\* What list may print: the inventory; what is no JSON or no list; or what is one
\* and shows no installed plugin, whether there is one or not (null, an object
\* without "installed", entries that are no objects or do not say so).
Listings == {Inventory, "unreadable", "vague"}

List ==
  /\ \/ Passed("list", "inspect", "list") /\ listed' \in Listings
     \/ CommandFails("list") /\ UNCHANGED listed
  /\ UNCHANGED <<admissionVars, host, history, identity, source, plugin, installed,
                 matrixVars>>

\* Mutant: the snapshot is looked at again, and not what the host installed.
InspectsTheSource ==
  /\ \/ /\ listed = "present" /\ source \in Torn
        /\ Passed("inspect", IF options.smoke THEN "uninstall" ELSE "cycle over",
                  "inspect installed files")
        /\ installed' = source
     \/ /\ Failed("inspect", "inspect installed files")
        /\ UNCHANGED <<installed, blocked>>
  /\ UNCHANGED <<admissionVars, host, history, identity, source, plugin, listed,
                 matrixVars>>

\* The inventory entry, which has to be there and say that it is installed and
\* enabled, the installed path and the payload under it.
Inspect ==
  /\ at = "inspect"
  /\ \/ /\ listed = "present" /\ plugin.usable
        /\ plugin.payload \in Torn
        /\ Passed("inspect", IF options.smoke THEN "uninstall" ELSE "cycle over",
                  "inspect installed files")
        /\ installed' = plugin.payload
     \/ /\ Failed("inspect", "inspect installed files")
        /\ installed' \in {None} \cup {p.payload : p \in {plugin} \ {None}}
        /\ UNCHANGED blocked
  /\ UNCHANGED <<admissionVars, host, history, identity, source, plugin, listed,
                 matrixVars>>

\* A host may report success and keep the plugin, or fail and have removed it.
Uninstall ==
  /\ Passed("uninstall", "list after uninstall", "uninstall") \/ CommandFails("uninstall")
  /\ plugin' \in {None, plugin}
  /\ UNCHANGED <<admissionVars, host, history, identity, source, listed, installed,
                 matrixVars>>

ListAgain ==
  /\ \/ /\ Passed("list after uninstall", "verify uninstall", "list after uninstall")
        /\ listed' \in Listings
     \/ CommandFails("list after uninstall") /\ UNCHANGED listed
  /\ UNCHANGED <<admissionVars, host, history, identity, source, plugin, installed,
                 matrixVars>>

\* Mutant: an inventory that cannot be read shows no plugin.
UnreadableIsAbsent ==
  /\ IF listed # "present" THEN Passed("verify uninstall", "cycle over", "verify uninstall")
     ELSE Failed("verify uninstall", "verify uninstall") /\ UNCHANGED blocked
  /\ UNCHANGED <<admissionVars, host, history, identity, source, plugin, listed, installed,
                 matrixVars>>

\* _inventory_absent: a list that says nothing of the plugin will do.
VerifyUninstall ==
  /\ IF listed \in {"absent", "vague"}
     THEN Passed("verify uninstall", "cycle over", "verify uninstall")
     ELSE Failed("verify uninstall", "verify uninstall") /\ UNCHANGED blocked
  /\ UNCHANGED <<admissionVars, host, history, identity, source, plugin, listed, installed,
                 matrixVars>>

\* Mutant: a cycle that came to its uninstall has uninstalled.
TriedIsDone ==
  IF "uninstall" \in steps THEN "PASS"
  ELSE IF "uninstall" = failed THEN "FAIL" ELSE "UNVERIFIED"

uninstall_status ==
  IF "verify uninstall" \in steps THEN "PASS"
  ELSE IF "uninstall" \in steps \cup {failed} THEN "FAIL" ELSE "UNVERIFIED"

clean_status == IF "inspect installed files" \in steps THEN "PASS" ELSE "FAIL"

\* The receipt of the smoke, over any other of the same day, and the row.
EndCycle ==
  /\ Step("cycle over", "next host")
  /\ InstallRow(failed = None, blocked)
  /\ receipt' = IF ~options.smoke THEN None
       ELSE [identity |-> identity, clean_install |-> clean_status,
             uninstall |-> uninstall_status, installed_files |-> installed]
  /\ UNCHANGED <<admissionVars, host, history, cycleVars>>

\* An OSError outside the steps that catch it: main does not.
Crash ==
  /\ \E place \in {"identity", "status", "commit", "tree", "plain marketplace", "cycle over"} :
       /\ place = "cycle over" => options.smoke
       /\ Step(place, "crashed")
  /\ Leave(Runner, 1)
  /\ UNCHANGED <<adapter, host, history, cycleVars, matrixVars>>

NextHost ==
  /\ host = "codex" /\ Step("next host", "host") /\ host' = "claude"
  /\ identity' = None /\ source' = None /\ plugin' = None /\ listed' = None
  /\ steps' = {} /\ failed' = None /\ installed' = None /\ blocked' = FALSE
  /\ receipt' = None
  /\ UNCHANGED <<admissionVars, history, rows, errors>>

Finish ==
  /\ host = "claude" /\ Step("next host", "finished")
  /\ Leave(Runner, IF errors THEN 1 ELSE 0)
  /\ UNCHANGED <<adapter, host, history, cycleVars, matrixVars>>

-----------------------------------------------------------------------------
main ==
  \/ StartGate \/ GateEnds \/ CodexSchema \/ ClaudeSchema
  \/ BeginHost \/ ReadPayload \/ ReadStatus \/ ReadCommit \/ ReadTree
  \/ PlainMarketplace \/ VerifySource \/ AddMarketplace \/ Install \/ List \/ Inspect
  \/ Uninstall \/ ListAgain \/ VerifyUninstall \/ EndCycle \/ Crash \/ NextHost \/ Finish

matrixRun == <<options, at, host, worldVars, cycleVars, matrixVars>>

Admission == AdmissionNext /\ UNCHANGED matrixRun

Next == main \/ Admission \/ Edit \/ Commit

\* main goes on: every command it waits for has a timeout.  So do check.py and
\* the adapter, which gives a free slot to a process that waits.
Fairness ==
  /\ WF_vars(main)
  /\ \A p \in Process :
       /\ WF_vars(Enter(p) /\ UNCHANGED matrixRun)
       /\ WF_vars(GiveSlot(p) /\ UNCHANGED matrixRun)
       /\ WF_vars(RunChecks(p) /\ UNCHANGED matrixRun)

Spec == Init /\ [][Next]_vars /\ Fairness

-----------------------------------------------------------------------------
Status == {"PASS", "FAIL", "UNVERIFIED"}

\* Rows are written in order, a receipt only by a smoke, and the cycle records
\* what the place of main allows.
TypeOK ==
  /\ stage \in [Process -> {"unborn", "started", "queued", "admitted", "over"}]
  /\ holders \subseteq Process /\ Cardinality(holders) <= Slots
  /\ rows \in [Capability -> Status \cup {None}] /\ errors \in BOOLEAN
  /\ at = "finished" => \A c \in Capability : rows[c] # None
  /\ source \in Tree \cup {None} /\ installed \in Tree \cup {None}
  /\ receipt # None => options.smoke /\ rows[host] # None
  /\ failed # None => failed \notin steps

\* validate_host_receipt with the package as it is now: the receipt names one
\* commit, its tree and its bytes, and they are the committed package.
Accepted(r) ==
  /\ r.identity.commit = r.identity.tree
  /\ r.identity.commit = r.identity.payload
  /\ package = head /\ r.identity.payload = package

\* A host passes only when the bytes of the package, if it did not change, were
\* found in what the host installed: enabled, in the clean home and there yet, or
\* after a smoke gone, unless the list after the uninstall was vague.
PassIsEarned ==
  [][EndCycle /\ rows'[host] = "PASS" =>
       /\ past = {package} => installed = package
       /\ IF options.smoke THEN listed # "vague" => plugin = None
          ELSE plugin # None /\ plugin.usable /\ plugin.payload = installed]_vars

\* A receipt that validation accepts is of the bytes that were installed, unless
\* the package was changed and changed back meanwhile; one that says the plugin
\* was uninstalled is right, unless the list after the uninstall was vague.
ReceiptIsTrue ==
  [][EndCycle /\ options.smoke =>
       LET r == receipt'
       IN /\ r.uninstall = "PASS" /\ listed # "vague" => plugin = None
          /\ r.clean_install = "PASS" /\ Accepted(r) /\ ~returned =>
               r.installed_files = r.identity.payload]_vars

\* The exit code says what the matrix says: 0 only when nothing failed and all
\* that was required passed, 1 only for a crash, a failure or a required row.
ExitAgrees ==
  LET required ==
        {c \in {"codex schema", "claude schema"} :
           \E h \in options.validators : c = IF h = "codex" THEN "codex schema"
                                            ELSE "claude schema"} \cup options.installs
      good == /\ \A c \in Capability : rows[c] \in {"PASS", "UNVERIFIED"}
              /\ \A c \in required : rows[c] = "PASS"
  IN at = "finished" => exit[Runner] = IF good THEN 0 ELSE 1

\* Whatever the adapter, the gate and the hosts do, the run ends.
RunEnds == <>(stage[Runner] = "over")
=============================================================================
