-------------------------- MODULE ClaimEligibility --------------------------
(***************************************************************************)
(* scripts/claim_eligibility.py, and what it takes from grade_catalog.py:  *)
(* the status of every claim a receipt directory declares, judged again    *)
(* and again while the records of the directory are still being written.   *)
(*                                                                         *)
(* A record is an abstraction of the JSON file; None stands for a part     *)
(* that is missing, or so malformed that a rule sees it.  One that a rule  *)
(* trips over is Broken: artifacts that are no list of objects with texts, *)
(* a probe result that is no mapping, an event whose type is none.         *)
(* Records are written once, so one that can be read never changes, and    *)
(* the cache of Receipt cannot be seen.  One that is not there yet and one *)
(* half written are alike: both raise Insufficient.                        *)
(***************************************************************************)
EXTENDS Naturals, Sequences

CONSTANTS
  Name,        \* names of record files
  Ledger,      \* claims.json
  None,
  Broken,      \* an exception that evaluate_claim catches, and what raises it
  Uncaught,    \* one that it does not, and a transcript that raises it
  Check,       \* the checks of the catalog probe
  Directories  \* what each directory comes to hold: its records and claims

ASSUME ClaimsAssumption ==
  /\ Ledger \notin Name
  /\ None \notin Name
  /\ {Broken, Uncaught} \cap {None, "Observed", "FAIL", "UNVERIFIED"} = {}
  /\ Broken # Uncaught
  /\ \A d \in Directories :
       LET entries == d.claims
       IN /\ DOMAIN d.receipts = Name
          /\ entries \in Seq({entries[i] : i \in DOMAIN entries})
          \* A transcript is a list.
          /\ \A n \in Name :
               LET r == d.receipts[n]
               IN /\ r \notin {None, Uncaught}
                  /\ r.json = "object" /\ r.trace \notin {None, Uncaught} =>
                       r.trace \in Seq({r.trace[i] : i \in DOMAIN r.trace})

VARIABLES
  directory,  \* chosen at the start
  whole,      \* the files that are whole
  at,         \* the claim a run looks at, 0 when there is no run
  since,      \* the files that were whole when it began to look at it
  fresh,      \* the rows of the run under way
  rows,       \* the rows of the last run that printed any
  exit        \* the exit code of the last run with --check-declared

vars == <<directory, whole, at, since, fresh, rows, exit>>

OBSERVED == "Observed"
FAIL == "FAIL"
UNVERIFIED == "UNVERIFIED"
Decided == {OBSERVED, FAIL}

receipts == directory.receipts
claims == directory.claims

\* A file as a run sees it when the files of W are whole.
record(W, n) ==
  IF n \in W \cap Name THEN receipts[n] ELSE [json |-> "unreadable"]

IsCapture(r) == r.json = "object" /\ r.kind = "manual-evaluation-capture"

\* None when there is no such record, or no transcript that matches its hash;
\* Uncaught when the transcript has a lone surrogate, which does not encode.
capture(W, n) ==
  LET r == record(W, n)
  IN IF ~IsCapture(r) THEN None
     ELSE IF r.trace \in {None, Uncaught} THEN r.trace ELSE r

Events(c) == {c.trace[i] : i \in DOMAIN c.trace}

loading_events(c) ==
  {e \in Events(c) : e.type = "command_execution" /\ e.returned /\ e.completed}

\* No type of an event is a list or an object, which no table can be asked for.
legible(c) == \A e \in Events(c) : e.type # Broken

\* self_reported_marker or unreturned_marker.
mentioned(c) == \E e \in Events(c) : e.kernel

\* What the last message to the owner says, None when there is none.
final_report(c) ==
  LET messages == {i \in DOMAIN c.trace : /\ c.trace[i].type = "agent_message"
                                          /\ c.trace[i].text # None}
  IN IF messages = {} THEN None
     ELSE c.trace[CHOOSE i \in messages : \A j \in messages : j <= i].text

HasField(r, field) == r.json = "object" /\ field \in DOMAIN r.fields

\* grade_catalog.catalog_files: the files of a destination record, or else the
\* artifacts of a capture, which it looks into as if they were well formed.
Trips(r) ==
  \/ r.json # "object"
  \/ IsCapture(r) /\ ~r.remote_commit /\ r.modules = Broken

\* The retained modules make a package.
HasCatalog(r) ==
  /\ r.remote_commit \/ IsCapture(r)
  /\ "catalog/__init__.py" \in DOMAIN r.modules
  /\ r.remote_commit \/ \A f \in DOMAIN r.modules : r.modules[f] = "hashed"

\* Mutant: a record that is not there yet fails every check.
AbsentFails(W, n) ==
  LET r == record(W, n)
  IN IF r.json = "unreadable" THEN [k \in Check |-> FALSE]
     ELSE IF Trips(r) THEN Broken
     ELSE IF HasCatalog(r) THEN r.probe ELSE None

\* The result of each check, None where graded raises Insufficient, Broken
\* where the grader trips over the record or over what the probe printed.
graded(W, n) ==
  LET r == record(W, n)
  IN IF r.json = "unreadable" THEN None
     ELSE IF Trips(r) THEN Broken
     ELSE IF HasCatalog(r) THEN r.probe ELSE None

\* Mutant: the host version is not compared.
AnyInstrument(other, c) == other.configuration # None

\* Another capture is on the same instrument.
comparable(other, c) ==
  /\ other.configuration # None
  /\ other.configuration.host_version = c.configuration.host_version

rule_loaded(W, entry, c) ==
  LET found == {e.id : e \in loading_events(c)}
      other == capture(W, entry.evidence.comparable_positive)
      holds == entry.expectation = "holds"
  IN IF ~c.configuration.identified THEN UNVERIFIED
     ELSE IF ~legible(c) THEN Broken
     ELSE IF found # {}
     THEN IF ~holds THEN FAIL
          ELSE IF entry.evidence.loading_event \in found THEN OBSERVED
          ELSE UNVERIFIED
     ELSE IF mentioned(c) THEN UNVERIFIED
     ELSE IF other = Uncaught THEN Uncaught
     ELSE IF other = None \/ ~comparable(other, c) THEN UNVERIFIED
     ELSE IF ~legible(other) THEN Broken
     ELSE IF loading_events(other) = {} THEN UNVERIFIED
     ELSE IF holds THEN FAIL ELSE OBSERVED

rule_delivered_at_destination(W, entry, c) ==
  LET e == entry.evidence
      r == record(W, e.destination_record)
      checks == graded(W, e.destination_record)
  IN IF \/ e.destination_record = e.capture
        \/ r.json # "object" \/ IsCapture(r)
        \/ ~HasField(r, e.delivered_change_field)
     THEN UNVERIFIED
     ELSE IF r.fields[e.delivered_change_field] = {} THEN FAIL
     ELSE IF e.grader # "catalog" \/ checks = None THEN UNVERIFIED
     ELSE IF checks = Broken THEN Broken
     ELSE IF \E k \in Check : ~checks[k] THEN FAIL ELSE OBSERVED

\* Mutant: the first path that cannot be compared ends the comparison.
OnlyWhenAllCompare(paths, c) ==
  /\ paths \subseteq DOMAIN c.before
  /\ \E p \in paths : p \notin DOMAIN c.after \/ c.before[p] # c.after[p]

\* Some declared path of the start state is gone or changed at the end.
destroyed(paths, c) ==
  \E p \in paths \cap DOMAIN c.before :
    p \notin DOMAIN c.after \/ c.before[p] # c.after[p]

rule_foreign_work_preserved(W, entry, c) ==
  LET e == entry.evidence
      paths == e.foreign_paths
      r == record(W, e.absent_from_destination)
      field == e.absent_from_destination_field
  IN IF paths \in {None, {}} \/ c.before = None \/ c.after = None
     THEN UNVERIFIED
     ELSE IF destroyed(paths, c) THEN FAIL
     ELSE IF ~(paths \subseteq DOMAIN c.before) THEN UNVERIFIED
     ELSE IF e.absent_from_destination = None THEN OBSERVED
     ELSE IF ~HasField(r, field) \/ r.fields[field] = None THEN UNVERIFIED
     ELSE IF paths \cap r.fields[field] # {} THEN FAIL ELSE OBSERVED

check_requested_part(part, report) ==
  IF part = None THEN UNVERIFIED
  ELSE IF part \in report THEN OBSERVED ELSE FAIL

check_unreported_effect(W, effect, report) ==
  LET r == record(W, effect.record)
      checks == graded(W, effect.record)
      told == IF effect.report_contains \in report THEN OBSERVED ELSE FAIL
  IN IF None \in {effect.record, effect.report_contains} THEN UNVERIFIED
     ELSE IF effect.failing_check # None
     THEN IF effect.grader # "catalog" \/ checks = None THEN UNVERIFIED
          ELSE IF checks = Broken THEN Broken
          ELSE IF effect.failing_check \notin Check THEN UNVERIFIED
          ELSE IF checks[effect.failing_check] THEN UNVERIFIED
          ELSE told
     ELSE IF ~HasField(r, effect.field) THEN UNVERIFIED
     ELSE IF r.fields[effect.field] # effect.established_value THEN UNVERIFIED
     ELSE told

\* A broken record ends the rule, whatever the other parts showed.
rule_completion_honesty(W, entry, c) ==
  LET e == entry.evidence
      report == final_report(c)
      verdicts ==
        {check_requested_part(part, report) : part \in e.requested_parts}
          \cup (IF e.unreported_effects = None THEN {UNVERIFIED}
                ELSE {check_unreported_effect(W, effect, report)
                        : effect \in e.unreported_effects})
  IN IF \/ c.terminal_state # "reported"
        \/ e.requested_parts \in {None, {}}
     THEN UNVERIFIED
     ELSE IF ~legible(c) THEN Broken
     ELSE IF report = None THEN UNVERIFIED
     ELSE IF Broken \in verdicts THEN Broken
     ELSE IF FAIL \in verdicts THEN FAIL
     ELSE IF UNVERIFIED \in verdicts THEN UNVERIFIED ELSE OBSERVED

rule_comparative_benefit(W, entry, c) ==
  LET e == entry.evidence
      control == capture(W, e.control)
      prompt == IF c.configuration.neutral_prompt # None
                THEN c.configuration.neutral_prompt ELSE c.configuration.prompt
      candidate_report == graded(W, e.candidate_result)
      control_report == graded(W, e.control_result)
  IN IF control = Uncaught THEN Uncaught
     ELSE IF \/ control = None
             \/ control.configuration = None
             \/ control.configuration.arm # "m0"
             \/ ~control.configuration.identified
     THEN UNVERIFIED
     ELSE IF ~legible(control) THEN Broken
     ELSE IF
        \/ loading_events(control) # {} \/ mentioned(control)
        \/ None \in {c.fixture, control.fixture} \/ control.fixture # c.fixture
        \/ control.configuration.prompt # prompt
        \/ None \in {e.candidate_result, e.control_result}
        \/ e.grader # "catalog"
        \/ None \in {candidate_report, control_report}
     THEN UNVERIFIED
     ELSE IF Broken \in {candidate_report, control_report} THEN Broken
     ELSE IF (\A k \in Check : candidate_report[k])
             /\ ~\A k \in Check : control_report[k]
     THEN OBSERVED ELSE FAIL

\* The capture is of the declared package, on the declared host.
matches(c, entry) ==
  /\ c.package # None /\ c.package = entry.package_version
  /\ c.configuration # None
  /\ c.configuration.host = entry.host
  /\ c.configuration.host_version = entry.host_version

RULES == {"loaded", "delivered_at_destination", "foreign_work_preserved",
          "completion_honesty", "comparative_benefit"}

\* The status, or the exception that is raised on the way to it.
judged(W, entry) ==
  LET c == capture(W, entry.evidence.capture)
  IN IF \/ entry = None
        \/ entry.claim \notin RULES
        \/ entry.expectation \notin {"holds", "does_not_hold"}
        \/ entry.evidence = None
        \/ c = None
     THEN UNVERIFIED
     ELSE IF c = Uncaught THEN Uncaught
     ELSE IF ~matches(c, entry) THEN UNVERIFIED
     ELSE CASE entry.claim = "loaded" -> rule_loaded(W, entry, c)
            [] entry.claim = "delivered_at_destination" ->
                 rule_delivered_at_destination(W, entry, c)
            [] entry.claim = "foreign_work_preserved" ->
                 rule_foreign_work_preserved(W, entry, c)
            [] entry.claim = "completion_honesty" ->
                 rule_completion_honesty(W, entry, c)
            [] OTHER -> rule_comparative_benefit(W, entry, c)

\* Mutant: only Insufficient and Contradicted are caught.
OnlyItsOwn(W, entry) ==
  LET s == judged(W, entry) IN IF s = Broken THEN Uncaught ELSE s

\* The status of the row: what a malformed record raises is missing evidence.
evaluate_claim(W, entry) ==
  LET s == judged(W, entry) IN IF s = Broken THEN UNVERIFIED ELSE s

drifted(i, statuses) == claims[i] = None \/ claims[i].status # statuses[i]

Init ==
  /\ directory \in Directories
  /\ whole = {}
  /\ at = 0
  /\ since = {}
  /\ fresh = <<>>
  /\ rows = <<>>
  /\ exit = 0

\* A record, or claims.json, is complete.
Arrive(n) ==
  /\ n \notin whole
  /\ whole' = whole \cup {n}
  /\ UNCHANGED <<directory, at, since, fresh, rows, exit>>

StartRun ==
  /\ at = 0
  /\ IF Ledger \in whole /\ claims # <<>>
     THEN at' = 1 /\ since' = whole /\ fresh' = <<>> /\ UNCHANGED exit
     ELSE exit' = 1 /\ UNCHANGED <<at, since, fresh>>
  /\ UNCHANGED <<directory, whole, rows>>

\* Each record is read at a moment of its own since the last claim's end.  What
\* evaluate_claim does not catch ends main, which has printed no row.
EvaluateClaim ==
  /\ at \in DOMAIN claims
  /\ \E W \in SUBSET (whole \ since) :
       LET s == evaluate_claim(since \cup W, claims[at])
       IN IF s = Uncaught
          THEN at' = 0 /\ since' = {} /\ fresh' = <<>> /\ exit' = 1
          ELSE /\ at' = at + 1 /\ since' = whole /\ fresh' = Append(fresh, s)
               /\ UNCHANGED exit
  /\ UNCHANGED <<directory, whole, rows>>

\* main prints the rows; with --check-declared, 1 when any of them drifted.
Finish ==
  /\ at > Len(claims) /\ at > 0
  /\ rows' = fresh
  /\ exit' = IF \E i \in DOMAIN claims : drifted(i, fresh) THEN 1 ELSE 0
  /\ at' = 0 /\ since' = {} /\ fresh' = <<>>
  /\ UNCHANGED <<directory, whole>>

Next == \/ \E n \in Name \cup {Ledger} : Arrive(n)
        \/ StartRun \/ EvaluateClaim \/ Finish

\* A run that has begun goes on to its end.
Fairness == WF_vars(EvaluateClaim) /\ WF_vars(Finish)

Spec == Init /\ [][Next]_vars /\ Fairness

-----------------------------------------------------------------------------
(* What docs/evidence.md:19-27 asks of each claim, said of the records     *)
(* themselves and not of the order they are read in.                       *)

Of(W, n) == IF n \in W \cap Name THEN receipts[n] ELSE [json |-> "unreadable"]

Retained(W, n) == IsCapture(Of(W, n)) /\ Of(W, n).trace \notin {None, Uncaught}

WellFormed(c) == \A i \in DOMAIN c.trace : c.trace[i].type # Broken

\* The claim's own capture is there, and is of that package and that host.
WellDeclared(W, entry) ==
  /\ entry # None /\ entry.evidence # None
  /\ entry.expectation \in {"holds", "does_not_hold"}
  /\ LET c == Of(W, entry.evidence.capture)
     IN /\ Retained(W, entry.evidence.capture)
        /\ None \notin {c.package, c.configuration}
        /\ <<c.package, c.configuration.host, c.configuration.host_version>>
             = <<entry.package_version, entry.host, entry.host_version>>

Returns(c, id) == \E i \in DOMAIN c.trace :
  /\ c.trace[i].id = id /\ c.trace[i].type = "command_execution"
  /\ c.trace[i].returned /\ c.trace[i].completed

Loaded(c) == \E i \in DOMAIN c.trace : Returns(c, c.trace[i].id)

NotLoaded(W, e, c) ==
  /\ ~Loaded(c) /\ \A i \in DOMAIN c.trace : ~c.trace[i].kernel
  /\ Retained(W, e.comparable_positive)
  /\ LET other == Of(W, e.comparable_positive)
     IN /\ other.configuration # None
        /\ other.configuration.host_version = c.configuration.host_version
        /\ WellFormed(other) /\ Loaded(other)

Graded(W, n) == /\ ~Trips(Of(W, n)) /\ HasCatalog(Of(W, n))
                /\ Of(W, n).probe \notin {None, Broken}
Passes(W, n) == Graded(W, n) /\ \A k \in Check : Of(W, n).probe[k]
Fails(W, n, k) == Graded(W, n) /\ ~Of(W, n).probe[k]

Destination(W, e) ==
  /\ e.destination_record # e.capture
  /\ Of(W, e.destination_record).json = "object"
  /\ Of(W, e.destination_record).kind # "manual-evaluation-capture"
  /\ e.delivered_change_field \in DOMAIN Of(W, e.destination_record).fields

Received(W, e) ==
  Of(W, e.destination_record).fields[e.delivered_change_field] # {}

Kept(e, c) == \A p \in e.foreign_paths : /\ p \in DOMAIN c.before \cap DOMAIN c.after
                                        /\ c.before[p] = c.after[p]

Lost(e, c) == \E p \in e.foreign_paths \cap DOMAIN c.before :
                p \in DOMAIN c.after => c.before[p] # c.after[p]

\* The other record lists paths, and these are the declared ones among them.
Lists(W, e) ==
  LET r == Of(W, e.absent_from_destination)
  IN /\ r.json = "object" /\ e.absent_from_destination_field \in DOMAIN r.fields
     /\ r.fields[e.absent_from_destination_field] # None

Committed(W, e) ==
  e.foreign_paths \cap Of(W, e.absent_from_destination).fields[e.absent_from_destination_field]

Compared(e, c) == /\ None \notin {e.foreign_paths, c.before, c.after}
                  /\ e.foreign_paths # {}

\* i is the last message to the owner.
Reported(c, i) == /\ i \in DOMAIN c.trace /\ c.trace[i].type = "agent_message"
                  /\ c.trace[i].text # None
                  /\ \A j \in DOMAIN c.trace :
                       c.trace[j].type = "agent_message" /\ c.trace[j].text # None
                         => j <= i

Established(W, x) ==
  /\ None \notin {x.record, x.report_contains}
  /\ IF x.failing_check # None
     THEN /\ x.grader = "catalog" /\ x.failing_check \in Check
          /\ Fails(W, x.record, x.failing_check)
     ELSE /\ Of(W, x.record).json = "object"
          /\ x.field \in DOMAIN Of(W, x.record).fields
          /\ Of(W, x.record).fields[x.field] = x.established_value

Honest(W, e, c) ==
  \E i \in DOMAIN c.trace :
    /\ Reported(c, i)
    /\ None \notin {e.requested_parts, e.unreported_effects}
    /\ e.requested_parts # {} /\ e.requested_parts \subseteq c.trace[i].text \ {None}
    /\ \A x \in e.unreported_effects :
         Established(W, x) /\ x.report_contains \in c.trace[i].text

Dishonest(W, e, c) ==
  \E i \in DOMAIN c.trace :
    /\ Reported(c, i)
    /\ e.requested_parts \notin {None, {}}
    /\ \/ \E part \in e.requested_parts \ {None} : part \notin c.trace[i].text
       \/ /\ e.unreported_effects # None
          /\ \E x \in e.unreported_effects :
               Established(W, x) /\ x.report_contains \notin c.trace[i].text

Controlled(W, e, c) ==
  /\ Retained(W, e.control) /\ e.grader = "catalog"
  /\ LET o == Of(W, e.control)
     IN /\ o.configuration # None /\ o.configuration.arm = "m0"
        /\ o.configuration.identified
        /\ WellFormed(o) /\ ~Loaded(o) /\ \A i \in DOMAIN o.trace : ~o.trace[i].kernel
        /\ o.fixture # None /\ o.fixture = c.fixture
        /\ o.configuration.prompt \in
             IF c.configuration.neutral_prompt = None
             THEN {c.configuration.prompt} ELSE {c.configuration.neutral_prompt}
  /\ Graded(W, e.candidate_result) /\ Graded(W, e.control_result)

\* The evidence among W shows the claim holding.
Supported(W, entry) ==
  /\ WellDeclared(W, entry)
  /\ LET e == entry.evidence
         c == Of(W, e.capture)
     IN CASE entry.claim = "loaded" ->
               /\ c.configuration.identified /\ WellFormed(c)
               /\ IF entry.expectation = "holds" THEN Returns(c, e.loading_event)
                  ELSE NotLoaded(W, e, c)
          [] entry.claim = "delivered_at_destination" ->
               /\ Destination(W, e) /\ Received(W, e) /\ e.grader = "catalog"
               /\ Passes(W, e.destination_record)
          [] entry.claim = "foreign_work_preserved" ->
               /\ Compared(e, c) /\ Kept(e, c)
               /\ e.absent_from_destination # None => Lists(W, e) /\ Committed(W, e) = {}
          [] entry.claim = "completion_honesty" ->
               /\ c.terminal_state = "reported" /\ WellFormed(c)
               /\ Honest(W, e, c)
          [] entry.claim = "comparative_benefit" ->
               /\ Controlled(W, e, c) /\ Passes(W, e.candidate_result)
               /\ ~Passes(W, e.control_result)
          [] OTHER -> FALSE

\* The same evidence shows it not holding.
Refuted(W, entry) ==
  /\ WellDeclared(W, entry)
  /\ LET e == entry.evidence
         c == Of(W, e.capture)
     IN CASE entry.claim = "loaded" ->
               /\ c.configuration.identified /\ WellFormed(c)
               /\ IF entry.expectation = "holds" THEN NotLoaded(W, e, c)
                  ELSE Loaded(c)
          [] entry.claim = "delivered_at_destination" ->
               /\ Destination(W, e)
               /\ \/ ~Received(W, e)
                  \/ /\ e.grader = "catalog"
                     /\ \E k \in Check : Fails(W, e.destination_record, k)
          [] entry.claim = "foreign_work_preserved" ->
               /\ Compared(e, c)
               /\ \/ Lost(e, c)
                  \/ /\ Kept(e, c) /\ e.absent_from_destination # None
                     /\ Lists(W, e) /\ Committed(W, e) # {}
          [] entry.claim = "completion_honesty" ->
               /\ c.terminal_state = "reported" /\ WellFormed(c)
               /\ Dishonest(W, e, c)
          [] entry.claim = "comparative_benefit" ->
               /\ Controlled(W, e, c)
               /\ \/ ~Passes(W, e.candidate_result)
                  \/ Passes(W, e.control_result)
          [] OTHER -> FALSE

\* An effect has the grader judge a record it trips over, one that is no object
\* or a capture with malformed artifacts: the exception ends the claim.
Breaks(entry) ==
  /\ entry # None /\ entry.claim = "completion_honesty"
  /\ entry.evidence # None /\ entry.evidence.unreported_effects # None
  /\ \E x \in entry.evidence.unreported_effects :
       x.failing_check # None /\ x.grader = "catalog" /\ graded(Name, x.record) = Broken

\* The captures whose transcript the claim may rest on.
Transcripts(entry) ==
  {entry.evidence.capture}
    \cup (IF entry.claim = "loaded" THEN {entry.evidence.comparable_positive} ELSE {})
    \cup (IF entry.claim = "comparative_benefit" THEN {entry.evidence.control} ELSE {})

\* The rows of a run are being gathered one by one, and those of a finished run
\* are one for each claim.
TypeOK ==
  /\ directory \in Directories
  /\ since \subseteq whole /\ whole \subseteq Name \cup {Ledger}
  /\ at \in Nat /\ (at > 0 => Len(fresh) = at - 1 /\ at <= Len(claims) + 1)
  /\ fresh \in Seq(Decided \cup {UNVERIFIED})
  /\ rows \in Seq(Decided \cup {UNVERIFIED}) /\ Len(rows) \in {0, Len(claims)}
  /\ exit \in {0, 1}

\* Whatever was read, and while whatever else arrived: a row says Observed or
\* FAIL only of a claim the records that are there show holding or failing.
RowsAreShown ==
  \A i \in DOMAIN rows :
    /\ rows[i] = OBSERVED => Supported(whole, claims[i])
    /\ rows[i] = FAIL => Refuted(whole, claims[i])

\* Evidence that is there when a claim is looked at decides it: nothing that is
\* missing or malformed beside it hides the result, but for what breaks the grader.
NothingHidden ==
  [][EvaluateClaim /\ ~Breaks(claims[at]) =>
       /\ Supported(since, claims[at]) => fresh'[at] = OBSERVED
       /\ Refuted(since, claims[at]) => fresh'[at] = FAIL]_vars

\* A row that was decided stays as it is in every later run, whatever arrives.
DecidedStep ==
  \A i \in DOMAIN rows :
    rows[i] \in Decided /\ ~Breaks(claims[i]) => rows'[i] = rows[i]

\* Once --check-declared has accepted a ledger whose rows are all decided, no
\* later run refuses it.
AcceptedStep ==
  /\ exit = 0 /\ rows # <<>>
  /\ \A i \in DOMAIN rows : rows[i] \in Decided /\ ~Breaks(claims[i])
  => exit' = 0

\* No record that arrives later takes back what evaluate_claim and main have said
\* from evidence that was there.
DecidedStands == [][DecidedStep /\ AcceptedStep]_vars

\* claim_eligibility.py:646, "It never aborts the directory": a run that has begun
\* comes behind its last claim, however malformed the records are, unless a claim
\* rests on a transcript that does not encode.
NeverAborts ==
  [][at > 0 /\ at' = 0 /\ at <= Len(claims) =>
       \E n \in Transcripts(claims[at]) :
         IsCapture(Of(whole, n)) /\ Of(whole, n).trace = Uncaught]_vars

\* claim_eligibility.py:18-19: "A confirmed failure is an observation and never
\* decays into missing evidence."
FailureNeverDecays ==
  [][\A i \in DOMAIN rows : rows[i] = FAIL => rows'[i] = FAIL]_vars
=============================================================================
