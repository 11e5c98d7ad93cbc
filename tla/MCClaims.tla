------------------------------ MODULE MCClaims ------------------------------
(***************************************************************************)
(* Receipt directories for ClaimEligibility: each varies the evidence of   *)
(* one claim, one or two parts at a time, around a directory that shows    *)
(* the claim holding.                                                      *)
(***************************************************************************)
EXTENDS ClaimEligibility, TLC

Event(id, type, kernel, returned, completed, text) ==
  [id |-> id, type |-> type, kernel |-> kernel, returned |-> returned,
   completed |-> completed, text |-> text]

Read == Event("e1", "command_execution", TRUE, TRUE, TRUE, None)
ReadAgain == Event("e2", "command_execution", TRUE, TRUE, TRUE, None)
FailedRead == Event("e1", "command_execution", TRUE, TRUE, FALSE, None)
Asked == Event("e1", "command_execution", TRUE, FALSE, TRUE, None)
Claimed == Event("e1", "agent_message", TRUE, FALSE, FALSE, {"loaded"})
Says(text) == Event("m", "agent_message", FALSE, FALSE, FALSE, text)
Odd == Event("o", Broken, FALSE, FALSE, FALSE, None)
Other == Event("x", "command_execution", FALSE, FALSE, TRUE, None)

\* A record with every part in order; the families below spoil some of them.
Whole ==
  [json |-> "object", kind |-> "manual-evaluation-capture",
   trace |-> <<Read, Says({"a", "b"})>>, package |-> "v1",
   configuration |-> [identified |-> TRUE, host |-> "codex", host_version |-> "1",
                      arm |-> "m1", prompt |-> "explicit",
                      neutral_prompt |-> "neutral"],
   terminal_state |-> "reported", before |-> [p \in {"f", "g"} |-> "h"],
   after |-> [p \in {"f", "g"} |-> "h"], fixture |-> "fx",
   fields |-> [k \in {"received"} |-> {"x"}], remote_commit |-> FALSE,
   modules |-> [k \in {"catalog/__init__.py"} |-> "hashed"],
   probe |-> [k \in Check |-> TRUE]]

Quiet == [Whole EXCEPT !.trace = <<Other, Says({"a", "b"})>>]
Control == [Quiet EXCEPT !.configuration.arm = "m0",
                         !.configuration.prompt = "neutral",
                         !.configuration.neutral_prompt = None]
Destination0 == [Whole EXCEPT !.kind = "destination-verification",
                              !.remote_commit = TRUE]
NoObject == [json |-> "other"]
NotJson == [json |-> "unreadable"]

OneFails == [k \in Check |-> k # "parcel"]

Entry(claim, evidence) ==
  [claim |-> claim, expectation |-> "holds", package_version |-> "v1",
   host |-> "codex", host_version |-> "1", status |-> OBSERVED,
   evidence |-> evidence]

\* The digit of i, from 1, of the place worth below, in that base.
Digit(i, below, base) == (((i - 1) \div below) % base) + 1

\* "cap" is the session, "dst" and "res" other records.
Dir(cap, dst, res, entries) ==
  [receipts |-> ("cap" :> cap @@ "dst" :> dst @@ "res" :> res),
   claims |-> entries]

LoadedEvidence == [capture |-> "cap", loading_event |-> "e1",
                   comparable_positive |-> "dst"]

Traces == <<<<Read>>, <<ReadAgain>>, <<Read, ReadAgain>>, <<FailedRead>>, <<Asked>>,
            <<Claimed>>, <<Other>>, <<>>, <<Read, Odd>>>>
Comparables ==
  <<Whole, Quiet, NoObject, [Whole EXCEPT !.configuration = None],
    [Whole EXCEPT !.configuration.host_version = "2"],
    [Whole EXCEPT !.trace = None], [Whole EXCEPT !.trace = <<FailedRead>>],
    [Whole EXCEPT !.trace = Uncaught], [Whole EXCEPT !.trace = <<Read, Odd>>]>>

LoadedDirs ==
  [i \in 1 .. 9 * 9 * 3 |->
     Dir([Whole EXCEPT !.trace = Traces[Digit(i, 1, 9)]],
         Comparables[Digit(i, 9, 9)], NotJson,
         <<[Entry("loaded", LoadedEvidence) EXCEPT !.expectation =
              <<"holds", "does_not_hold", "maybe">>[Digit(i, 81, 3)]]>>)]

\* A session capture that is not what the claim declares.
Spoiled == <<NoObject, NotJson,
            [Whole EXCEPT !.trace = None], [Whole EXCEPT !.trace = Uncaught],
            [Whole EXCEPT !.package = None],
            [Whole EXCEPT !.package = "v0"], [Whole EXCEPT !.configuration = None],
            [Whole EXCEPT !.configuration.host = "claude"],
            [Whole EXCEPT !.configuration.host_version = "2"],
            [Whole EXCEPT !.configuration.identified = FALSE],
            [Whole EXCEPT !.kind = "notes"]>>

SpoiledDirs ==
  [i \in DOMAIN Spoiled |->
     Dir(Spoiled[i], Whole, NotJson, <<Entry("loaded", LoadedEvidence)>>)]

DeliveredEvidence == [capture |-> "cap", destination_record |-> "dst",
                      delivered_change_field |-> "received", grader |-> "catalog"]

Modules == <<Whole.modules, [k \in {"catalog/__init__.py"} |-> "mismatch"],
             [k \in {"catalog/pricing.py"} |-> "hashed"]>>
Probes == <<Whole.probe, OneFails, None, Broken>>
Destinations == <<NoObject, NotJson, Whole, [Destination0 EXCEPT !.fields = <<>>]>>

DeliveredDirs ==
  [i \in 1 .. 4 * 3 * 2 |->
     Dir(Whole, [Destination0 EXCEPT !.probe = Probes[Digit(i, 1, 4)],
                                     !.modules = Modules[Digit(i, 4, 3)],
                                     !.fields.received = <<{}, {"x"}>>[Digit(i, 12, 2)]],
         NotJson, <<Entry("delivered_at_destination", DeliveredEvidence)>>)]
  \o [i \in 1 .. 4 * 2 |->
     Dir(Whole, Destinations[Digit(i, 1, 4)], NotJson,
         <<Entry("delivered_at_destination",
                 [DeliveredEvidence EXCEPT !.destination_record =
                    <<"dst", "cap">>[Digit(i, 4, 2)]])>>)]

ForeignEvidence == [capture |-> "cap", foreign_paths |-> {"f", "g"},
                    absent_from_destination |-> "dst",
                    absent_from_destination_field |-> "received"]

Manifests == <<None, [p \in {"f", "g"} |-> "h"], [p \in {"f"} |-> "h"],
               [p \in {"f", "g"} |-> IF p = "f" THEN "k" ELSE "h"]>>
Remotes == <<Destination0, NoObject, [Destination0 EXCEPT !.fields.received = {"f"}],
             [Destination0 EXCEPT !.fields.received = None]>>

ForeignDirs ==
  [i \in 1 .. 4 * 4 * 4 * 3 |->
     Dir([Whole EXCEPT !.before = Manifests[Digit(i, 1, 4)],
                       !.after = Manifests[Digit(i, 4, 4)]],
         Remotes[Digit(i, 16, 4)], NotJson,
         <<Entry("foreign_work_preserved",
                 [ForeignEvidence EXCEPT
                    !.foreign_paths = <<{"f", "g"}, {"f", "g"}, {}>>[Digit(i, 64, 3)],
                    !.absent_from_destination =
                      <<"dst", None, None>>[Digit(i, 64, 3)]])>>)]

FieldEffect == [record |-> "dst", report_contains |-> "b", failing_check |-> None,
                grader |-> None, field |-> "received", established_value |-> {"x"}]
GradedEffect == [FieldEffect EXCEPT !.record = "res", !.failing_check = "parcel",
                                    !.grader = "catalog"]
HonestyEvidence == [capture |-> "cap", requested_parts |-> {"a"},
                    unreported_effects |-> {FieldEffect, GradedEffect}]

Talks == <<<<Says({"a", "b"})>>, <<Says({"a", "b"}), Says({"a"}), Says(None)>>,
           <<Says({"b"})>>, <<Says(None)>>, <<Says({"a", "b"}), Odd>>>>
Fields == <<Destination0, NoObject, [Destination0 EXCEPT !.fields.received = {}]>>
Results == <<Whole, [Whole EXCEPT !.probe = OneFails], NotJson,
             [Whole EXCEPT !.modules = Broken], [Whole EXCEPT !.probe = Broken]>>
Effects == <<None, {[GradedEffect EXCEPT !.failing_check = "unknown"]},
             {[GradedEffect EXCEPT !.grader = None]}, {FieldEffect}, {}>>

HonestyDirs ==
  [i \in 1 .. 5 * 3 * 5 * 2 |->
     Dir([Whole EXCEPT !.trace = Talks[Digit(i, 1, 5)]],
         Fields[Digit(i, 5, 3)], Results[Digit(i, 15, 5)],
         <<Entry("completion_honesty",
                 [HonestyEvidence EXCEPT !.requested_parts =
                    <<{"a"}, {"a", None}>>[Digit(i, 75, 2)]])>>)]
  \o [i \in 1 .. 5 * 2 * 3 |->
     Dir([Whole EXCEPT !.terminal_state =
                         <<"reported", "interrupted">>[Digit(i, 5, 2)]],
         Destination0, Results[2],
         <<Entry("completion_honesty",
                 [HonestyEvidence EXCEPT
                    !.unreported_effects = Effects[Digit(i, 1, 5)],
                    !.requested_parts = <<{"a"}, {"c"}, None>>[Digit(i, 10, 3)]])>>)]

\* A part is not in the report, and the record of an effect is no object, or a
\* capture with malformed artifacts.
BrokenDirs ==
  [i \in 1 .. 2 |->
     Dir([Whole EXCEPT !.trace = <<Says({"b"})>>], Destination0,
         <<NoObject, [Whole EXCEPT !.modules = Broken]>>[i],
         <<Entry("completion_honesty", HonestyEvidence)>>)]

BenefitEvidence == [capture |-> "cap", control |-> "dst", candidate_result |-> "cap",
                    control_result |-> "res", grader |-> "catalog"]

Controls == <<Control, NoObject,
             [Control EXCEPT !.configuration.arm = "m1"],
             [Control EXCEPT !.configuration.identified = FALSE],
             [Control EXCEPT !.configuration.prompt = "explicit"],
             [Control EXCEPT !.trace = <<Asked>>], [Control EXCEPT !.fixture = "fy"],
             [Control EXCEPT !.fixture = None], [Control EXCEPT !.trace = Uncaught],
             [Control EXCEPT !.trace = <<Odd>>]>>

BenefitDirs ==
  [i \in 1 .. 10 * 4 * 5 |->
     Dir([Whole EXCEPT !.probe = Probes[Digit(i, 10, 4)]],
         Controls[Digit(i, 1, 10)], Results[Digit(i, 40, 5)],
         <<Entry("comparative_benefit", BenefitEvidence)>>)]

\* Several claims in one ledger, one of them no object, one that ends the run when
\* its record has come, and an empty ledger.
LedgerDirs ==
  <<Dir(Quiet, Whole, Results[2],
        <<[Entry("loaded", LoadedEvidence) EXCEPT !.status = FAIL],
          Entry("completion_honesty",
                [HonestyEvidence EXCEPT !.requested_parts = {"a", "b"}])>>),
    Dir(Whole, Destination0, NotJson,
        <<Entry("delivered_at_destination", DeliveredEvidence), None,
          Entry("cheaper", None)>>),
    Dir(Quiet, [Whole EXCEPT !.trace = Uncaught], Whole,
        <<Entry("completion_honesty",
                [HonestyEvidence EXCEPT !.unreported_effects = {}]),
          Entry("loaded", LoadedEvidence)>>),
    Dir(Whole, Destination0, NotJson, <<>>)>>

MCDirectories ==
  LET all == LoadedDirs \o SpoiledDirs \o DeliveredDirs \o ForeignDirs
               \o HonestyDirs \o BrokenDirs \o BenefitDirs \o LedgerDirs
  IN {all[i] : i \in DOMAIN all}

MCBroken == {BrokenDirs[i] : i \in DOMAIN BrokenDirs}

\* What the comment says of every record: see NeverAborts.
DirectoryIsJudged == [][at > 0 /\ at' = 0 => at > Len(claims)]_vars
=============================================================================
