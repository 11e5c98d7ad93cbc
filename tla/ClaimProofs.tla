---------------------------- MODULE ClaimProofs ----------------------------
(***************************************************************************)
(* A decided row stands: what a record shows once it can be read is what   *)
(* it shows for good, so no rule takes back Observed or FAIL when more     *)
(* records arrive.  And a row is decided exactly by what the records show: *)
(* each rule, check by check, gives Observed only where the claim is       *)
(* Supported and FAIL only where it is Refuted, and gives nothing else     *)
(* where the files that decide were there.  What a rule trips over is      *)
(* caught, so only a transcript that does not encode ends the run.         *)
(***************************************************************************)
EXTENDS ClaimEligibility, SequenceTheorems, WellFoundedInduction, TLAPS

Statuses == {OBSERVED, FAIL, UNVERIFIED}

LEMMA Apart ==
  /\ \A s \in {OBSERVED, FAIL, UNVERIFIED, None} : s # Broken /\ s # Uncaught
  /\ Broken # Uncaught
BY ClaimsAssumption DEF OBSERVED, FAIL, UNVERIFIED

\* A record that was read is the same in every later view.
LEMMA RecordStays ==
  ASSUME NEW W, NEW V, W \subseteq V, NEW n, record(W, n).json # "unreadable"
  PROVE  record(V, n) = record(W, n)
BY DEF record

LEMMA CaptureStays ==
  ASSUME NEW W, NEW V, W \subseteq V, NEW n, capture(W, n) # None
  PROVE  capture(V, n) = capture(W, n)
BY RecordStays DEF capture, IsCapture

LEMMA GradedStays ==
  ASSUME NEW W, NEW V, W \subseteq V, NEW n, graded(W, n) # None
  PROVE  graded(V, n) = graded(W, n)
BY RecordStays DEF graded

\* Each rule in turn: a decided status stands when more records can be read.
LEMMA LoadedStays ==
  ASSUME NEW W, NEW V, W \subseteq V, NEW entry, NEW c,
         rule_loaded(W, entry, c) \in Decided
  PROVE  rule_loaded(V, entry, c) = rule_loaded(W, entry, c)
<1> DEFINE n == entry.evidence.comparable_positive
<1>1. capture(W, n) # None => capture(V, n) = capture(W, n)
  BY CaptureStays
<1> QED
  BY <1>1, Apart DEF rule_loaded, Decided, OBSERVED, FAIL, UNVERIFIED

LEMMA DeliveredStays ==
  ASSUME NEW W, NEW V, W \subseteq V, NEW entry, NEW c,
         rule_delivered_at_destination(W, entry, c) \in Decided
  PROVE  rule_delivered_at_destination(V, entry, c)
           = rule_delivered_at_destination(W, entry, c)
<1> DEFINE n == entry.evidence.destination_record
<1>1. record(W, n).json = "object"
  BY DEF rule_delivered_at_destination, Decided, OBSERVED, FAIL, UNVERIFIED
<1>2. record(V, n) = record(W, n)
  BY <1>1, RecordStays
<1>3. graded(W, n) # None => graded(V, n) = graded(W, n)
  BY GradedStays
<1> QED
  BY <1>2, <1>3, Apart
  DEF rule_delivered_at_destination, Decided, OBSERVED, FAIL, UNVERIFIED

LEMMA ForeignStays ==
  ASSUME NEW W, NEW V, W \subseteq V, NEW entry, NEW c,
         rule_foreign_work_preserved(W, entry, c) \in Decided
  PROVE  rule_foreign_work_preserved(V, entry, c)
           = rule_foreign_work_preserved(W, entry, c)
<1> DEFINE n == entry.evidence.absent_from_destination
           r(X) == record(X, n)
<1>1. r(W).json = "object" => r(V) = r(W)
  BY RecordStays
<1> QED
  BY <1>1 DEF rule_foreign_work_preserved, HasField, Decided, OBSERVED, FAIL,
              UNVERIFIED

LEMMA BenefitStays ==
  ASSUME NEW W, NEW V, W \subseteq V, NEW entry, NEW c,
         rule_comparative_benefit(W, entry, c) \in Decided
  PROVE  rule_comparative_benefit(V, entry, c)
           = rule_comparative_benefit(W, entry, c)
<1> DEFINE e == entry.evidence
<1>1. /\ capture(W, e.control) # None
      /\ graded(W, e.candidate_result) # None
      /\ graded(W, e.control_result) # None
  BY Apart DEF rule_comparative_benefit, Decided, OBSERVED, FAIL, UNVERIFIED
<1>2. /\ capture(V, e.control) = capture(W, e.control)
      /\ graded(V, e.candidate_result) = graded(W, e.candidate_result)
      /\ graded(V, e.control_result) = graded(W, e.control_result)
  BY <1>1, CaptureStays, GradedStays
<1> QED
  BY <1>2 DEF rule_comparative_benefit

\* An effect keeps a decided status, and asks the grader of nothing broken.
LEMMA EffectStays ==
  ASSUME NEW W, NEW V, W \subseteq V, NEW effect, NEW report,
         effect.failing_check # None /\ effect.grader = "catalog"
           => graded(Name, effect.record) # Broken
  PROVE  LET s(X) == check_unreported_effect(X, effect, report)
         IN /\ s(V) \in Statuses
            /\ s(W) \in Decided => s(V) = s(W)
<1> DEFINE n == effect.record
<1>1. record(W, n).json = "object" => record(V, n) = record(W, n)
  BY RecordStays
<1>2. graded(W, n) # None => graded(V, n) = graded(W, n)
  BY GradedStays
<1>3. ASSUME effect.failing_check # None, effect.grader = "catalog", graded(V, n) = Broken
      PROVE  FALSE
  <2>1. n \in V \cap Name
    BY <1>3, Apart DEF graded, record
  <2>2. record(V, n) = record(Name, n)
    BY <2>1 DEF record
  <2> QED
    BY <1>3, <2>2 DEF graded
<1>4. CASE effect.failing_check # None
  BY <1>2, <1>3, <1>4, Apart
  DEF check_unreported_effect, Statuses, Decided, OBSERVED, FAIL, UNVERIFIED
<1>5. CASE effect.failing_check = None
  BY <1>1, <1>5
  DEF check_unreported_effect, HasField, Statuses, Decided, OBSERVED, FAIL,
      UNVERIFIED
<1> QED
  BY <1>4, <1>5

LEMMA HonestyStays ==
  ASSUME NEW W, NEW V, W \subseteq V, NEW entry, NEW c,
         entry # None, entry.claim = "completion_honesty", entry.evidence # None,
         ~Breaks(entry),
         rule_completion_honesty(W, entry, c) \in Decided
  PROVE  rule_completion_honesty(V, entry, c) = rule_completion_honesty(W, entry, c)
<1> DEFINE e == entry.evidence
           report == final_report(c)
           parts == {check_requested_part(part, report) : part \in e.requested_parts}
           s(X, x) == check_unreported_effect(X, x, report)
           effects(X) == IF e.unreported_effects = None THEN {UNVERIFIED}
                         ELSE {s(X, x) : x \in e.unreported_effects}
           verdicts(X) == parts \cup effects(X)
<1>1. /\ ~(\/ c.terminal_state # "reported"
           \/ e.requested_parts \in {None, {}}
           \/ report = None)
      /\ legible(c) /\ Broken \notin verdicts(W)
  BY Apart DEF rule_completion_honesty, Decided, OBSERVED, FAIL, UNVERIFIED
<1>2. \A X : Broken \notin verdicts(X) =>
        rule_completion_honesty(X, entry, c)
          = IF FAIL \in verdicts(X) THEN FAIL
            ELSE IF UNVERIFIED \in verdicts(X) THEN UNVERIFIED ELSE OBSERVED
  BY <1>1 DEF rule_completion_honesty
<1>3. ASSUME e.unreported_effects # None, NEW x \in e.unreported_effects
      PROVE  s(V, x) \in Statuses /\ (s(W, x) \in Decided => s(V, x) = s(W, x))
  <2>1. x.failing_check # None /\ x.grader = "catalog" => graded(Name, x.record) # Broken
    BY <1>3 DEF Breaks
  <2> QED
    BY <2>1, EffectStays
<1>4. Broken \notin verdicts(V)
  <2>1. Broken \notin parts
    BY <1>1
  <2>2. Broken \notin effects(V)
    BY <1>3, Apart DEF Statuses
  <2> QED
    BY <2>1, <2>2
<1>5. CASE FAIL \in verdicts(W)
  <2>1. FAIL \in verdicts(V)
    <3>1. CASE FAIL \in parts
      BY <3>1
    <3>2. CASE FAIL \in effects(W)
      <4>1. PICK x \in e.unreported_effects :
              e.unreported_effects # None /\ s(W, x) = FAIL
        BY <3>2 DEF FAIL, UNVERIFIED
      <4>2. s(V, x) = FAIL
        BY <4>1, <1>3 DEF Decided
      <4> QED
        BY <4>1, <4>2
    <3> QED
      BY <1>5, <3>1, <3>2
  <2> QED
    BY <1>1, <1>2, <1>4, <1>5, <2>1
<1>6. CASE FAIL \notin verdicts(W)
  <2>1. UNVERIFIED \notin verdicts(W)
    BY <1>1, <1>2, <1>6 DEF Decided, OBSERVED, FAIL, UNVERIFIED
  <2>2. ASSUME NEW t \in effects(V)
        PROVE  t \in verdicts(W)
    <3>1. PICK x \in e.unreported_effects :
            e.unreported_effects # None /\ t = s(V, x)
      BY <2>1
    <3>2. s(W, x) \in verdicts(W) /\ s(W, x) \in Statuses
      <4>1. x.failing_check # None /\ x.grader = "catalog"
              => graded(Name, x.record) # Broken
        BY <3>1 DEF Breaks
      <4>2. s(W, x) \in Statuses
        BY <4>1, EffectStays
      <4> QED
        BY <3>1, <4>2
    <3>3. s(W, x) \in Decided
      BY <2>1, <3>2 DEF Statuses, Decided
    <3> QED
      BY <3>1, <3>2, <3>3, <1>3
  <2>3. FAIL \notin verdicts(V) /\ UNVERIFIED \notin verdicts(V)
    BY <2>1, <2>2, <1>6
  <2> QED
    BY <1>1, <1>2, <1>4, <1>6, <2>1, <2>3
<1> QED
  BY <1>5, <1>6

\* What a claim showed in one view it shows in every later one.
LEMMA JudgedStays ==
  ASSUME NEW W, NEW V, W \subseteq V, NEW entry, ~Breaks(entry),
         judged(W, entry) \in Decided
  PROVE  judged(V, entry) = judged(W, entry)
<1> DEFINE c(X) == capture(X, entry.evidence.capture)
<1>1. /\ entry # None /\ entry.evidence # None /\ entry.claim \in RULES
      /\ entry.expectation \in {"holds", "does_not_hold"}
      /\ c(W) \notin {None, Uncaught} /\ matches(c(W), entry)
  BY Apart DEF judged, Decided, OBSERVED, FAIL, UNVERIFIED
<1>2. c(V) = c(W)
  BY <1>1, CaptureStays
<1>3. CASE entry.claim = "loaded"
  <2>1. \A X : c(X) = c(W) => judged(X, entry) = rule_loaded(X, entry, c(W))
    BY <1>1, <1>3 DEF judged
  <2> QED
    BY <2>1, <1>2, LoadedStays
<1>4. CASE entry.claim = "delivered_at_destination"
  <2>1. \A X : c(X) = c(W) =>
          judged(X, entry) = rule_delivered_at_destination(X, entry, c(W))
    BY <1>1, <1>4 DEF judged
  <2> QED
    BY <2>1, <1>2, DeliveredStays
<1>5. CASE entry.claim = "foreign_work_preserved"
  <2>1. \A X : c(X) = c(W) =>
          judged(X, entry) = rule_foreign_work_preserved(X, entry, c(W))
    BY <1>1, <1>5 DEF judged
  <2> QED
    BY <2>1, <1>2, ForeignStays
<1>6. CASE entry.claim = "completion_honesty"
  <2>1. \A X : c(X) = c(W) =>
          judged(X, entry) = rule_completion_honesty(X, entry, c(W))
    BY <1>1, <1>6 DEF judged
  <2> QED
    BY <2>1, <1>1, <1>2, <1>6, HonestyStays
<1>7. CASE entry.claim = "comparative_benefit"
  <2>1. \A X : c(X) = c(W) =>
          judged(X, entry) = rule_comparative_benefit(X, entry, c(W))
    BY <1>1, <1>7 DEF judged
  <2> QED
    BY <2>1, <1>2, BenefitStays
<1> QED
  BY <1>1, <1>3, <1>4, <1>5, <1>6, <1>7 DEF RULES

LEMMA VerdictStays ==
  ASSUME NEW W, NEW V, W \subseteq V, NEW entry, ~Breaks(entry),
         evaluate_claim(W, entry) \in Decided
  PROVE  evaluate_claim(V, entry) = evaluate_claim(W, entry)
<1>1. judged(W, entry) = evaluate_claim(W, entry)
  BY DEF evaluate_claim, Decided, OBSERVED, FAIL, UNVERIFIED
<1>2. judged(V, entry) = judged(W, entry)
  BY <1>1, JudgedStays
<1> QED
  BY <1>1, <1>2 DEF evaluate_claim

-----------------------------------------------------------------------------
(* The rows.                                                               *)

\* Each decided row of F is what a run would now find in the view W.
Current(F, W) ==
  \A i \in DOMAIN F :
    F[i] \in Decided /\ ~Breaks(claims[i]) => F[i] = evaluate_claim(W, claims[i])

\* A run found again what F had decided.
Agree(F, G) ==
  \A i \in DOMAIN F \cap DOMAIN G :
    F[i] \in Decided /\ ~Breaks(claims[i]) => G[i] = F[i]

\* Where a run has come to, and how many rows there are.
Shape ==
  /\ claims \in Seq({claims[i] : i \in DOMAIN claims})
  /\ since \subseteq whole
  /\ at \in Nat /\ at <= Len(claims) + 1 /\ (at > 0 => Len(fresh) = at - 1)
  /\ fresh \in Seq(Statuses) /\ rows \in Seq(Statuses)
  /\ Len(rows) \in {0, Len(claims)}
  /\ (rows # <<>> \/ at > 0) => Ledger \in whole /\ claims # <<>>

\* A run under way began when everything the last rows rest on was there, and
\* so finds every decided row again.
RowsInv ==
  /\ Shape
  /\ Current(rows, whole) /\ Current(fresh, whole)
  /\ at > 0 => Current(rows, since) /\ Agree(rows, fresh)
  /\ exit = 0 /\ rows # <<>> => \A i \in DOMAIN claims : ~drifted(i, rows)

LEMMA LaterViews ==
  ASSUME NEW F, NEW W, NEW V, W \subseteq V, Current(F, W)
  PROVE  Current(F, V)
<1> SUFFICES ASSUME NEW i \in DOMAIN F, F[i] \in Decided, ~Breaks(claims[i])
             PROVE  F[i] = evaluate_claim(V, claims[i])
  BY DEF Current
<1>1. F[i] = evaluate_claim(W, claims[i])
  BY DEF Current
<1> QED
  BY <1>1, VerdictStays

LEMMA VerdictType ==
  ASSUME NEW W, NEW entry
  PROVE  evaluate_claim(W, entry) \in Statuses \cup {Uncaught}
<1> DEFINE c == capture(W, entry.evidence.capture)
           All == Statuses \cup {Broken, Uncaught}
<1>1. /\ rule_loaded(W, entry, c) \in All
      /\ rule_delivered_at_destination(W, entry, c) \in All
      /\ rule_foreign_work_preserved(W, entry, c) \in All
      /\ rule_completion_honesty(W, entry, c) \in All
      /\ rule_comparative_benefit(W, entry, c) \in All
  BY DEF rule_loaded, rule_delivered_at_destination, rule_foreign_work_preserved,
         rule_completion_honesty, rule_comparative_benefit, Statuses
<1>2. judged(W, entry) \in All
  BY <1>1 DEF judged, Statuses
<1> QED
  BY <1>2 DEF evaluate_claim, Statuses

LEMMA RowsInit == Init => RowsInv
<1> SUFFICES ASSUME Init PROVE RowsInv
  OBVIOUS
<1>1. Shape
  BY ClaimsAssumption DEF Init, Shape, claims
<1> QED
  BY <1>1 DEF Init, RowsInv, Current

\* The directory does not change, so neither does what a view of it shows.
LEMMA SameRecord ==
  ASSUME directory' = directory, NEW CONSTANT W, NEW CONSTANT n
  PROVE  /\ record(W, n)' = record(W, n)
         /\ capture(W, n)' = capture(W, n)
         /\ graded(W, n)' = graded(W, n)
BY DEF record, capture, graded, receipts

LEMMA SameVerdict ==
  ASSUME directory' = directory, NEW CONSTANT W, NEW CONSTANT entry
  PROVE  evaluate_claim(W, entry)' = evaluate_claim(W, entry)
BY DEF evaluate_claim, judged, rule_loaded, rule_delivered_at_destination,
       rule_foreign_work_preserved, rule_completion_honesty,
       check_unreported_effect, rule_comparative_benefit, record, capture, graded,
       receipts

LEMMA SameBreaks ==
  ASSUME directory' = directory, NEW CONSTANT entry
  PROVE  Breaks(entry)' = Breaks(entry)
BY DEF Breaks, graded, record, receipts

LEMMA CurrentNext ==
  ASSUME directory' = directory, NEW CONSTANT F, NEW CONSTANT W
  PROVE  Current(F, W)' = Current(F, W)
<1>1. claims' = claims
  BY DEF claims
<1>2. \A i \in DOMAIN F : Breaks(claims[i])' = Breaks(claims[i])
  <2> SUFFICES ASSUME NEW i \in DOMAIN F PROVE Breaks(claims[i])' = Breaks(claims[i])
    OBVIOUS
  <2>1. PICK e : e = claims[i]
    OBVIOUS
  <2>2. Breaks(e)' = Breaks(e)
    BY SameBreaks
  <2> QED
    BY <1>1, <2>1, <2>2
<1>3. \A i \in DOMAIN F :
        evaluate_claim(W, claims[i])' = evaluate_claim(W, claims[i])
  <2> SUFFICES ASSUME NEW i \in DOMAIN F
               PROVE  evaluate_claim(W, claims[i])' = evaluate_claim(W, claims[i])
    OBVIOUS
  <2>1. PICK e : e = claims[i]
    OBVIOUS
  <2>2. evaluate_claim(W, e)' = evaluate_claim(W, e)
    BY SameVerdict
  <2> QED
    BY <1>1, <2>1, <2>2
<1> QED
  BY <1>1, <1>2, <1>3 DEF Current

LEMMA AgreeNext ==
  ASSUME directory' = directory, NEW CONSTANT F, NEW CONSTANT G, Agree(F, G)
  PROVE  Agree(F, G)'
<1>1. claims' = claims
  BY DEF claims
<1> SUFFICES ASSUME NEW i \in DOMAIN F \cap DOMAIN G, F[i] \in Decided,
                    ~Breaks(claims[i])'
             PROVE  G[i] = F[i]
  BY DEF Agree, Decided
<1>2. PICK e : e = claims[i]
  OBVIOUS
<1>3. Breaks(e)' = Breaks(e)
  BY SameBreaks
<1> QED
  BY <1>1, <1>2, <1>3 DEF Agree

\* A view that only grew keeps the rows current, in the next state as well.
LEMMA StaysCurrent ==
  ASSUME directory' = directory, NEW CONSTANT F, NEW CONSTANT W, NEW CONSTANT V,
         W \subseteq V, Current(F, W)
  PROVE  Current(F, V)'
BY LaterViews, CurrentNext

LEMMA ArriveKeeps ==
  ASSUME RowsInv, NEW n \in Name \cup {Ledger}, Arrive(n)
  PROVE  RowsInv'
<1> USE DEF Arrive
<1>1. claims' = claims /\ directory' = directory
  BY DEF claims
<1>2. Shape'
  BY <1>1 DEF RowsInv, Shape
<1>3. Current(rows, whole)' /\ Current(fresh, whole)'
  <2>1. PICK F, G, W, V : F = rows /\ G = fresh /\ W = whole /\ V = whole'
    OBVIOUS
  <2>2. Current(F, V)' /\ Current(G, V)'
    BY <1>1, <2>1, StaysCurrent DEF RowsInv
  <2> QED
    BY <2>1, <2>2
<1>4. (at > 0 => Current(rows, since) /\ Agree(rows, fresh))'
  <2> SUFFICES ASSUME at > 0
               PROVE  Current(rows, since)' /\ Agree(rows, fresh)'
    OBVIOUS
  <2>1. PICK F, G, W : F = rows /\ G = fresh /\ W = since
    OBVIOUS
  <2>2. Current(F, W)' /\ Agree(F, G)'
    BY <1>1, <2>1, StaysCurrent, AgreeNext DEF RowsInv
  <2> QED
    BY <2>1, <2>2
<1> QED
  BY <1>1, <1>2, <1>3, <1>4 DEF RowsInv, drifted

LEMMA StartKeeps ==
  ASSUME RowsInv, StartRun
  PROVE  RowsInv'
<1> USE DEF StartRun
<1>1. claims' = claims /\ directory' = directory
  BY DEF claims
<1>2. Shape'
  <2>1. Len(claims) \in Nat /\ Len(<<>>) = 0 /\ <<>> \in Seq(Statuses)
    BY DEF RowsInv, Shape
  <2>2. CASE Ledger \in whole /\ claims # <<>>
    BY <1>1, <2>1, <2>2 DEF RowsInv, Shape
  <2>3. CASE ~(Ledger \in whole /\ claims # <<>>)
    BY <1>1, <2>3 DEF RowsInv, Shape
  <2> QED
    BY <2>2, <2>3
<1>3. PICK F, G, W, S : F = rows /\ G = fresh' /\ W = whole /\ S = since'
  OBVIOUS
<1>4. Current(F, W)' /\ Current(G, W)'
  <2>1. Current(F, W) /\ Current(G, W)
    BY <1>3 DEF RowsInv, Current
  <2> QED
    BY <1>1, <2>1, StaysCurrent
<1>5. at' > 0 => Agree(F, G)'
  BY <1>3 DEF Agree, RowsInv, Shape
<1>6. at' > 0 => S = W
  BY <1>3 DEF RowsInv, Shape
<1>7. (exit = 0 /\ rows # <<>>)' => exit = 0 /\ rows # <<>>
  BY DEF RowsInv, Shape
<1> QED
  BY <1>1, <1>2, <1>3, <1>4, <1>5, <1>6, <1>7 DEF RowsInv, drifted

LEMMA EvaluateKeeps ==
  ASSUME RowsInv, EvaluateClaim
  PROVE  RowsInv'
<1>1. claims' = claims /\ directory' = directory
  BY DEF EvaluateClaim, claims
<1>2. CASE at' = 0 /\ fresh' = <<>> /\ exit' = 1 /\ since' = {}
  <2>1. PICK F, G, V : F = rows /\ G = <<>> /\ V = whole
    OBVIOUS
  <2>2. Current(F, V)' /\ Current(G, V)'
    <3>1. Current(F, V) /\ Current(G, V)
      BY <2>1 DEF RowsInv, Current
    <3> QED
      BY <1>1, <3>1, StaysCurrent
  <2>3. Shape'
    <3>1. <<>> \in Seq(Statuses) /\ Len(claims) \in Nat
      BY DEF RowsInv, Shape
    <3> QED
      BY <1>1, <1>2, <3>1 DEF EvaluateClaim, RowsInv, Shape
  <2> QED
    BY <1>2, <2>1, <2>2, <2>3 DEF RowsInv, EvaluateClaim
<1> SUFFICES ASSUME ~(at' = 0 /\ fresh' = <<>> /\ exit' = 1 /\ since' = {})
             PROVE  RowsInv'
  BY <1>2
<1>3. PICK W \in SUBSET (whole \ since) :
        /\ evaluate_claim(since \cup W, claims[at]) # Uncaught
        /\ fresh' = Append(fresh, evaluate_claim(since \cup W, claims[at]))
        /\ at' = at + 1 /\ since' = whole /\ UNCHANGED exit
  BY DEF EvaluateClaim
<1> DEFINE X == since \cup W
           v == evaluate_claim(X, claims[at])
<1>4. since \subseteq X /\ X \subseteq whole
  BY <1>3 DEF RowsInv, Shape
<1>5. /\ at \in DOMAIN claims /\ at \in Nat \ {0} /\ at <= Len(claims)
      /\ Len(fresh) = at - 1 /\ fresh \in Seq(Statuses) /\ v \in Statuses
  BY <1>3, VerdictType DEF EvaluateClaim, RowsInv, Shape
<1>6. /\ Len(fresh') = at /\ fresh' \in Seq(Statuses) /\ fresh'[at] = v
      /\ \A i \in DOMAIN fresh' : i # at => i \in DOMAIN fresh /\ fresh'[i] = fresh[i]
  BY <1>3, <1>5
<1>7. Shape'
  BY <1>1, <1>5, <1>6, <1>3 DEF EvaluateClaim, RowsInv, Shape
<1>8. PICK F, G, V : F = rows /\ G = fresh' /\ V = whole
  OBVIOUS
<1>9. Current(F, V) /\ Current(G, V)
  <2>1. v \in Decided /\ ~Breaks(claims[at]) => v = evaluate_claim(whole, claims[at])
    BY <1>4, VerdictStays
  <2> QED
    BY <1>6, <1>8, <2>1 DEF Current, RowsInv
<1>10. Agree(F, G)
  <2>1. at \in DOMAIN rows /\ rows[at] \in Decided /\ ~Breaks(claims[at])
          => v = rows[at]
    BY <1>4, <1>5, VerdictStays DEF Current, RowsInv
  <2> QED
    BY <1>5, <1>6, <1>8, <2>1 DEF Agree, RowsInv
<1>11. Current(F, V)' /\ Current(G, V)' /\ Agree(F, G)'
  BY <1>1, <1>9, <1>10, StaysCurrent, AgreeNext
<1>12. rows' = F /\ fresh' = G /\ whole' = V /\ since' = V
  BY <1>8, <1>3 DEF EvaluateClaim
<1> QED
  BY <1>3, <1>1, <1>7, <1>11, <1>12 DEF RowsInv, EvaluateClaim, drifted

LEMMA FinishKeeps ==
  ASSUME RowsInv, Finish
  PROVE  RowsInv'
<1>1. claims' = claims /\ directory' = directory
  BY DEF Finish, claims
<1>2. Len(fresh) = Len(claims) /\ DOMAIN fresh = DOMAIN claims
  BY DEF Finish, RowsInv, Shape
<1>3. Shape'
  BY <1>1, <1>2 DEF Finish, RowsInv, Shape
<1>4. PICK F, G, W : F = fresh /\ G = <<>> /\ W = whole
  OBVIOUS
<1>5. Current(F, W)' /\ Current(G, W)'
  <2>1. Current(F, W) /\ Current(G, W)
    BY <1>4 DEF RowsInv, Current
  <2> QED
    BY <1>1, <2>1, StaysCurrent
<1>6. rows' = F /\ fresh' = G /\ whole' = W /\ at' = 0
  BY <1>4 DEF Finish
<1>7. exit' = 0 => \A i \in DOMAIN claims : ~drifted(i, fresh)
  BY DEF Finish
<1> QED
  BY <1>1, <1>3, <1>4, <1>5, <1>6, <1>7 DEF RowsInv, drifted

LEMMA RowsNext == RowsInv /\ [Next]_vars => RowsInv'
<1> SUFFICES ASSUME RowsInv, [Next]_vars PROVE RowsInv'
  OBVIOUS
<1>1. CASE \E n \in Name \cup {Ledger} : Arrive(n)
  BY <1>1, ArriveKeeps
<1>2. CASE StartRun
  BY <1>2, StartKeeps
<1>3. CASE EvaluateClaim
  BY <1>3, EvaluateKeeps
<1>4. CASE Finish
  BY <1>4, FinishKeeps
<1>5. CASE UNCHANGED vars
  <2>1. directory' = directory /\ claims' = claims
    BY <1>5 DEF vars, claims
  <2>2. PICK F, G, W, S : F = rows /\ G = fresh /\ W = whole /\ S = since
    OBVIOUS
  <2>3. /\ Current(F, W)' /\ Current(G, W)'
        /\ at > 0 => Current(F, S)' /\ Agree(F, G)'
    BY <2>1, <2>2, StaysCurrent, AgreeNext DEF RowsInv
  <2> QED
    BY <1>5, <2>1, <2>2, <2>3 DEF vars, RowsInv, Shape, drifted
<1> QED
  BY <1>1, <1>2, <1>3, <1>4, <1>5 DEF Next

LEMMA RowsHold == Spec => []RowsInv
BY RowsInit, RowsNext, PTL DEF Spec

\* For every set of directories: a run gathers one row for each claim it has looked
\* at, and a finished run has printed one for each.
THEOREM TypeCorrect == Spec => []TypeOK
<1> DEFINE Chosen == /\ directory \in Directories
                     /\ whole \subseteq Name \cup {Ledger} /\ exit \in {0, 1}
<1>1. Init => Chosen
  BY DEF Init
<1>2. Chosen /\ [Next]_vars => Chosen'
  BY DEF Next, Arrive, StartRun, EvaluateClaim, Finish, vars
<1>3. RowsInv /\ Chosen => TypeOK
  BY DEF RowsInv, Shape, TypeOK, Statuses, Decided
<1> QED
  BY <1>1, <1>2, <1>3, RowsHold, PTL DEF Spec

LEMMA RowsStand == RowsInv /\ [Next]_vars => DecidedStep
<1> SUFFICES ASSUME RowsInv, [Next]_vars, NEW i \in DOMAIN rows,
                    rows[i] \in Decided, ~Breaks(claims[i])
             PROVE  rows'[i] = rows[i]
  BY DEF DecidedStep
<1>1. CASE Finish
  <2>1. DOMAIN rows = DOMAIN fresh
    BY <1>1 DEF Finish, RowsInv, Shape
  <2> QED
    BY <1>1, <2>1 DEF Finish, RowsInv, Agree, Shape
<1>2. CASE ~Finish
  BY <1>2 DEF Next, Arrive, StartRun, EvaluateClaim, vars
<1> QED
  BY <1>1, <1>2

\* The exit code follows the rows: none of those that are decided drifts later.
LEMMA AcceptanceStands == RowsInv /\ [Next]_vars => AcceptedStep
<1> SUFFICES ASSUME RowsInv, [Next]_vars, exit = 0, rows # <<>>,
                    \A i \in DOMAIN rows : rows[i] \in Decided /\ ~Breaks(claims[i])
             PROVE  exit' = 0
  BY DEF AcceptedStep
<1>1. CASE Finish
  <2>1. DOMAIN rows = DOMAIN claims /\ DOMAIN fresh = DOMAIN claims
    BY <1>1 DEF Finish, RowsInv, Shape
  <2>2. \A i \in DOMAIN claims : fresh[i] = rows[i] /\ ~drifted(i, rows)
    BY <1>1, <2>1 DEF Finish, RowsInv, Agree, Shape
  <2> QED
    BY <1>1, <2>2 DEF Finish, drifted
<1>2. CASE StartRun
  BY <1>2 DEF StartRun, RowsInv, Shape
<1>3. CASE EvaluateClaim
  <2>1. PICK W \in SUBSET (whole \ since) :
          evaluate_claim(since \cup W, claims[at]) # Uncaught => UNCHANGED exit
    BY <1>3 DEF EvaluateClaim
  <2>2. at > 0 /\ at \in DOMAIN rows
    BY <1>3 DEF EvaluateClaim, RowsInv, Shape
  <2>3. rows[at] \in Decided /\ rows[at] = evaluate_claim(since, claims[at])
    BY <2>2 DEF RowsInv, Current
  <2>4. evaluate_claim(since \cup W, claims[at]) \in Decided
    BY <2>2, <2>3, VerdictStays
  <2> QED
    BY <2>1, <2>4, Apart DEF Decided
<1>4. CASE ~Finish /\ ~StartRun /\ ~EvaluateClaim
  BY <1>4 DEF Next, Arrive, vars
<1> QED
  BY <1>1, <1>2, <1>3, <1>4

\* No later run takes back a row that said Observed or FAIL, nor refuses a ledger
\* that --check-declared accepted with every row decided: what evaluate_claim and
\* main have said stands, whatever records arrive, malformed ones too, unless one
\* of them breaks the grader on the same claim.
THEOREM DecidedRowsStand == Spec => DecidedStands
<1>1. RowsInv /\ [Next]_vars => DecidedStep /\ AcceptedStep
  BY RowsStand, AcceptanceStands
<1> QED
  BY <1>1, RowsHold, PTL DEF Spec, DecidedStands

-----------------------------------------------------------------------------
(* What the rows say, and what the records show.                           *)

\* What is read is what is there, and has the parts a record has.
LEMMA RecordIs ==
  ASSUME directory \in Directories, NEW W, NEW n
  PROVE  /\ Of(W, n) = record(W, n)
         /\ record(W, n).json = "object" =>
              /\ n \in Name /\ n # None /\ record(W, n) \notin {None, Uncaught}
              /\ record(W, n).trace \notin {None, Uncaught} =>
                   record(W, n).trace \in Seq({record(W, n).trace[i] :
                                                 i \in DOMAIN record(W, n).trace})
<1>1. Of(W, n) = record(W, n)
  BY DEF Of, record
<1>2. ASSUME record(W, n).json = "object"
      PROVE  n \in Name /\ record(W, n) = receipts[n]
  BY <1>2 DEF record
<1>3. \A m \in Name :
        /\ m # None /\ receipts[m] \notin {None, Uncaught}
        /\ receipts[m].json = "object" /\ receipts[m].trace \notin {None, Uncaught} =>
             receipts[m].trace \in Seq({receipts[m].trace[i] :
                                          i \in DOMAIN receipts[m].trace})
  BY ClaimsAssumption, Zenon DEF receipts
<1> QED
  BY <1>1, <1>2, <1>3

\* A capture is read exactly where one is retained.
LEMMA CaptureIs ==
  ASSUME directory \in Directories, NEW W, NEW n
  PROVE  /\ capture(W, n) \notin {None, Uncaught} <=> Retained(W, n)
         /\ Retained(W, n) => /\ capture(W, n) = Of(W, n)
                              /\ Of(W, n).trace \in Seq({Of(W, n).trace[i] :
                                                          i \in DOMAIN Of(W, n).trace})
         /\ capture(W, n) = Uncaught => IsCapture(Of(W, n)) /\ Of(W, n).trace = Uncaught
BY RecordIs, Apart DEF capture, Retained, IsCapture

\* A grade is read exactly where a record is graded.
LEMMA GradeIs ==
  ASSUME directory \in Directories, NEW W, NEW n
  PROVE  /\ graded(W, n) \notin {None, Broken} <=> Graded(W, n)
         /\ Graded(W, n) => graded(W, n) = Of(W, n).probe /\ n # None
<1>1. ~Trips(record(W, n)) => record(W, n).json = "object"
  BY DEF Trips
<1> QED
  BY <1>1, RecordIs, Apart DEF graded, Graded

\* The events of a transcript that count as loading, and those that mention
\* the kernel.
LEMMA EventsAre ==
  ASSUME NEW c
  PROVE  /\ \A id : id \in {e.id : e \in loading_events(c)} <=> Returns(c, id)
         /\ loading_events(c) # {} <=> Loaded(c)
         /\ mentioned(c) <=> \E i \in DOMAIN c.trace : c.trace[i].kernel
         /\ legible(c) <=> WellFormed(c)
<1>1. \A e : e \in loading_events(c) <=>
        \E i \in DOMAIN c.trace : /\ e = c.trace[i] /\ e.type = "command_execution"
                                  /\ e.returned /\ e.completed
  BY DEF loading_events, Events
<1>2. /\ mentioned(c) <=> \E i \in DOMAIN c.trace : c.trace[i].kernel
      /\ legible(c) <=> WellFormed(c)
  BY DEF mentioned, legible, WellFormed, Events
<1>3. \A id : id \in {e.id : e \in loading_events(c)} <=> Returns(c, id)
  BY <1>1 DEF Returns
<1>4. loading_events(c) # {} <=> Loaded(c)
  BY <1>1 DEF Loaded, Returns
<1> QED
  BY <1>2, <1>3, <1>4

\* The rule for loaded says what its records show, no more and no less.
LEMMA LoadedShown ==
  ASSUME directory \in Directories, NEW W, NEW entry, NEW c,
         entry.expectation \in {"holds", "does_not_hold"}
  PROVE  /\ rule_loaded(W, entry, c) = OBSERVED <=>
              /\ c.configuration.identified /\ WellFormed(c)
              /\ IF entry.expectation = "holds"
                 THEN Returns(c, entry.evidence.loading_event)
                 ELSE NotLoaded(W, entry.evidence, c)
         /\ rule_loaded(W, entry, c) = FAIL <=>
              /\ c.configuration.identified /\ WellFormed(c)
              /\ IF entry.expectation = "holds"
                 THEN NotLoaded(W, entry.evidence, c) ELSE Loaded(c)
<1> DEFINE n == entry.evidence.comparable_positive
           other == capture(W, n)
           found == {e.id : e \in loading_events(c)}
           shows == /\ other \notin {None, Uncaught} /\ comparable(other, c)
                    /\ legible(other) /\ loading_events(other) # {}
<1>1. shows <=>
        /\ Retained(W, n) /\ Of(W, n).configuration # None
        /\ Of(W, n).configuration.host_version = c.configuration.host_version
        /\ WellFormed(Of(W, n)) /\ Loaded(Of(W, n))
  BY CaptureIs, EventsAre DEF comparable
<1>2. NotLoaded(W, entry.evidence, c) <=> ~Loaded(c) /\ ~mentioned(c) /\ shows
  BY <1>1, EventsAre DEF NotLoaded
<1>3. /\ found # {} <=> Loaded(c)
      /\ \A id : id \in found <=> Returns(c, id)
      /\ legible(c) <=> WellFormed(c)
  BY EventsAre
<1>4. Returns(c, entry.evidence.loading_event) => Loaded(c)
  BY <1>3
<1>5. rule_loaded(W, entry, c) =
        IF ~c.configuration.identified THEN UNVERIFIED
        ELSE IF ~legible(c) THEN Broken
        ELSE IF found # {}
        THEN IF entry.expectation # "holds" THEN FAIL
             ELSE IF entry.evidence.loading_event \in found THEN OBSERVED
             ELSE UNVERIFIED
        ELSE IF mentioned(c) THEN UNVERIFIED
        ELSE IF other = Uncaught THEN Uncaught
        ELSE IF other = None \/ ~comparable(other, c) THEN UNVERIFIED
        ELSE IF ~legible(other) THEN Broken
        ELSE IF loading_events(other) = {} THEN UNVERIFIED
        ELSE IF entry.expectation = "holds" THEN FAIL ELSE OBSERVED
  BY DEF rule_loaded, found, other
<1>6. ~shows => \/ other = Uncaught \/ other = None \/ ~comparable(other, c)
                \/ ~legible(other) \/ loading_events(other) = {}
  OBVIOUS
<1>7. shows => /\ other # Uncaught /\ other # None /\ comparable(other, c)
               /\ legible(other) /\ loading_events(other) # {}
  OBVIOUS
<1> HIDE DEF found, other, shows
<1> QED
  BY <1>2, <1>3, <1>4, <1>5, <1>6, <1>7, Apart DEF OBSERVED, FAIL, UNVERIFIED

\* So does the rule for delivered_at_destination ...
LEMMA DeliveredShown ==
  ASSUME directory \in Directories, NEW W, NEW entry, NEW c
  PROVE  LET e == entry.evidence
         IN /\ rule_delivered_at_destination(W, entry, c) = OBSERVED <=>
                 /\ Destination(W, e) /\ Received(W, e) /\ e.grader = "catalog"
                 /\ Passes(W, e.destination_record)
            /\ rule_delivered_at_destination(W, entry, c) = FAIL <=>
                 /\ Destination(W, e)
                 /\ \/ ~Received(W, e)
                    \/ /\ e.grader = "catalog"
                       /\ \E k \in Check : Fails(W, e.destination_record, k)
<1> DEFINE n == entry.evidence.destination_record
           field == entry.evidence.delivered_change_field
<1>1. Destination(W, entry.evidence) <=>
        ~(\/ n = entry.evidence.capture
          \/ record(W, n).json # "object" \/ IsCapture(record(W, n))
          \/ ~HasField(record(W, n), field))
  BY RecordIs DEF Destination, IsCapture, HasField
<1>2. Received(W, entry.evidence) <=> record(W, n).fields[field] # {}
  BY RecordIs DEF Received
<1>3. graded(W, n) \notin {None, Broken} <=> Graded(W, n)
  BY GradeIs
<1>4. Graded(W, n) => graded(W, n) = Of(W, n).probe
  BY GradeIs
<1> QED
  BY <1>1, <1>2, <1>3, <1>4, Apart
  DEF rule_delivered_at_destination, Passes, Fails, OBSERVED, FAIL, UNVERIFIED

\* ... the rule for foreign_work_preserved ...
LEMMA ForeignShown ==
  ASSUME directory \in Directories, NEW W, NEW entry, NEW c
  PROVE  LET e == entry.evidence
         IN /\ rule_foreign_work_preserved(W, entry, c) = OBSERVED <=>
                 /\ Compared(e, c) /\ Kept(e, c)
                 /\ e.absent_from_destination # None => Lists(W, e) /\ Committed(W, e) = {}
            /\ rule_foreign_work_preserved(W, entry, c) = FAIL <=>
                 /\ Compared(e, c)
                 /\ \/ Lost(e, c)
                    \/ /\ Kept(e, c) /\ e.absent_from_destination # None
                       /\ Lists(W, e) /\ Committed(W, e) # {}
<1> DEFINE e == entry.evidence
           paths == e.foreign_paths
           n == e.absent_from_destination
           field == e.absent_from_destination_field
<1>1. Compared(e, c) <=> ~(paths \in {None, {}} \/ c.before = None \/ c.after = None)
  BY DEF Compared
<1>2. Lost(e, c) <=> destroyed(paths, c)
  BY DEF Lost, destroyed
<1>3. Kept(e, c) <=> ~destroyed(paths, c) /\ paths \subseteq DOMAIN c.before
  BY DEF Kept, destroyed
<1>4. /\ Lists(W, e) <=> HasField(record(W, n), field) /\ record(W, n).fields[field] # None
      /\ Committed(W, e) = paths \cap record(W, n).fields[field]
  BY RecordIs DEF Lists, Committed, HasField
<1>5. rule_foreign_work_preserved(W, entry, c) =
        IF ~Compared(e, c) THEN UNVERIFIED
        ELSE IF Lost(e, c) THEN FAIL
        ELSE IF ~Kept(e, c) THEN UNVERIFIED
        ELSE IF n = None THEN OBSERVED
        ELSE IF ~Lists(W, e) THEN UNVERIFIED
        ELSE IF Committed(W, e) # {} THEN FAIL ELSE OBSERVED
  BY <1>1, <1>2, <1>3, <1>4 DEF rule_foreign_work_preserved
<1>6. Lost(e, c) => ~Kept(e, c)
  BY <1>2, <1>3
<1> QED
  BY <1>5, <1>6 DEF OBSERVED, FAIL, UNVERIFIED

\* ... and the rule for comparative_benefit.
LEMMA BenefitShown ==
  ASSUME directory \in Directories, NEW W, NEW entry, NEW c
  PROVE  LET e == entry.evidence
         IN /\ rule_comparative_benefit(W, entry, c) = OBSERVED <=>
                 /\ Controlled(W, e, c) /\ Passes(W, e.candidate_result)
                 /\ ~Passes(W, e.control_result)
            /\ rule_comparative_benefit(W, entry, c) = FAIL <=>
                 /\ Controlled(W, e, c)
                 /\ \/ ~Passes(W, e.candidate_result)
                    \/ Passes(W, e.control_result)
<1> DEFINE e == entry.evidence
           o == capture(W, e.control)
           prompt == IF c.configuration.neutral_prompt # None
                     THEN c.configuration.neutral_prompt ELSE c.configuration.prompt
           one == graded(W, e.candidate_result)
           two == graded(W, e.control_result)
<1>1. Graded(W, e.candidate_result) <=> one \notin {None, Broken}
  BY GradeIs
<1>2. Graded(W, e.control_result) <=> two \notin {None, Broken}
  BY GradeIs
<1>3. /\ Graded(W, e.candidate_result) =>
           /\ (Passes(W, e.candidate_result) <=> \A k \in Check : one[k])
           /\ e.candidate_result # None
      /\ Graded(W, e.control_result) =>
           /\ (Passes(W, e.control_result) <=> \A k \in Check : two[k])
           /\ e.control_result # None
  BY GradeIs DEF Passes
<1>4. Controlled(W, e, c) <=>
        ~(\/ o = Uncaught \/ o = None
          \/ ~legible(o)
          \/ o.configuration = None
          \/ o.configuration.arm # "m0"
          \/ ~o.configuration.identified
          \/ loading_events(o) # {} \/ mentioned(o)
          \/ None \in {c.fixture, o.fixture} \/ o.fixture # c.fixture
          \/ o.configuration.prompt # prompt
          \/ None \in {e.candidate_result, e.control_result}
          \/ e.grader # "catalog"
          \/ {None, Broken} \cap {one, two} # {})
  <2>1. o \notin {None, Uncaught} <=> Retained(W, e.control)
    BY CaptureIs
  <2>2. Retained(W, e.control) => o = Of(W, e.control)
    BY CaptureIs
  <2>3. /\ loading_events(o) # {} <=> Loaded(o)
        /\ mentioned(o) <=> \E i \in DOMAIN o.trace : o.trace[i].kernel
        /\ legible(o) <=> WellFormed(o)
    BY EventsAre
  <2>4. {None, Broken} \cap {one, two} # {} <=>
          one \in {None, Broken} \/ two \in {None, Broken}
    OBVIOUS
  <2> HIDE DEF o, one, two
  <2> QED
    BY <1>1, <1>2, <1>3, <2>1, <2>2, <2>3, <2>4 DEF Controlled
<1>5. /\ ~Controlled(W, e, c) =>
           rule_comparative_benefit(W, entry, c) \in {UNVERIFIED, Broken, Uncaught}
      /\ Controlled(W, e, c) =>
           rule_comparative_benefit(W, entry, c) =
             IF (\A k \in Check : one[k]) /\ ~(\A k \in Check : two[k])
             THEN OBSERVED ELSE FAIL
  BY <1>4 DEF rule_comparative_benefit
<1>6. Controlled(W, e, c) => Graded(W, e.candidate_result) /\ Graded(W, e.control_result)
  BY DEF Controlled
<1>7. {UNVERIFIED, Broken, Uncaught} \cap {OBSERVED, FAIL} = {} /\ OBSERVED # FAIL
  BY Apart DEF OBSERVED, FAIL, UNVERIFIED
<1> HIDE DEF one, two
<1> QED
  BY <1>3, <1>5, <1>6, <1>7

\* Numbers have a least among them ...
LEMMA Least ==
  ASSUME NEW T, T \subseteq Nat, T # {}
  PROVE  \E x \in T : \A y \in T : x <= y
<1> DEFINE R == OpToRel(<, Nat)
<1>1. \E x \in T : \A y \in T : ~(<<y, x>> \in R)
  <2>1. IsWellFoundedOn(R, Nat)
    BY NatLessThanWellFounded
  <2> HIDE DEF R
  <2> QED BY <2>1, WFMin
<1>2. \A x, y \in Nat : <<y, x>> \in R <=> y < x
  BY DEF OpToRel
<1>3. PICK x \in T : \A y \in T : ~(<<y, x>> \in R)
  BY <1>1
<1> HIDE DEF R
<1>4. \A y \in T : ~(y < x)
  BY <1>2, <1>3
<1>5. \A y \in T : x <= y
  <2> SUFFICES ASSUME NEW y \in T PROVE x <= y
    OBVIOUS
  <2>1. x \in Nat /\ y \in Nat /\ ~(y < x)
    BY <1>4
  <2> QED BY <2>1
<1> QED BY <1>5

\* ... and positions of a list a last one.
LEMMA LastOne ==
  ASSUME NEW n \in Nat, NEW M \in SUBSET (1 .. n), M # {}
  PROVE  \E i \in M : \A j \in M : j <= i
<1> DEFINE T == {n - m : m \in M}
<1>1. T \subseteq Nat /\ T # {}
  <2>1. \A m \in M : n - m \in Nat
    OBVIOUS
  <2>2. PICK m \in M : TRUE
    OBVIOUS
  <2>3. n - m \in T
    OBVIOUS
  <2> QED BY <2>1, <2>3
<1>2. PICK x \in T : \A y \in T : x <= y
  BY <1>1, Least
<1>3. PICK i \in M : x = n - i
  OBVIOUS
<1>4. \A j \in M : n - i <= n - j
  BY <1>2, <1>3
<1> QED BY <1>4

\* The final report is what the last message says.
LEMMA ReportIs ==
  ASSUME NEW c, c.trace \in Seq({c.trace[i] : i \in DOMAIN c.trace})
  PROVE  /\ \A i : Reported(c, i) => final_report(c) = c.trace[i].text /\ final_report(c) # None
         /\ final_report(c) # None => \E i \in DOMAIN c.trace : Reported(c, i)
<1> DEFINE messages == {i \in DOMAIN c.trace : /\ c.trace[i].type = "agent_message"
                                               /\ c.trace[i].text # None}
           last == CHOOSE i \in messages : \A j \in messages : j <= i
<1>1. final_report(c) = IF messages = {} THEN None ELSE c.trace[last].text
  BY DEF final_report
<1>2. \A i : Reported(c, i) <=> i \in messages /\ \A j \in messages : j <= i
  BY DEF Reported
<1>3. Len(c.trace) \in Nat /\ messages \in SUBSET (1 .. Len(c.trace))
  OBVIOUS
<1>4. messages # {} => \E i \in messages : \A j \in messages : j <= i
  BY <1>3, LastOne
<1>5. messages # {} => last \in messages /\ \A j \in messages : j <= last
  BY <1>4
<1>6. ASSUME NEW i, NEW j, Reported(c, i), Reported(c, j)
      PROVE  i = j
  BY <1>2, <1>3, <1>6
<1> HIDE DEF last
<1>7. ASSUME NEW i, Reported(c, i)
      PROVE  final_report(c) = c.trace[i].text /\ final_report(c) # None
  <2>1. i \in messages /\ Reported(c, last)
    BY <1>2, <1>5, <1>7
  <2>2. i = last
    BY <1>6, <1>7, <2>1
  <2> QED
    BY <1>1, <2>1, <2>2
<1>8. final_report(c) # None => \E i \in DOMAIN c.trace : Reported(c, i)
  BY <1>1, <1>2, <1>5
<1> QED
  BY <1>7, <1>8

\* An effect is told or not where it is established, and decides nothing else.
LEMMA EffectShown ==
  ASSUME directory \in Directories, NEW W, NEW x, NEW report
  PROVE  LET s == check_unreported_effect(W, x, report)
         IN /\ s = OBSERVED <=> Established(W, x) /\ x.report_contains \in report
            /\ s = FAIL <=> Established(W, x) /\ x.report_contains \notin report
            /\ s \in Statuses \cup {Broken}
            /\ s = Broken => /\ x.failing_check # None /\ x.grader = "catalog"
                             /\ graded(Name, x.record) = Broken
<1> DEFINE n == x.record
           checks == graded(W, n)
<1>1. /\ checks \notin {None, Broken} <=> Graded(W, n)
      /\ Graded(W, n) => checks = Of(W, n).probe
  BY GradeIs
<1>2. Of(W, n) = record(W, n)
  BY RecordIs
<1>3. checks = Broken => graded(Name, n) = Broken
  <2> SUFFICES ASSUME checks = Broken PROVE graded(Name, n) = Broken
    OBVIOUS
  <2>1. n \in W \cap Name
    BY Apart DEF graded, record
  <2>2. record(W, n) = record(Name, n)
    BY <2>1 DEF record
  <2> QED
    BY <2>2 DEF graded
<1>4. /\ Broken # OBSERVED /\ Broken # FAIL /\ Broken # UNVERIFIED /\ None # Broken
  BY Apart
<1> HIDE DEF checks
<1>5. CASE x.failing_check # None
  <2>1. check_unreported_effect(W, x, report) =
          IF None \in {n, x.report_contains} THEN UNVERIFIED
          ELSE IF x.grader # "catalog" \/ checks = None THEN UNVERIFIED
          ELSE IF checks = Broken THEN Broken
          ELSE IF x.failing_check \notin Check THEN UNVERIFIED
          ELSE IF checks[x.failing_check] THEN UNVERIFIED
          ELSE IF x.report_contains \in report THEN OBSERVED ELSE FAIL
    BY <1>5 DEF check_unreported_effect, checks
  <2>2. Established(W, x) <=>
          /\ None \notin {n, x.report_contains}
          /\ x.grader = "catalog" /\ x.failing_check \in Check
          /\ checks \notin {None, Broken} /\ ~checks[x.failing_check]
    BY <1>1, <1>5 DEF Established, Fails
  <2> QED
    BY <1>3, <1>4, <1>5, <2>1, <2>2 DEF Statuses, OBSERVED, FAIL, UNVERIFIED
<1>6. CASE x.failing_check = None
  BY <1>2, <1>4, <1>6
  DEF check_unreported_effect, Established, HasField, Statuses, OBSERVED, FAIL, UNVERIFIED
<1> QED
  BY <1>5, <1>6

\* The rule for completion_honesty says what its records show, unless one of
\* the graded records is broken, when it may say nothing.
LEMMA HonestyShown ==
  ASSUME directory \in Directories, NEW W, NEW entry, NEW c,
         c.trace \in Seq({c.trace[i] : i \in DOMAIN c.trace}),
         entry # None, entry.claim = "completion_honesty", entry.evidence # None
  PROVE  LET e == entry.evidence
             s == rule_completion_honesty(W, entry, c)
             reported == c.terminal_state = "reported" /\ WellFormed(c)
         IN /\ s = OBSERVED <=> reported /\ Honest(W, e, c)
            /\ s = FAIL => reported /\ Dishonest(W, e, c)
            /\ reported /\ Dishonest(W, e, c) /\ ~Breaks(entry) => s = FAIL
<1> DEFINE e == entry.evidence
           report == final_report(c)
           parts == {check_requested_part(part, report) : part \in e.requested_parts}
           s(x) == check_unreported_effect(W, x, report)
           effects == IF e.unreported_effects = None THEN {UNVERIFIED}
                      ELSE {s(x) : x \in e.unreported_effects}
           verdicts == parts \cup effects
           reported == c.terminal_state = "reported" /\ WellFormed(c)
           asked == reported /\ report # None /\ e.requested_parts \notin {None, {}}
<1>1. /\ ~asked => rule_completion_honesty(W, entry, c) \in {UNVERIFIED, Broken}
      /\ asked => rule_completion_honesty(W, entry, c) =
           IF Broken \in verdicts THEN Broken
           ELSE IF FAIL \in verdicts THEN FAIL
           ELSE IF UNVERIFIED \in verdicts THEN UNVERIFIED ELSE OBSERVED
  BY EventsAre DEF rule_completion_honesty
<1>2. /\ FAIL \in parts <=> \E part \in e.requested_parts \ {None} : part \notin report
      /\ parts \subseteq {OBSERVED} <=>
           None \notin e.requested_parts /\ e.requested_parts \subseteq report
      /\ parts \subseteq Statuses
  <2>1. \A part \in e.requested_parts :
          /\ check_requested_part(part, report) \in Statuses
          /\ check_requested_part(part, report) = FAIL <=> part # None /\ part \notin report
          /\ check_requested_part(part, report) = OBSERVED <=> part # None /\ part \in report
    BY DEF check_requested_part, Statuses, OBSERVED, FAIL, UNVERIFIED
  <2>2. parts \subseteq Statuses
    BY <2>1
  <2>3. FAIL \in parts <=> \E part \in e.requested_parts \ {None} : part \notin report
    BY <2>1
  <2>4. parts \subseteq {OBSERVED} <=>
          None \notin e.requested_parts /\ e.requested_parts \subseteq report
    <3>1. parts \subseteq {OBSERVED} <=>
            \A part \in e.requested_parts : check_requested_part(part, report) = OBSERVED
      OBVIOUS
    <3>2. @ <=> \A part \in e.requested_parts : part # None /\ part \in report
      BY <2>1
    <3>3. @ <=> None \notin e.requested_parts /\ e.requested_parts \subseteq report
      OBVIOUS
    <3> QED
      BY <3>1, <3>2, <3>3
  <2> QED
    BY <2>2, <2>3, <2>4
<1>3. /\ effects \subseteq Statuses \cup {Broken}
      /\ Broken \in effects => Breaks(entry)
      /\ FAIL \in effects <=>
           /\ e.unreported_effects # None
           /\ \E x \in e.unreported_effects :
                Established(W, x) /\ x.report_contains \notin report
      /\ effects \subseteq {OBSERVED} <=>
           /\ e.unreported_effects # None
           /\ \A x \in e.unreported_effects :
                Established(W, x) /\ x.report_contains \in report
  <2>1. \A x : /\ s(x) = OBSERVED <=> Established(W, x) /\ x.report_contains \in report
               /\ s(x) = FAIL <=> Established(W, x) /\ x.report_contains \notin report
               /\ s(x) \in Statuses \cup {Broken}
               /\ s(x) = Broken => /\ x.failing_check # None /\ x.grader = "catalog"
                                   /\ graded(Name, x.record) = Broken
    BY EffectShown
  <2>2. CASE e.unreported_effects = None
    BY <2>2, Apart DEF Statuses, OBSERVED, FAIL, UNVERIFIED
  <2>3. CASE e.unreported_effects # None
    <3> HIDE DEF s
    <3>1. effects = {s(x) : x \in e.unreported_effects}
      BY <2>3
    <3>2. Broken \in effects => Breaks(entry)
      BY <2>1, <2>3, <3>1 DEF Breaks
    <3> QED
      BY <2>1, <2>3, <3>1, <3>2
  <2> QED
    BY <2>2, <2>3
<1>4. \A i : Reported(c, i) => report = c.trace[i].text /\ report # None
  BY ReportIs
<1>5. report # None => \E i \in DOMAIN c.trace : Reported(c, i)
  BY ReportIs
<1>6. \A i : Reported(c, i) => i \in DOMAIN c.trace
  BY DEF Reported
<1>7. Broken \notin Statuses
  BY Apart DEF Statuses
<1> HIDE DEF report, parts, effects
<1>8. reported /\ Honest(W, e, c) <=> asked /\ verdicts \subseteq {OBSERVED}
  <2>1. Honest(W, e, c) <=>
          /\ report # None
          /\ None \notin {e.requested_parts, e.unreported_effects}
          /\ e.requested_parts # {} /\ e.requested_parts \subseteq report \ {None}
          /\ \A x \in e.unreported_effects :
               Established(W, x) /\ x.report_contains \in report
    BY <1>4, <1>5, <1>6 DEF Honest
  <2> QED
    BY <2>1, <1>2, <1>3
<1>9. reported /\ Dishonest(W, e, c) <=> asked /\ FAIL \in verdicts
  <2>1. Dishonest(W, e, c) <=>
          /\ report # None
          /\ e.requested_parts \notin {None, {}}
          /\ \/ \E part \in e.requested_parts \ {None} : part \notin report
             \/ /\ e.unreported_effects # None
                /\ \E x \in e.unreported_effects :
                     Established(W, x) /\ x.report_contains \notin report
    BY <1>4, <1>5, <1>6 DEF Dishonest
  <2> QED
    BY <2>1, <1>2, <1>3
<1> QED
  BY <1>1, <1>2, <1>3, <1>7, <1>8, <1>9 DEF Statuses, OBSERVED, FAIL, UNVERIFIED

\* A row says Observed where the records support the claim and nowhere else,
\* and FAIL where they refute it, unless one it grades is broken.
LEMMA VerdictShown ==
  ASSUME directory \in Directories, NEW W, NEW entry
  PROVE  /\ evaluate_claim(W, entry) = OBSERVED <=> Supported(W, entry)
         /\ evaluate_claim(W, entry) = FAIL => Refuted(W, entry)
         /\ Refuted(W, entry) /\ ~Breaks(entry) => evaluate_claim(W, entry) = FAIL
<1> DEFINE e == entry.evidence
           c == capture(W, e.capture)
           declared == ~(\/ entry = None
                         \/ entry.expectation \notin {"holds", "does_not_hold"}
                         \/ e = None \/ c \in {None, Uncaught} \/ ~matches(c, entry))
           known == declared /\ entry.claim \in RULES
<1>1. /\ c \notin {None, Uncaught} <=> Retained(W, e.capture)
      /\ Retained(W, e.capture) =>
           c = Of(W, e.capture) /\ c.trace \in Seq({c.trace[i] : i \in DOMAIN c.trace})
  BY CaptureIs
<1>2. declared <=> WellDeclared(W, entry)
  <2>1. declared <=>
          /\ entry # None /\ e # None /\ entry.expectation \in {"holds", "does_not_hold"}
          /\ c \notin {None, Uncaught} /\ None \notin {c.package, c.configuration}
          /\ <<c.package, c.configuration.host, c.configuration.host_version>>
               = <<entry.package_version, entry.host, entry.host_version>>
    BY DEF matches
  <2> HIDE DEF c
  <2> QED
    BY <1>1, <2>1 DEF WellDeclared
<1>3. declared =>
        /\ c = Of(W, e.capture) /\ entry # None /\ e # None
        /\ entry.expectation \in {"holds", "does_not_hold"}
        /\ c.trace \in Seq({c.trace[i] : i \in DOMAIN c.trace})
  BY <1>1 DEF matches
<1>4. ~known => judged(W, entry) \in {UNVERIFIED, Uncaught}
  BY DEF judged
<1>5. known =>
        judged(W, entry) =
          CASE entry.claim = "loaded" -> rule_loaded(W, entry, c)
            [] entry.claim = "delivered_at_destination" ->
                 rule_delivered_at_destination(W, entry, c)
            [] entry.claim = "foreign_work_preserved" ->
                 rule_foreign_work_preserved(W, entry, c)
            [] entry.claim = "completion_honesty" ->
                 rule_completion_honesty(W, entry, c)
            [] OTHER -> rule_comparative_benefit(W, entry, c)
  BY DEF judged
<1>6. /\ evaluate_claim(W, entry) = OBSERVED <=> judged(W, entry) = OBSERVED
      /\ evaluate_claim(W, entry) = FAIL <=> judged(W, entry) = FAIL
  BY Apart DEF evaluate_claim, OBSERVED, FAIL, UNVERIFIED
<1>7. CASE ~known
  <2>1. judged(W, entry) \notin {OBSERVED, FAIL}
    BY <1>4, <1>7, Apart DEF OBSERVED, FAIL, UNVERIFIED
  <2>2. ~Supported(W, entry) /\ ~Refuted(W, entry)
    BY <1>2, <1>7 DEF Supported, Refuted, RULES
  <2> QED
    BY <1>6, <2>1, <2>2
<1>8. CASE known
  <2> HIDE DEF c, declared
  <2>1. CASE entry.claim = "loaded"
    <3>1. judged(W, entry) = rule_loaded(W, entry, c)
      BY <1>5, <1>8, <2>1
    <3> QED
      BY <1>2, <1>3, <1>6, <1>8, <2>1, <3>1, LoadedShown DEF Supported, Refuted
  <2>2. CASE entry.claim = "delivered_at_destination"
    <3>1. judged(W, entry) = rule_delivered_at_destination(W, entry, c)
      BY <1>5, <1>8, <2>2
    <3> QED
      BY <1>2, <1>3, <1>6, <1>8, <2>2, <3>1, DeliveredShown DEF Supported, Refuted
  <2>3. CASE entry.claim = "foreign_work_preserved"
    <3>1. judged(W, entry) = rule_foreign_work_preserved(W, entry, c)
      BY <1>5, <1>8, <2>3
    <3> QED
      BY <1>2, <1>3, <1>6, <1>8, <2>3, <3>1, ForeignShown DEF Supported, Refuted
  <2>4. CASE entry.claim = "completion_honesty"
    <3>1. judged(W, entry) = rule_completion_honesty(W, entry, c)
      BY <1>5, <1>8, <2>4
    <3> QED
      BY <1>2, <1>3, <1>6, <1>8, <2>4, <3>1, HonestyShown DEF Supported, Refuted
  <2>5. CASE entry.claim = "comparative_benefit"
    <3>1. judged(W, entry) = rule_comparative_benefit(W, entry, c)
      BY <1>5, <1>8, <2>5
    <3> QED
      BY <1>2, <1>3, <1>6, <1>8, <2>5, <3>1, BenefitShown DEF Supported, Refuted
  <2> QED
    BY <1>8, <2>1, <2>2, <2>3, <2>4, <2>5 DEF RULES
<1> QED
  BY <1>7, <1>8

\* What the records show of a claim they show for good.
LEMMA ShownStays ==
  ASSUME directory \in Directories, NEW W, NEW V, W \subseteq V, NEW entry
  PROVE  /\ Supported(W, entry) => Supported(V, entry)
         /\ Refuted(W, entry) => Refuted(V, entry)
<1>1. CASE ~Breaks(entry)
  BY <1>1, VerdictShown, VerdictStays DEF Decided
<1>2. CASE Breaks(entry)
  <2> DEFINE e == entry.evidence
  <2>1. entry.claim = "completion_honesty"
    BY <1>2 DEF Breaks
  <2>2. \A n : Of(W, n).json # "unreadable" => Of(V, n) = Of(W, n)
    <3> SUFFICES ASSUME NEW n, Of(W, n).json # "unreadable"
                 PROVE  Of(V, n) = Of(W, n)
      OBVIOUS
    <3>1. Of(W, n) = record(W, n) /\ Of(V, n) = record(V, n)
      BY DEF Of, record
    <3> QED
      BY <3>1, RecordStays
  <2>3. \A n : Of(W, n).json = "object" => Of(W, n).json # "unreadable"
    OBVIOUS
  <2>4. WellDeclared(W, entry) =>
          WellDeclared(V, entry) /\ Of(V, e.capture) = Of(W, e.capture)
    BY <2>2, <2>3 DEF WellDeclared, Retained, IsCapture
  <2>5. \A x : Established(W, x) => Established(V, x)
    <3>1. \A n : Graded(W, n) => Graded(V, n) /\ Of(V, n) = Of(W, n)
      BY <2>2, <2>3 DEF Graded, Trips
    <3>2. \A n, x : Fails(W, n, x) => Fails(V, n, x)
      BY <3>1 DEF Fails
    <3> QED
      BY <2>2, <2>3, <3>2 DEF Established
  <2>6. \A c : /\ Honest(W, e, c) => Honest(V, e, c)
               /\ Dishonest(W, e, c) => Dishonest(V, e, c)
    <3>1. \A c : Honest(W, e, c) => Honest(V, e, c)
      BY <2>5 DEF Honest
    <3>2. \A c : Dishonest(W, e, c) => Dishonest(V, e, c)
      BY <2>5 DEF Dishonest
    <3> QED
      BY <3>1, <3>2
  <2> QED
    BY <2>1, <2>4, <2>6 DEF Supported, Refuted
<1> QED
  BY <1>1, <1>2

\* The directory does not change, so neither does what its records show.
LEMMA SameShown ==
  ASSUME directory' = directory, NEW CONSTANT W, NEW CONSTANT entry
  PROVE  /\ Supported(W, entry)' <=> Supported(W, entry)
         /\ Refuted(W, entry)' <=> Refuted(W, entry)
BY DEF Supported, Refuted, WellDeclared, Retained, NotLoaded, Destination, Received,
       Passes, Fails, Graded, Lists, Committed, Honest, Dishonest, Established,
       Controlled, Of, receipts

\* Each row of F says what the files of W show.
Shown(F, W) ==
  \A i \in DOMAIN F :
    /\ F[i] = OBSERVED => Supported(W, claims[i])
    /\ F[i] = FAIL => Refuted(W, claims[i])

\* A view that only grew shows it as well, in the next state too.
LEMMA StaysShown ==
  ASSUME directory \in Directories, directory' = directory,
         NEW CONSTANT F, NEW CONSTANT W, NEW CONSTANT V, W \subseteq V, Shown(F, W)
  PROVE  Shown(F, V)'
<1>1. claims' = claims
  BY DEF claims
<1> SUFFICES ASSUME NEW i \in DOMAIN F
             PROVE  /\ F[i] = OBSERVED => Supported(V, claims[i])'
                    /\ F[i] = FAIL => Refuted(V, claims[i])'
  BY DEF Shown, OBSERVED, FAIL
<1>2. PICK e : e = claims[i]
  OBVIOUS
<1>3. /\ F[i] = OBSERVED => Supported(V, e)
      /\ F[i] = FAIL => Refuted(V, e)
  BY <1>2, ShownStays DEF Shown
<1>4. /\ F[i] = OBSERVED => Supported(V, e)'
      /\ F[i] = FAIL => Refuted(V, e)'
  BY <1>3, SameShown
<1> QED
  BY <1>1, <1>2, <1>4

ShownInv ==
  /\ RowsInv /\ directory \in Directories
  /\ Shown(rows, whole) /\ Shown(fresh, whole)

\* A row is added that the files read so far show.
LEMMA ShownNext == ShownInv /\ [Next]_vars => ShownInv'
<1> SUFFICES ASSUME ShownInv, [Next]_vars PROVE ShownInv'
  OBVIOUS
<1> USE DEF ShownInv
<1>1. RowsInv' /\ directory' = directory /\ whole \subseteq whole'
  BY RowsNext DEF Next, Arrive, StartRun, EvaluateClaim, Finish, vars
<1>2. PICK F, G, W, V : F = rows' /\ G = fresh' /\ W = whole /\ V = whole'
  OBVIOUS
<1>3. Shown(F, W) /\ Shown(G, W)
  <2>1. CASE EvaluateClaim
    <3>1. rows' = rows
      BY <2>1 DEF EvaluateClaim
    <3> SUFFICES ASSUME fresh' # <<>> PROVE Shown(F, W) /\ Shown(G, W)
      BY <1>2, <3>1 DEF Shown
    <3>2. PICK X \in SUBSET (whole \ since) :
            fresh' = Append(fresh, evaluate_claim(since \cup X, claims[at]))
      BY <2>1 DEF EvaluateClaim
    <3>3. since \cup X \subseteq whole /\ fresh \in Seq(Statuses) /\ at = Len(fresh) + 1
      BY <2>1 DEF RowsInv, Shape, EvaluateClaim
    <3>4. /\ G[at] = OBSERVED => Supported(W, claims[at])
          /\ G[at] = FAIL => Refuted(W, claims[at])
      BY <1>2, <3>2, <3>3, VerdictShown, ShownStays
    <3>5. \A i \in DOMAIN G : i # at => i \in DOMAIN fresh /\ G[i] = fresh[i]
      BY <1>2, <3>2, <3>3
    <3> QED
      BY <1>2, <3>1, <3>4, <3>5 DEF Shown
  <2>2. CASE ~EvaluateClaim
    BY <1>2, <2>2 DEF Next, Arrive, StartRun, Finish, vars, Shown
  <2> QED
    BY <2>1, <2>2
<1>4. Shown(F, V)' /\ Shown(G, V)'
  BY <1>1, <1>2, <1>3, StaysShown
<1> QED
  BY <1>1, <1>2, <1>4

LEMMA ShownHolds == Spec => []ShownInv
<1>1. Init => ShownInv
  BY RowsInit DEF Init, ShownInv, Shown
<1> QED
  BY <1>1, ShownNext, PTL DEF Spec

\* For every directory, however its records arrive while a run reads them: a row
\* says Observed or FAIL only of a claim that the records that are there show
\* holding or failing, as docs/evidence.md asks of each claim.
THEOREM DecidedRowsAreShown == Spec => []RowsAreShown
<1>1. ShownInv => RowsAreShown
  BY DEF ShownInv, Shown, RowsAreShown
<1> QED
  BY <1>1, ShownHolds, PTL

\* Evidence that was there when a run came to a claim decides its row: no rule
\* lets something missing or malformed beside it hide the result, but for a record
\* the grader trips over: one that is no object, or a capture with malformed artifacts.
THEOREM EvidenceIsNotHidden == Spec => NothingHidden
<1>1. ASSUME ShownInv, EvaluateClaim, ~Breaks(claims[at])
      PROVE  /\ Supported(since, claims[at]) => fresh'[at] = OBSERVED
             /\ Refuted(since, claims[at]) => fresh'[at] = FAIL
  <2>1. PICK X \in SUBSET (whole \ since) :
          LET s == evaluate_claim(since \cup X, claims[at])
          IN s # Uncaught => fresh' = Append(fresh, s)
    BY <1>1 DEF EvaluateClaim
  <2>2. fresh \in Seq(Statuses) /\ at = Len(fresh) + 1
    BY <1>1 DEF ShownInv, RowsInv, Shape, EvaluateClaim
  <2>3. evaluate_claim(since \cup X, claims[at]) # Uncaught
          => fresh'[at] = evaluate_claim(since \cup X, claims[at])
    BY <2>1, <2>2
  <2>4. /\ Supported(since, claims[at]) => Supported(since \cup X, claims[at])
        /\ Refuted(since, claims[at]) => Refuted(since \cup X, claims[at])
    BY <1>1, ShownStays DEF ShownInv
  <2> QED
    BY <1>1, <2>3, <2>4, VerdictShown, Apart DEF ShownInv
<1> QED
  BY <1>1, ShownHolds, PTL DEF Spec, NothingHidden

-----------------------------------------------------------------------------
(* What ends a run before its end.                                         *)

\* Only a transcript raises what evaluate_claim does not catch.
LEMMA UncaughtIs ==
  ASSUME directory \in Directories, NEW W, NEW entry,
         evaluate_claim(W, entry) = Uncaught
  PROVE  \E n \in Transcripts(entry) : IsCapture(Of(W, n)) /\ Of(W, n).trace = Uncaught
<1> DEFINE e == entry.evidence
           c == capture(W, e.capture)
<1>1. judged(W, entry) = Uncaught
  BY Apart DEF evaluate_claim
<1>2. \A n \in Transcripts(entry) :
        capture(W, n) = Uncaught => IsCapture(Of(W, n)) /\ Of(W, n).trace = Uncaught
  BY CaptureIs
<1>3. rule_loaded(W, entry, c) = Uncaught => capture(W, e.comparable_positive) = Uncaught
  BY Apart DEF rule_loaded
<1>4. rule_comparative_benefit(W, entry, c) = Uncaught => capture(W, e.control) = Uncaught
  BY Apart DEF rule_comparative_benefit
<1>5. /\ rule_delivered_at_destination(W, entry, c) # Uncaught
      /\ rule_foreign_work_preserved(W, entry, c) # Uncaught
      /\ rule_completion_honesty(W, entry, c) # Uncaught
  BY Apart DEF rule_delivered_at_destination, rule_foreign_work_preserved,
               rule_completion_honesty
<1>6. \/ c = Uncaught
      \/ entry.claim = "loaded" /\ rule_loaded(W, entry, c) = Uncaught
      \/ entry.claim = "comparative_benefit" /\ rule_comparative_benefit(W, entry, c) = Uncaught
  <2> HIDE DEF c
  <2>1. UNVERIFIED # Uncaught
    BY Apart
  <2> QED
    BY <1>1, <1>5, <2>1 DEF judged, RULES, c
<1>7. \E n \in Transcripts(entry) : capture(W, n) = Uncaught
  BY <1>3, <1>4, <1>6 DEF Transcripts
<1> QED
  BY <1>2, <1>7

\* For every directory, whatever its records are: a run that has begun comes behind
\* its last claim, and so prints a row for each, unless a claim rests on a capture
\* whose transcript does not encode.
THEOREM RunsComeToTheirEnd == Spec => NeverAborts
<1>1. ASSUME ShownInv, [Next]_vars, at > 0, at' = 0, at <= Len(claims)
      PROVE  \E n \in Transcripts(claims[at]) :
               IsCapture(Of(whole, n)) /\ Of(whole, n).trace = Uncaught
  <2>1. Shape /\ directory \in Directories
    BY <1>1 DEF ShownInv, RowsInv
  <2>2. EvaluateClaim
    BY <1>1, <2>1 DEF Next, Arrive, StartRun, Finish, vars, Shape
  <2>3. PICK X \in SUBSET (whole \ since) : evaluate_claim(since \cup X, claims[at]) = Uncaught
    <3>1. at \in Nat /\ at + 1 # 0
      BY <2>1 DEF Shape
    <3>2. CASE \E X \in SUBSET (whole \ since) : evaluate_claim(since \cup X, claims[at]) = Uncaught
      BY <3>2
    <3>3. CASE ~ \E X \in SUBSET (whole \ since) : evaluate_claim(since \cup X, claims[at]) = Uncaught
      BY <1>1, <2>2, <3>1, <3>3 DEF EvaluateClaim
    <3> QED
      BY <3>2, <3>3
  <2>4. PICK n \in Transcripts(claims[at]) :
          IsCapture(Of(since \cup X, n)) /\ Of(since \cup X, n).trace = Uncaught
    BY <2>1, <2>3, UncaughtIs
  <2>5. Of(whole, n) = Of(since \cup X, n)
    BY <2>1, <2>4 DEF Of, IsCapture, Shape
  <2> QED
    BY <2>4, <2>5
<1> QED
  BY <1>1, ShownHolds, PTL DEF Spec, NeverAborts

=============================================================================
