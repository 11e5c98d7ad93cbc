------------------------------ MODULE MCHosts ------------------------------
(***************************************************************************)
(* One slot, the matrix run with its gate, and a check.py of someone else. *)
(***************************************************************************)
EXTENDS HostChecks

MCParent == [p \in Process |-> IF p = "gate" THEN "hosts" ELSE None]

MCFirst == [f \in File |-> 0]

AllPass == [h \in Host |-> "PASS"]

Plain == [package_gate |-> FALSE, skip_install |-> FALSE, smoke |-> FALSE,
          validators |-> {}, installs |-> {}, source |-> FALSE,
          present |-> Host, schema |-> AllPass, outside |-> {}]

\* The gate beside a check.py of someone else, with every answer of the validators.
GateOnly ==
  {[Plain EXCEPT !.package_gate = TRUE, !.skip_install = TRUE, !.outside = {"other"},
                 !.validators = v, !.present = h,
                 !.schema = [n \in Host |-> IF n = "codex" THEN c ELSE l]] :
     v \in {{}, Host}, h \in {{"codex"}, Host},
     c \in {"PASS", "FAIL", "UNVERIFIED"}, l \in {"PASS", "FAIL"}}

\* Installs that are asked for, or required, with an own marketplace or not, and smokes.
Installs ==
  {[Plain EXCEPT !.installs = Host, !.source = TRUE],
   [Plain EXCEPT !.installs = {"codex"}, !.present = {"claude"}], Plain}
  \cup {[Plain EXCEPT !.smoke = TRUE, !.installs = i, !.source = i # {}] :
           i \in {{}, {"codex"}}}

MCOption == GateOnly \cup Installs

\* The uninstall that is recorded as verified was one.  It need not be: see VerifyUninstall.
UninstallIsReal == at = "cycle over" /\ "verify uninstall" \in steps => plugin = None
=============================================================================
