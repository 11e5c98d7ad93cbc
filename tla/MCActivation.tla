---------------------------- MODULE MCActivation ----------------------------
(***************************************************************************)
(* Values for the constants of Activation: the runs differ in the host, in *)
(* what the owner may save, in the command lines and in the faults.        *)
(***************************************************************************)
EXTENDS Activation, TLC

CONSTANTS h1, h2,                     \* helper processes
          agents, override,           \* AGENTS.md, AGENTS.override.md
          claude, ruleA, ruleB, t1, t2

file(o, b, l) == [own |-> o, blk |-> b, link |-> l]

CodexOthers == <<override>>
ClaudeOthers == <<ruleA, ruleB>>
NoOthers == <<>>

Cmd(action) == [action |-> action, apply |-> TRUE]
Install1 == {Cmd("install")}
Remove1 == {Cmd("remove")}
AllCommands == [action : Action, apply : BOOLEAN]
BothActions == {Cmd("install"), Cmd("remove")}

\* One explicit target: two texts, an empty file, the block with and without
\* created=1, damaged markers, and a link to a file with the same bytes.
TargetSaves ==
  {file(t1, "absent", FALSE), file(t2, "absent", FALSE),
   file(t1, "absent", TRUE), file(t1, "present", FALSE),
   file(Empty, "absent", FALSE), file(Empty, "created", FALSE),
   file(t1, "edited", FALSE)}

\* What matters to the race of two whole runs with one save of the owner.
RaceSaves ==
  {file(t1, "absent", FALSE), file(t1, "absent", TRUE),
   file(t2, "present", FALSE), file(Empty, "created", FALSE)}

\* Every way a host's files can start out without the owner acting later.
QuietSaves ==
  {file(o, b, l) : o \in {Empty, Blank, t1}, b \in {"absent", "present"},
                   l \in BOOLEAN}
  \cup {file(Empty, "created", FALSE), file(t1, "created", FALSE),
        file(t1, "edited", FALSE)}

\* The same for three files, with fewer kinds of content.
RuleSaves ==
  {file(t1, "absent", FALSE), file(t1, "present", FALSE), file(t1, "present", TRUE),
   file(Empty, "created", FALSE), file(t1, "edited", FALSE)}

\* Files an install can always work on.
PlainSaves ==
  {file(t1, "absent", FALSE), file(Empty, "created", FALSE),
   file(t1, "present", FALSE), file(Blank, "absent", FALSE)}

Symmetry == Permutations(Helper)
=============================================================================
