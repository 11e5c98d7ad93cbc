---------------------------- MODULE AtomicFiles ----------------------------
(***************************************************************************)
(* What the activation helper promises about a set of instruction files.   *)
(* The owner saves any file at any time.  The helper changes a file only   *)
(* by adding or taking out its own block, in one step, from what the file  *)
(* holds at that moment, and never behind a symbolic link.  The exception  *)
(* is a path whose last save fell into a helper's window between its last  *)
(* look at the file and the write (raced): there a stale copy may win.     *)
(***************************************************************************)
EXTENDS OwnedBlock, Naturals

CONSTANT Path

VARIABLES fs,     \* what each path holds
          saved,  \* the owner's part of what the owner last left at each path
          raced,  \* paths whose last save fell into a helper's window
          edits   \* how many times the owner has saved

vars == <<fs, saved, raced, edits>>

Init ==
  /\ fs \in [Path -> File]
  /\ saved = [p \in Path |-> OwnerPart(fs[p])]
  /\ raced = {}
  /\ edits = 0

OwnerSaves(p) ==
  \E f \in File :
    /\ fs' = [fs EXCEPT ![p] = f]
    /\ saved' = [saved EXCEPT ![p] = OwnerPart(f)]
    /\ raced' \in {raced \cup {p}, raced \ {p}}
    /\ edits' = edits + 1

HelperTransforms(p) ==
  /\ ~linked(fs[p])
  /\ ~Raises(fs[p])
  /\ \E action \in Action :
       fs' = [fs EXCEPT ![p] = transform(fs[p], action)]
  /\ UNCHANGED <<saved, raced, edits>>

StaleCopyWins(p) ==
  /\ p \in raced
  /\ \E f \in File : fs' = [fs EXCEPT ![p] = f]
  /\ UNCHANGED <<saved, raced, edits>>

Next == \E p \in Path : OwnerSaves(p) \/ HelperTransforms(p) \/ StaleCopyWins(p)

Spec == Init /\ [][Next]_vars

\* Every path holds exactly what the owner last left there, block aside,
\* unless that save raced with a write (activation.py, docstring:
\* "preserves every other byte").
OwnerKept == \A p \in Path \ raced : OwnerPart(fs[p]) = saved[p]
=============================================================================
