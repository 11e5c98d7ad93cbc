-------------------------- MODULE ActivationProofs --------------------------
(***************************************************************************)
(* Theorems about Activation for every set of helper runs, every layout of *)
(* files, every text and every bound, with their proofs.                   *)
(*                                                                         *)
(* The argument: what a run has planned for a file is what install or      *)
(* remove makes of the bytes it was planned on (Planned).  Between the     *)
(* last look and the write only other runs touch the file, unless the save *)
(* is marked raced, and whatever they do to the block the planned bytes    *)
(* remain what the same action makes of the file (PlanStaysCurrent).  The  *)
(* mode a staged file was given is the mode of the file it replaces, which *)
(* no run changes (ModeCurrent).  When nobody saves and all runs have one  *)
(* action, every file a run is done with stays as that action wants it,    *)
(* and a run is done with all others before it takes a block away          *)
(* (Settling).                                                             *)
(***************************************************************************)
EXTENDS Activation, SequenceTheorems, TLAPS

---------------------------------------------------------------------------
(* Lemmas about transform.                                                 *)

\* transform yields a file.
LEMMA TransformType ==
  ASSUME NEW f \in File, NEW a \in Action
  PROVE  transform(f, a) \in File
BY DEF transform, InstallBlock, RemoveBlock, HasBlock, File, Content, Own,
       BlockState, Action

\* transform leaves the owner's text alone.
LEMMA TransformKeepsOwner ==
  ASSUME NEW f \in File, NEW a \in Action, ~linked(f)
  PROVE  OwnerPart(transform(f, a)) = OwnerPart(f)
BY NoneAssumption
   DEF transform, InstallBlock, RemoveBlock, HasBlock, File, Content, Own,
       BlockState, Action, OwnerPart, OwnText, linked

\* What the owner put at a path is a text and a flag.
LEMMA OwnerPartType ==
  ASSUME NEW f \in File
  PROVE  OwnerPart(f) \in [own : Own, link : BOOLEAN]
BY DEF OwnerPart, OwnText, linked, File, Content, Own

\* A change as plan makes it: a transformed file that may be edited at all.
Proper(c) ==
  /\ ~linked(c.original) /\ ~Raises(c.original)
  /\ c.changed # c.original
  /\ c.changed = transform(c.original, Verb(c))

\* Whatever action was wanted, a change it makes is proper.
LEMMA PlannedIsProper ==
  ASSUME NEW f \in File, NEW a \in Action, NEW p \in Path,
         ~linked(f), ~Raises(f), transform(f, a) # f
  PROVE  LET c == [path |-> p, original |-> f, changed |-> transform(f, a)]
         IN  c \in Change /\ Proper(c)
<1> DEFINE c == [path |-> p, original |-> f, changed |-> transform(f, a)]
<1>1. c \in Change
  BY TransformType DEF Change
<1>2. c.changed = transform(f, Verb(c))
  BY NoneAssumption
     DEF Verb, transform, InstallBlock, RemoveBlock, HasBlock, File, Content,
         Raises, Action, BlockState
<1> QED BY <1>1, <1>2 DEF Proper

\* The file a change was planned on is current for it.
LEMMA OriginalIsCurrent ==
  ASSUME NEW c \in Change, Proper(c)
  PROVE  Current(c, c.original)
BY DEF Proper, Current

\* Another run may install or remove the block: the change stays current.
LEMMA TransformKeepsCurrent ==
  ASSUME NEW c \in Change, Proper(c), c.original # None,
         NEW f \in File, Current(c, f), NEW a \in Action
  PROVE  Current(c, transform(f, a))
BY NoneAssumption
   DEF Current, Proper, Verb, transform, InstallBlock, RemoveBlock, HasBlock,
       Raises, linked, Change, File, Content, Action, BlockState

---------------------------------------------------------------------------
(* Type correctness.  Publish takes what it writes from the head of todo,  *)
(* so that the types rest on a run having work whenever it applies one.    *)

Applying == Staged \cup {"check", "unlink", "stage", "cleanup"}

HasWork == \A h \in Helper : pc[h] \in Applying => todo[h] # <<>>

\* The initial states are well typed.
LEMMA InitTyped == Init => TypeOK /\ HasWork
<1> SUFFICES ASSUME Init PROVE TypeOK /\ HasWork
  OBVIOUS
<1>1. fs \in [Path -> File]
  BY ConstantsAssumption DEF Init, File
<1>2. saved \in [Path -> [own : Own, link : BOOLEAN]]
  BY <1>1, OwnerPartType DEF Init
<1>3. cmd \in [Helper -> [action : Action, apply : BOOLEAN]]
  BY ConstantsAssumption DEF Init
<1>4. /\ eff \in [Helper -> Path]
      /\ smode \in [Helper -> Modes]
      /\ pc \in [Helper -> PC]
      /\ todo \in [Helper -> Seq(Change)]
  BY ConstantsAssumption DEF Init, Path, PC, Ended
<1> QED BY <1>1, <1>2, <1>3, <1>4 DEF Init, TypeOK, HasWork, Applying, Staged

\* The head of a nonempty plan is a change, and the rest of it a plan.
LEMMA PlanParts ==
  ASSUME TypeOK, NEW h \in Helper, todo[h] # <<>>
  PROVE  /\ Head(todo[h]) \in Change
         /\ Target(h) \in Path
         /\ Original(h) \in File
         /\ Changed(h) \in File
         /\ Tail(todo[h]) \in Seq(Change)
<1>1. todo[h] \in Seq(Change)
  BY DEF TypeOK
<1>2. Head(todo[h]) \in Change /\ Tail(todo[h]) \in Seq(Change)
  BY <1>1, HeadTailProperties
<1> QED BY <1>2 DEF Change, Target, Original, Changed

\* Every step keeps the types.
LEMMA StepTyped == TypeOK /\ HasWork /\ [Next]_vars => TypeOK' /\ HasWork'
<1> SUFFICES ASSUME TypeOK, HasWork, [Next]_vars PROVE TypeOK' /\ HasWork'
  OBVIOUS
<1> USE DEF Applying, Staged, PC, Ended, HasWork, Goto, Abort,
            fileVars, ownerVars, runVars
<1>0. <<>> \in Seq(Change)
  BY EmptySeq
<1>1. ASSUME NEW h \in Helper, Start(h) PROVE TypeOK' /\ HasWork'
  BY <1>1, ConstantsAssumption DEF Start, TypeOK
<1>2. ASSUME NEW h \in Helper, Resolve(h) PROVE TypeOK' /\ HasWork'
  <2>1. effective(fs) \in Path
    BY ConstantsAssumption DEF effective, overrideRead, Override, Path
  <2>2. candidates(fs) \subseteq Path
    BY DEF candidates, Path
  <2> QED BY <1>2, <2>1, <2>2 DEF Resolve, TypeOK
<1>3. ASSUME NEW h \in Helper, PlanFile(h) PROVE TypeOK' /\ HasWork'
  <2>1. PICK p \in cands[h] :
          IF PlanRefuses(h, p)
            THEN Abort(h) /\ cands' = [cands EXCEPT ![h] = {}]
            ELSE /\ cands' = [cands EXCEPT ![h] = @ \ {p}]
                 /\ todo' = IF PlanSkips(h, p) \/ planned(h, p).changed = fs[p]
                              THEN todo
                              ELSE [todo EXCEPT ![h] = Append(@, planned(h, p))]
                 /\ UNCHANGED pc
    BY <1>3 DEF PlanFile
  <2>2. planned(h, p) \in Change
    <3>1. p \in Path /\ wanted(h, p) \in Action /\ fs[p] \in File
      BY DEF TypeOK, wanted, Action
    <3> QED BY <3>1, TransformType DEF planned, Change
  <2>3. Append(todo[h], planned(h, p)) \in Seq(Change)
    BY <2>2 DEF TypeOK
  <2>4. todo' \in [Helper -> Seq(Change)] /\ cands' \in [Helper -> SUBSET Path]
    <3>1. CASE PlanRefuses(h, p)
      BY <1>0, <2>1, <3>1 DEF TypeOK
    <3>2. CASE ~PlanRefuses(h, p)
      <4>1. todo' \in [Helper -> Seq(Change)]
        BY <2>1, <2>3, <3>2 DEF TypeOK
      <4>2. cands' \in [Helper -> SUBSET Path]
        <5>1. cands \in [Helper -> SUBSET Path] /\ cands[h] \ {p} \in SUBSET Path
          BY DEF TypeOK
        <5>2. cands' = [cands EXCEPT ![h] = cands[h] \ {p}]
          BY <2>1, <3>2
        <5> QED BY <5>1, <5>2
      <4> QED BY <4>1, <4>2
    <3> QED BY <3>1, <3>2
  <2>5. pc' \in [Helper -> PC] /\ HasWork'
    BY <1>3, <2>1 DEF TypeOK, PlanFile
  <2> QED BY <1>3, <2>4, <2>5 DEF PlanFile, TypeOK
<1>4. ASSUME NEW h \in Helper, PlanDone(h) PROVE TypeOK' /\ HasWork'
  BY <1>0, <1>4 DEF PlanDone, TypeOK
<1>5. ASSUME NEW h \in Helper, CheckTarget(h) PROVE TypeOK' /\ HasWork'
  BY <1>0, <1>5 DEF CheckTarget, TypeOK
<1>6. ASSUME NEW h \in Helper, UnlinkTarget(h) PROVE TypeOK' /\ HasWork'
  <2>1. CASE fs[Target(h)] = None
    BY <1>0, <1>6, <2>1 DEF UnlinkTarget, TypeOK
  <2>2. CASE fs[Target(h)] # None
    <3>1. Tail(todo[h]) \in Seq(Change)
      BY <1>6, PlanParts DEF UnlinkTarget
    <3>2. fs' \in [Path -> File]
      BY <1>6, <2>2 DEF UnlinkTarget, TypeOK, File
    <3>3. todo' \in [Helper -> Seq(Change)]
      BY <1>6, <2>2, <3>1 DEF UnlinkTarget, NextChange, TypeOK
    <3>4. pc' \in [Helper -> PC]
      BY <1>6, <2>2 DEF UnlinkTarget, NextChange, TypeOK
    <3>5. HasWork'
      BY <1>6, <2>2 DEF UnlinkTarget, NextChange, TypeOK
    <3> QED BY <1>6, <3>2, <3>3, <3>4, <3>5 DEF UnlinkTarget, TypeOK
  <2> QED BY <2>1, <2>2
<1>7. ASSUME NEW h \in Helper, OpenStaged(h) PROVE TypeOK' /\ HasWork'
  BY <1>7 DEF OpenStaged, TypeOK
<1>8. ASSUME NEW h \in Helper, WriteStaged(h) PROVE TypeOK' /\ HasWork'
  <2>1. Private \in Modes
    BY ConstantsAssumption
  <2>2. Target(h) \in Path
    BY <1>8, PlanParts DEF WriteStaged
  <2>3. smode' \in [Helper -> Modes]
    BY <1>8, <2>1, <2>2 DEF WriteStaged, TypeOK
  <2>4. pc' \in [Helper -> PC] /\ HasWork'
    BY <1>8 DEF WriteStaged, TypeOK
  <2> QED BY <1>8, <2>3, <2>4 DEF WriteStaged, TypeOK
<1>9. ASSUME NEW h \in Helper, Recheck(h) PROVE TypeOK' /\ HasWork'
  BY <1>9 DEF Recheck, TypeOK
<1>10. ASSUME NEW h \in Helper, Publish(h) PROVE TypeOK' /\ HasWork'
  BY <1>10, PlanParts DEF Publish, TypeOK
<1>11. ASSUME NEW h \in Helper, Cleanup(h) PROVE TypeOK' /\ HasWork'
  BY <1>11, PlanParts DEF Cleanup, NextChange, TypeOK
<1>12. ASSUME NEW h \in Helper, Unwind(h) PROVE TypeOK' /\ HasWork'
  BY <1>0, <1>12 DEF Unwind, TypeOK
<1>13. ASSUME NEW h \in Helper, Fault(h) PROVE TypeOK' /\ HasWork'
  <2>1. CASE OSFails(h)
    <3>1. pc' \in [Helper -> PC]
      BY <2>1 DEF OSFails, TypeOK
    <3>2. todo' \in [Helper -> Seq(Change)] /\ HasWork'
      BY <1>0, <2>1 DEF OSFails, TypeOK
    <3> QED BY <2>1, <3>1, <3>2 DEF OSFails, Strikes, TypeOK
  <2>2. CASE Cancel(h)
    <3>1. pc' \in [Helper -> PC]
      BY <2>2 DEF Cancel, TypeOK
    <3>2. todo' \in [Helper -> Seq(Change)] /\ HasWork'
      <4>1. CASE Abort(h)
        BY <1>0, <4>1 DEF TypeOK
      <4>2. CASE pc[h] \in Staged /\ Goto(h, "unwind") /\ UNCHANGED todo
        BY <4>2 DEF TypeOK
      <4> QED BY <2>2, <4>1, <4>2 DEF Cancel
    <3> QED BY <2>2, <3>1, <3>2 DEF Cancel, Strikes, TypeOK
  <2>3. CASE Kill(h)
    BY <1>0, <2>3 DEF Kill, Strikes, TypeOK
  <2> QED BY <1>13, <2>1, <2>2, <2>3 DEF Fault
<1>14. ASSUME NEW p \in Path, OwnerSaves(p) PROVE TypeOK' /\ HasWork'
  <2>1. PICK f \in Saves \cup {None}, m \in Modes :
          /\ fs' = [fs EXCEPT ![p] = f]
          /\ mode' = [mode EXCEPT ![p] = m]
          /\ saved' = [saved EXCEPT ![p] = OwnerPart(f)]
    BY <1>14 DEF OwnerSaves
  <2>2. f \in File /\ OwnerPart(f) \in [own : Own, link : BOOLEAN]
    BY ConstantsAssumption, OwnerPartType DEF File
  <2> QED BY <1>14, <2>1, <2>2 DEF OwnerSaves, Mark, TypeOK
<1>15. CASE UNCHANGED vars
  BY <1>15 DEF vars, TypeOK
<1> QED BY <1>1, <1>2, <1>3, <1>4, <1>5, <1>6, <1>7, <1>8, <1>9, <1>10, <1>11,
           <1>12, <1>13, <1>14, <1>15 DEF Next, HelperStep

\* Every reachable state of the helper is well typed, and a run that applies
\* a change has one: Head(todo) is never taken of an empty plan.
THEOREM TypeCorrect == Spec => [](TypeOK /\ HasWork)
BY InitTyped, StepTyped, PTL DEF Spec

---------------------------------------------------------------------------
(* What a run has planned.                                                 *)

AllProper(s) == \A i \in 1 .. Len(s) : Proper(s[i])

\* Every change in a plan is proper, and a run unlinks only what it planned
\* to delete.
Planned ==
  \A h \in Helper :
    /\ AllProper(todo[h])
    /\ pc[h] = "unlink" => Changed(h) = None

\* Taking a change off a plan, or putting a proper one on it.
LEMMA TailProper ==
  ASSUME NEW s \in Seq(Change), s # <<>>, AllProper(s)
  PROVE  Proper(Head(s)) /\ AllProper(Tail(s))
<1>1. /\ Tail(s) \in Seq(Change)
      /\ Len(Tail(s)) = Len(s) - 1
      /\ \A i \in 1 .. Len(Tail(s)) : Tail(s)[i] = s[i + 1]
  BY HeadTailProperties
<1>2. Len(s) \in Nat /\ Len(s) >= 1 /\ Head(s) = s[1]
  OBVIOUS
<1>3. \A i \in 1 .. Len(Tail(s)) : i + 1 \in 1 .. Len(s)
  BY <1>1, <1>2
<1> QED BY <1>1, <1>2, <1>3 DEF AllProper

LEMMA AppendProper ==
  ASSUME NEW s \in Seq(Change), AllProper(s), NEW c \in Change, Proper(c)
  PROVE  AllProper(Append(s, c))
<1>1. /\ Len(Append(s, c)) = Len(s) + 1
      /\ \A i \in 1 .. Len(s) : Append(s, c)[i] = s[i]
      /\ Append(s, c)[Len(s) + 1] = c
  BY AppendProperties
<1> QED BY <1>1 DEF AllProper

LEMMA NoPlanProper == AllProper(<<>>)
BY DEF AllProper

\* Every step keeps plans proper.
LEMMA StepPlanned ==
  TypeOK /\ HasWork /\ Planned /\ [Next]_vars => Planned'
<1> SUFFICES ASSUME TypeOK, HasWork, Planned, [Next]_vars,
                    NEW g \in Helper
             PROVE  AllProper(todo'[g]) /\ (pc'[g] = "unlink" => Changed(g)' = None)
  BY DEF Planned
<1> USE NoPlanProper DEF Goto, Abort, Planned, Changed
<1>1. ASSUME todo[g] # <<>>
      PROVE  Proper(Head(todo[g])) /\ AllProper(Tail(todo[g]))
  BY <1>1, TailProper DEF TypeOK
<1>2. CASE UNCHANGED <<todo[g], pc[g]>>
  BY <1>2
<1>3. CASE todo'[g] = todo[g] /\ pc'[g] # "unlink"
  BY <1>3
<1>4. CASE todo'[g] = <<>> /\ pc'[g] # "unlink"
  BY <1>4
<1>5. ASSUME NextChange(g), todo[g] # <<>>
      PROVE  AllProper(todo'[g]) /\ pc'[g] # "unlink"
  BY <1>1, <1>5 DEF NextChange, TypeOK
<1>6. ASSUME NEW h \in Helper, Start(h) \/ Resolve(h) \/ PlanDone(h)
      PROVE  AllProper(todo'[g]) /\ (pc'[g] = "unlink" => Changed(g)' = None)
  BY <1>2, <1>3, <1>4, <1>6 DEF Start, Resolve, PlanDone, TypeOK
<1>7. ASSUME NEW h \in Helper, PlanFile(h)
      PROVE  AllProper(todo'[g]) /\ (pc'[g] = "unlink" => Changed(g)' = None)
  <2>1. PICK p \in cands[h] :
          IF PlanRefuses(h, p)
            THEN Abort(h) /\ cands' = [cands EXCEPT ![h] = {}]
            ELSE /\ cands' = [cands EXCEPT ![h] = @ \ {p}]
                 /\ todo' = IF PlanSkips(h, p) \/ planned(h, p).changed = fs[p]
                              THEN todo
                              ELSE [todo EXCEPT ![h] = Append(@, planned(h, p))]
                 /\ UNCHANGED pc
    BY <1>7 DEF PlanFile
  <2>2. CASE h # g \/ PlanRefuses(h, p) \/ todo' = todo
    BY <1>2, <1>4, <2>1, <2>2 DEF TypeOK
  <2>3. CASE h = g /\ ~PlanRefuses(h, p) /\ todo' # todo
    <3>1. p \in Path /\ fs[p] \in File /\ wanted(h, p) \in Action
      BY DEF TypeOK, wanted, Action
    <3>2. ~linked(fs[p]) /\ ~Raises(fs[p]) /\ planned(h, p).changed # fs[p]
      BY <2>1, <2>3 DEF PlanRefuses
    <3>3. planned(h, p) \in Change /\ Proper(planned(h, p))
      BY <3>1, <3>2, PlannedIsProper DEF planned
    <3>4. todo'[g] = Append(todo[g], planned(h, p)) /\ pc' = pc
      BY <2>1, <2>3 DEF TypeOK
    <3>5. AllProper(todo'[g])
      BY <3>3, <3>4, AppendProper DEF TypeOK
    <3>6. pc'[g] # "unlink"
      BY <1>7, <2>3, <3>4 DEF PlanFile
    <3> QED BY <3>5, <3>6
  <2> QED BY <2>2, <2>3
<1>8. ASSUME NEW h \in Helper, CheckTarget(h)
      PROVE  AllProper(todo'[g]) /\ (pc'[g] = "unlink" => Changed(g)' = None)
  BY <1>2, <1>3, <1>4, <1>8 DEF CheckTarget, TypeOK
<1>9. ASSUME NEW h \in Helper, UnlinkTarget(h) \/ Cleanup(h)
      PROVE  AllProper(todo'[g]) /\ (pc'[g] = "unlink" => Changed(g)' = None)
  <2>1. CASE h # g
    BY <1>2, <1>9, <2>1 DEF UnlinkTarget, Cleanup, NextChange, TypeOK
  <2>2. CASE h = g /\ todo'[g] = <<>> /\ pc'[g] # "unlink"
    BY <2>2
  <2>3. CASE h = g /\ NextChange(g)
    BY <1>5, <1>9, <2>3 DEF UnlinkTarget, Cleanup, HasWork, Applying
  <2> QED BY <1>9, <2>1, <2>2, <2>3 DEF UnlinkTarget, Cleanup, TypeOK
<1>10. ASSUME NEW h \in Helper,
              \/ OpenStaged(h) \/ WriteStaged(h) \/ Recheck(h)
              \/ Publish(h) \/ Unwind(h)
       PROVE  AllProper(todo'[g]) /\ (pc'[g] = "unlink" => Changed(g)' = None)
  BY <1>2, <1>3, <1>4, <1>10
     DEF OpenStaged, WriteStaged, Recheck, Publish, Unwind, TypeOK
<1>11. ASSUME NEW h \in Helper, Fault(h)
       PROVE  AllProper(todo'[g]) /\ (pc'[g] = "unlink" => Changed(g)' = None)
  BY <1>2, <1>3, <1>4, <1>11 DEF Fault, OSFails, Cancel, Kill, TypeOK
<1>12. ASSUME NEW p \in Path, OwnerSaves(p)
       PROVE  AllProper(todo'[g]) /\ (pc'[g] = "unlink" => Changed(g)' = None)
  BY <1>2, <1>12 DEF OwnerSaves, runVars
<1> QED BY <1>2, <1>6, <1>7, <1>8, <1>9, <1>10, <1>11, <1>12
        DEF Next, HelperStep, vars

---------------------------------------------------------------------------
(* The write.                                                              *)

Inv == TypeOK /\ HasWork /\ Planned /\ PlanStaysCurrent

\* The instance of AtomicFiles has its own copies of the operators of
\* OwnedBlock, with the same definitions.
LEMMA SameOperators ==
  /\ Files!File = File /\ Files!Action = Action
  /\ \A f : Files!OwnerPart(f) = OwnerPart(f)
  /\ \A f : Files!linked(f) = linked(f) /\ Files!Raises(f) = Raises(f)
  /\ \A f, a : Files!transform(f, a) = transform(f, a)
<1>1. Files!File = File /\ Files!Action = Action
  BY DEF Files!File, Files!Content, Files!Own, Files!BlockState, Files!Action,
         File, Content, Own, BlockState, Action
<1>2. \A f : Files!linked(f) = linked(f) /\ Files!Raises(f) = Raises(f)
             /\ Files!HasBlock(f) = HasBlock(f)
  BY DEF Files!linked, Files!Raises, Files!HasBlock, linked, Raises, HasBlock
<1>3. \A f : Files!OwnerPart(f) = OwnerPart(f)
  BY <1>2 DEF Files!OwnerPart, Files!OwnText, OwnerPart, OwnText
<1>4. \A f, a : Files!transform(f, a) = transform(f, a)
  BY <1>2 DEF Files!transform, Files!InstallBlock, Files!RemoveBlock,
              transform, InstallBlock, RemoveBlock
<1> QED BY <1>1, <1>2, <1>3, <1>4

\* A write puts at the path what install or remove makes of the file there,
\* unless the owner's last save raced with it.
LEMMA WriteTransforms ==
  ASSUME Inv, NEW h \in Helper,
         \/ pc[h] = "publish" /\ ~(Original(h) = None /\ fs[Target(h)] # None)
         \/ pc[h] = "unlink"  /\ fs[Target(h)] # None,
         Target(h) \notin raced
  PROVE  /\ Target(h) \in Path
         /\ ~linked(fs[Target(h)]) /\ ~Raises(fs[Target(h)])
         /\ Changed(h) = transform(fs[Target(h)], Verb(Head(todo[h])))
<1> DEFINE c == Head(todo[h])
<1>1. todo[h] # <<>>
  BY DEF Inv, HasWork, Applying, Staged
<1>2. /\ c \in Change /\ Proper(c)
      /\ Target(h) \in Path
      /\ Target(h) = c.path /\ Original(h) = c.original /\ Changed(h) = c.changed
  BY <1>1, PlanParts, TailProper
     DEF Inv, Planned, TypeOK, Target, Original, Changed
<1>3. CASE Original(h) = None
  <2>1. fs[Target(h)] = None
    <3>1. pc[h] # "unlink"
      BY <1>2, <1>3 DEF Inv, Planned, Proper
    <3> QED BY <1>3, <3>1
  <2> QED BY <1>2, <1>3, <2>1 DEF Proper
<1>4. CASE Original(h) # None
  <2>1. Current(c, fs[Target(h)])
    BY <1>2, <1>4 DEF Inv, PlanStaysCurrent, Exposed
  <2> QED BY <1>2, <2>1 DEF Current
<1> QED BY <1>3, <1>4

\* A run's action is one of the two.
LEMMA VerbIsAction == \A c : Verb(c) \in Action
BY DEF Verb, Action

\* Every step of Activation is a step of AtomicFiles or leaves it alone.
LEMMA StepIsAtomic == Inv /\ [Next]_vars => [Files!Next]_(Files!vars)
<1> SUFFICES ASSUME Inv, [Next]_vars PROVE [Files!Next]_(Files!vars)
  OBVIOUS
<1>1. ASSUME UNCHANGED <<fs, saved, raced, edits>>
      PROVE  [Files!Next]_(Files!vars)
  BY <1>1 DEF Files!vars
<1>2. ASSUME NEW h \in Helper, UNCHANGED <<saved, raced, edits>>,
             fs' = [fs EXCEPT ![Target(h)] = Changed(h)],
             \/ pc[h] = "publish" /\ ~(Original(h) = None /\ fs[Target(h)] # None)
             \/ pc[h] = "unlink"  /\ fs[Target(h)] # None
      PROVE  [Files!Next]_(Files!vars)
  <2>1. Target(h) \in Path /\ Changed(h) \in File
    BY <1>2, PlanParts DEF Inv, HasWork, Applying, Staged
  <2>2. CASE Target(h) \in raced
    <3>1. Files!StaleCopyWins(Target(h))
      BY <1>2, <2>1, <2>2, SameOperators DEF Files!StaleCopyWins
    <3> QED BY <2>1, <3>1 DEF Files!Next
  <2>3. CASE Target(h) \notin raced
    <3>1. /\ ~linked(fs[Target(h)]) /\ ~Raises(fs[Target(h)])
          /\ Changed(h) = transform(fs[Target(h)], Verb(Head(todo[h])))
      BY <1>2, <2>3, WriteTransforms
    <3>2. Files!HelperTransforms(Target(h))
      BY <1>2, <3>1, SameOperators, VerbIsAction DEF Files!HelperTransforms
    <3> QED BY <2>1, <3>2 DEF Files!Next
  <2> QED BY <2>2, <2>3
<1>3. ASSUME NEW h \in Helper, UnlinkTarget(h) PROVE [Files!Next]_(Files!vars)
  <2>1. CASE fs[Target(h)] = None
    BY <1>1, <1>3, <2>1 DEF UnlinkTarget, ownerVars
  <2>2. CASE fs[Target(h)] # None
    <3>1. Changed(h) = None
      BY <1>3 DEF UnlinkTarget, Inv, Planned
    <3> QED BY <1>2, <1>3, <2>2, <3>1 DEF UnlinkTarget, ownerVars
  <2> QED BY <2>1, <2>2
<1>4. ASSUME NEW h \in Helper, Publish(h) PROVE [Files!Next]_(Files!vars)
  BY <1>1, <1>2, <1>4 DEF Publish, ownerVars
<1>5. ASSUME NEW h \in Helper,
             \/ Start(h) \/ Resolve(h) \/ PlanFile(h) \/ PlanDone(h)
             \/ CheckTarget(h) \/ OpenStaged(h) \/ WriteStaged(h) \/ Recheck(h)
             \/ Cleanup(h) \/ Unwind(h) \/ Fault(h)
      PROVE  [Files!Next]_(Files!vars)
  BY <1>1, <1>5
     DEF Start, Resolve, PlanFile, PlanDone, CheckTarget, OpenStaged,
         WriteStaged, Recheck, Cleanup, Unwind, Fault, OSFails, Cancel, Kill,
         fileVars, ownerVars
<1>6. ASSUME NEW p \in Path, OwnerSaves(p) PROVE [Files!Next]_(Files!vars)
  <2>1. PICK f \in Saves \cup {None} :
          /\ fs' = [fs EXCEPT ![p] = f]
          /\ saved' = [saved EXCEPT ![p] = OwnerPart(f)]
    BY <1>6 DEF OwnerSaves
  <2>2. f \in File
    BY ConstantsAssumption DEF File
  <2>3. raced' \in {raced \cup {p}, raced \ {p}} /\ edits' = edits + 1
    BY <1>6 DEF OwnerSaves, Mark
  <2>4. Files!OwnerSaves(p)
    BY <2>1, <2>2, <2>3, SameOperators DEF Files!OwnerSaves
  <2> QED BY <2>4 DEF Files!Next
<1>7. CASE UNCHANGED vars
  BY <1>1, <1>7 DEF vars
<1> QED BY <1>3, <1>4, <1>5, <1>6, <1>7 DEF Next, HelperStep

\* The last look at a file finds it as it was planned on.
LEMMA UnchangedIsCurrent ==
  ASSUME NEW c \in Change, Proper(c), NEW f \in File, unchanged(f, c.original)
  PROVE  Current(c, f)
<1>1. f = c.original
  BY DEF unchanged, SameBytes, Proper, linked, Change, File, Content
<1> QED BY <1>1, OriginalIsCurrent

\* Every step keeps the planned writes current.
LEMMA StepCurrent == Inv /\ [Next]_vars => PlanStaysCurrent'
<1> SUFFICES ASSUME Inv, [Next]_vars, NEW g \in Helper, NEW p \in Path \ raced',
                    Exposed(g, p)'
             PROVE  Current(Head(todo[g])', fs'[p])
  BY DEF PlanStaysCurrent
<1> DEFINE c == Head(todo[g])
<1> USE DEF Inv
<1>1. pc'[g] \in {"publish", "unlink"} /\ Target(g)' = p /\ Original(g)' # None
  BY DEF Exposed
<1>2. ASSUME UNCHANGED <<pc[g], todo[g]>>, p \notin raced
      PROVE  /\ c \in Change /\ Proper(c) /\ c.original # None
             /\ Current(c, fs[p]) /\ Head(todo[g])' = c
  <2>1. Exposed(g, p) /\ Head(todo[g])' = c
    BY <1>1, <1>2 DEF Exposed, Target, Original
  <2>2. todo[g] # <<>>
    BY <2>1 DEF Exposed, HasWork, Applying, Staged
  <2>3. c \in Change /\ Proper(c)
    BY <2>2, PlanParts, TailProper DEF Planned, TypeOK
  <2> QED BY <1>2, <2>1, <2>3 DEF PlanStaysCurrent, Exposed, Original
<1>3. ASSUME UNCHANGED <<pc[g], todo[g], raced>>, fs'[p] = fs[p]
      PROVE  Current(Head(todo[g])', fs'[p])
  BY <1>2, <1>3
<1>4. ASSUME NEW h \in Helper, UNCHANGED <<pc[g], todo[g], raced>>,
             fs' = [fs EXCEPT ![Target(h)] = Changed(h)],
             \/ pc[h] = "publish" /\ ~(Original(h) = None /\ fs[Target(h)] # None)
             \/ pc[h] = "unlink"  /\ fs[Target(h)] # None
      PROVE  Current(Head(todo[g])', fs'[p])
  <2>1. CASE Target(h) # p
    BY <1>3, <1>4, <2>1 DEF TypeOK
  <2>2. CASE Target(h) = p
    <3>1. fs'[p] = transform(fs[p], Verb(Head(todo[h])))
      BY <1>4, <2>2, WriteTransforms DEF TypeOK
    <3>2. fs[p] \in File
      BY DEF TypeOK
    <3>3. Current(c, fs'[p])
      BY <1>2, <1>4, <3>1, <3>2, VerbIsAction, TransformKeepsCurrent
    <3> QED BY <1>2, <1>4, <3>3
  <2> QED BY <2>1, <2>2
<1>5. ASSUME UNCHANGED <<fs, todo>>, unchanged(fs[Target(g)], Original(g)),
             pc[g] \in {"check", "recheck"}
      PROVE  Current(Head(todo[g])', fs'[p])
  <2>1. todo[g] # <<>>
    BY <1>5 DEF HasWork, Applying, Staged
  <2>2. c \in Change /\ Proper(c) /\ Head(todo[g])' = c
    BY <1>5, <2>1, PlanParts, TailProper DEF Planned, TypeOK
  <2>3. Target(g) = p /\ Original(g) = c.original
    BY <1>1, <1>5 DEF Target, Original
  <2>4. fs[p] \in File
    BY DEF TypeOK
  <2> QED BY <1>5, <2>2, <2>3, <2>4, UnchangedIsCurrent
<1> USE DEF Goto, Abort, fileVars, ownerVars
<1>6. ASSUME NEW h \in Helper,
             \/ Start(h) \/ Resolve(h) \/ PlanFile(h) \/ PlanDone(h)
             \/ OpenStaged(h) \/ WriteStaged(h) \/ Cleanup(h) \/ Unwind(h)
             \/ Fault(h)
      PROVE  Current(Head(todo[g])', fs'[p])
  <2>1. UNCHANGED <<fs, raced>>
    BY <1>6 DEF Start, Resolve, PlanFile, PlanDone, OpenStaged, WriteStaged,
                Cleanup, Unwind, Fault, OSFails, Cancel, Kill
  <2>2. h # g
    BY <1>1, <1>6 DEF Start, Resolve, PlanFile, PlanDone, OpenStaged,
                WriteStaged, Cleanup, Unwind, Fault, OSFails, Cancel, Kill,
                NextChange, TypeOK, Staged, Ended
  <2>3. UNCHANGED <<pc[g], todo[g]>>
    BY <1>6, <2>2 DEF Start, Resolve, PlanFile, PlanDone, OpenStaged,
                WriteStaged, Cleanup, Unwind, Fault, OSFails, Cancel, Kill,
                NextChange, TypeOK
  <2> QED BY <1>3, <2>1, <2>3
<1>7. ASSUME NEW h \in Helper, CheckTarget(h)
      PROVE  Current(Head(todo[g])', fs'[p])
  <2>1. CASE h # g
    BY <1>3, <1>7, <2>1 DEF CheckTarget, TypeOK
  <2>2. CASE h = g
    <3>1. unchanged(fs[Target(g)], Original(g)) /\ UNCHANGED <<fs, todo>>
      BY <1>1, <1>7, <2>2 DEF CheckTarget, TypeOK
    <3> QED BY <1>5, <1>7, <2>2, <3>1 DEF CheckTarget
  <2> QED BY <2>1, <2>2
<1>8. ASSUME NEW h \in Helper, Recheck(h)
      PROVE  Current(Head(todo[g])', fs'[p])
  <2>1. CASE h # g
    BY <1>3, <1>8, <2>1 DEF Recheck, TypeOK
  <2>2. CASE h = g
    <3>1. unchanged(fs[Target(g)], Original(g)) /\ UNCHANGED <<fs, todo>>
      BY <1>1, <1>8, <2>2 DEF Recheck, TypeOK
    <3> QED BY <1>5, <1>8, <2>2, <3>1 DEF Recheck
  <2> QED BY <2>1, <2>2
<1>9. ASSUME NEW h \in Helper, Publish(h)
      PROVE  Current(Head(todo[g])', fs'[p])
  <2>1. h # g
    BY <1>1, <1>9 DEF Publish, TypeOK
  <2>2. UNCHANGED <<pc[g], todo[g], raced>>
    BY <1>9, <2>1 DEF Publish, TypeOK
  <2> QED BY <1>3, <1>4, <1>9, <2>2 DEF Publish
<1>10. ASSUME NEW h \in Helper, UnlinkTarget(h)
       PROVE  Current(Head(todo[g])', fs'[p])
  <2>1. h # g
    BY <1>1, <1>10 DEF UnlinkTarget, NextChange, TypeOK
  <2>2. UNCHANGED <<pc[g], todo[g], raced>>
    BY <1>10, <2>1 DEF UnlinkTarget, NextChange, TypeOK
  <2>3. Changed(h) = None
    BY <1>10 DEF UnlinkTarget, Planned
  <2> QED BY <1>3, <1>4, <1>10, <2>2, <2>3 DEF UnlinkTarget
<1>11. ASSUME NEW q \in Path, OwnerSaves(q)
       PROVE  Current(Head(todo[g])', fs'[p])
  <2>1. UNCHANGED <<pc, todo>>
    BY <1>11 DEF OwnerSaves, runVars
  <2>2. q # p
    BY <1>1, <1>11, <2>1 DEF OwnerSaves, Mark, Exposed, Target, Original
  <2>3. p \notin raced
    BY <1>11, <2>2 DEF OwnerSaves, Mark
  <2>4. fs'[p] = fs[p]
    BY <1>11, <2>2 DEF OwnerSaves, TypeOK
  <2> QED BY <1>2, <2>1, <2>3, <2>4
<1>12. CASE UNCHANGED vars
  BY <1>3, <1>12 DEF vars
<1> QED BY <1>6, <1>7, <1>8, <1>9, <1>10, <1>11, <1>12 DEF Next, HelperStep

---------------------------------------------------------------------------
(* The theorems.                                                           *)

\* Until it has passed its last look no run is about to write anything.
LEMMA InitInv == Init => Inv
<1> SUFFICES ASSUME Init PROVE Inv
  OBVIOUS
<1>1. TypeOK /\ HasWork
  BY InitTyped
<1>2. Planned /\ PlanStaysCurrent
  BY NoPlanProper DEF Init, Planned, PlanStaysCurrent, Exposed
<1> QED BY <1>1, <1>2 DEF Inv

\* Inv is inductive.
LEMMA StepInv == Inv /\ [Next]_vars => Inv'
BY StepTyped, StepPlanned, StepCurrent DEF Inv

\* In every reachable state the bytes a run is about to write over a file are
\* what its action makes of that file as it is now, whatever other runs did
\* since the run looked at it, unless the owner's last save raced with it.
THEOREM PlansStayCurrent == Spec => []PlanStaysCurrent
<1>1. Inv => PlanStaysCurrent
  BY DEF Inv
<1> QED BY <1>1, InitInv, StepInv, PTL DEF Spec

\* However many runs interleave, fail or die, each write is one install or
\* remove on the file as it is: Activation implements AtomicFiles.
THEOREM AtomicPublication == Spec => AtomicPublish
<1>1. Init => Files!Init
  <2> SUFFICES ASSUME Init PROVE Files!Init
    OBVIOUS
  <2>1. fs \in [Path -> File]
    BY InitTyped DEF TypeOK
  <2> QED BY <2>1, SameOperators DEF Init, Files!Init
<1> QED BY <1>1, InitInv, StepInv, StepIsAtomic, PTL
        DEF Spec, AtomicPublish, Files!Spec

\* The owner's text and links are never lost, replaced or followed, but for a
\* save that falls between a run's last look at the file and its write.
THEOREM OwnerIsKept == Spec => []OwnerKept
<1>1. Init => OwnerKept
  BY DEF Init, OwnerKept
<1>2. Inv /\ OwnerKept /\ [Files!Next]_(Files!vars) => OwnerKept'
  <2> SUFFICES ASSUME Inv, OwnerKept, [Files!Next]_(Files!vars),
                      NEW q \in Path \ raced'
               PROVE  OwnerPart(fs'[q]) = saved'[q]
    BY DEF OwnerKept
  <2> USE SameOperators DEF Inv, TypeOK, OwnerKept
  <2>1. ASSUME NEW p \in Path, Files!OwnerSaves(p)
        PROVE  OwnerPart(fs'[q]) = saved'[q]
    <3>1. PICK f \in File : /\ fs' = [fs EXCEPT ![p] = f]
                            /\ saved' = [saved EXCEPT ![p] = OwnerPart(f)]
                            /\ raced' \in {raced \cup {p}, raced \ {p}}
      BY <2>1 DEF Files!OwnerSaves
    <3> QED BY <3>1
  <2>2. ASSUME NEW p \in Path, Files!HelperTransforms(p)
        PROVE  OwnerPart(fs'[q]) = saved'[q]
    <3>1. PICK a \in Action : fs' = [fs EXCEPT ![p] = transform(fs[p], a)]
      BY <2>2 DEF Files!HelperTransforms
    <3>2. ~linked(fs[p]) /\ UNCHANGED <<saved, raced>> /\ fs[p] \in File
      BY <2>2 DEF Files!HelperTransforms
    <3> QED BY <3>1, <3>2, TransformKeepsOwner
  <2>3. ASSUME NEW p \in Path, Files!StaleCopyWins(p)
        PROVE  OwnerPart(fs'[q]) = saved'[q]
    BY <2>3 DEF Files!StaleCopyWins
  <2>4. CASE UNCHANGED Files!vars
    BY <2>4 DEF Files!vars
  <2> QED BY <2>1, <2>2, <2>3, <2>4 DEF Files!Next
<1> QED BY <1>1, <1>2, InitInv, StepInv, StepIsAtomic, PTL DEF Spec

\* For every set of runs and any number of faults, what leaves a staged file in the
\* directory with no run inside atomic_write is a kill, or a fault where the finally
\* clause does not help.
THEOREM StagedFilesRemoved == Spec => StagedRemoved
<1> DEFINE Excused(h) == \/ Inside(h)'
                         \/ h \in temps /\ ~Inside(h)
                         \/ faults' # faults /\ (pc'[h] = "killed" \/ pc[h] \in Unguarded)
<1>1. ASSUME TypeOK, [Next]_vars PROVE [\A h \in temps' : Excused(h)]_vars
  <2> SUFFICES ASSUME NEW g \in temps' PROVE Excused(g)
    OBVIOUS
  <2> USE DEF TypeOK, Inside, Staged, Ended, Goto, Abort, NextChange
  <2>1. ASSUME NEW h \in Helper,
               \/ Start(h) \/ Resolve(h) \/ PlanFile(h) \/ PlanDone(h)
               \/ CheckTarget(h) \/ UnlinkTarget(h)
        PROVE  Excused(g)
    BY <1>1, <2>1 DEF Start, Resolve, PlanFile, PlanDone, CheckTarget, UnlinkTarget
  <2>2. ASSUME NEW h \in Helper,
               \/ OpenStaged(h) \/ WriteStaged(h) \/ Recheck(h)
               \/ Publish(h) \/ Cleanup(h) \/ Unwind(h)
        PROVE  Excused(g)
    BY <1>1, <2>2 DEF OpenStaged, WriteStaged, Recheck, Publish, Cleanup, Unwind
  <2>3. ASSUME NEW h \in Helper, Fault(h) PROVE Excused(g)
    <3>1. g \in temps /\ faults' = faults + 1 /\ faults \in Nat
      BY <1>1, <2>3 DEF Fault, OSFails, Cancel, Kill, Strikes
    <3>2. faults' # faults
      BY <3>1
    <3>3. CASE Kill(h)
      BY <1>1, <3>1, <3>2, <3>3 DEF Kill
    <3>4. CASE OSFails(h) \/ Cancel(h)
      BY <1>1, <3>1, <3>2, <3>4 DEF OSFails, Cancel, Unguarded
    <3> QED BY <2>3, <3>3, <3>4 DEF Fault
  <2>4. ASSUME NEW p \in Path, OwnerSaves(p) PROVE Excused(g)
    BY <1>1, <2>4 DEF OwnerSaves, runVars
  <2>5. CASE UNCHANGED vars
    BY <1>1, <2>5 DEF vars
  <2> QED BY <1>1, <2>1, <2>2, <2>3, <2>4, <2>5 DEF Next, HelperStep
<1> QED BY <1>1, TypeCorrect, PTL DEF Spec, StagedRemoved

---------------------------------------------------------------------------
(* The mode.  What a run staged has the mode of the file it replaces: a    *)
(* file that was deleted since, even if another run made it anew, is not   *)
(* one that a planned write still fits.                                    *)

\* The file that install makes where there is none.
Born == [own |-> Empty, blk |-> "created", link |-> FALSE]

Written == \A h \in Helper : pc[h] \in Staged \cup {"stage"} => Changed(h) # None

ModeCurrent ==
  \A h \in Helper : \A p \in Path \ (modeRaced \cup raced) :
    ModeStaged(h, p) /\ fs[p] \notin {None, Born} => smode[h] = mode[p]

\* No write over an existing file fits a file that is not there, or one that a run
\* made where there was none.
LEMMA NothingIsNotCurrent ==
  ASSUME NEW c \in Change, Proper(c), c.changed # None
  PROVE  /\ c.original = None => c.changed = Born
         /\ c.original # None => ~Current(c, None) /\ ~Current(c, Born)
BY NoneAssumption
   DEF Current, Proper, Verb, transform, InstallBlock, RemoveBlock, HasBlock,
       Raises, linked, Change, File, Content, Action, BlockState, Born

LEMMA StepWritten == Inv /\ Written /\ [Next]_vars => Written'
<1> SUFFICES ASSUME Inv, Written, [Next]_vars, NEW g \in Helper,
                    pc'[g] \in Staged \cup {"stage"}
             PROVE  Changed(g)' # None
  BY DEF Written
<1> USE DEF Inv, Written, Staged, Ended, Goto, Abort, NextChange
<1>1. ASSUME pc[g] \in Staged \cup {"stage"}, UNCHANGED todo[g] PROVE Changed(g)' # None
  BY <1>1 DEF Changed
<1>2. ASSUME NEW h \in Helper, CheckTarget(h) PROVE Changed(g)' # None
  BY <1>1, <1>2 DEF CheckTarget, TypeOK, Changed
<1>3. ASSUME NEW h \in Helper,
             \/ Start(h) \/ Resolve(h) \/ PlanFile(h) \/ PlanDone(h)
             \/ UnlinkTarget(h) \/ OpenStaged(h) \/ WriteStaged(h) \/ Recheck(h)
             \/ Publish(h) \/ Cleanup(h) \/ Unwind(h)
      PROVE  Changed(g)' # None
  BY <1>1, <1>3 DEF Start, Resolve, PlanFile, PlanDone, UnlinkTarget, OpenStaged,
     WriteStaged, Recheck, Publish, Cleanup, Unwind, TypeOK
<1>4. ASSUME NEW h \in Helper, Fault(h) PROVE Changed(g)' # None
  BY <1>1, <1>4 DEF Fault, OSFails, Cancel, Kill, TypeOK
<1>5. ASSUME NEW p \in Path, OwnerSaves(p) PROVE Changed(g)' # None
  BY <1>1, <1>5 DEF OwnerSaves, runVars
<1>6. CASE UNCHANGED vars
  BY <1>1, <1>6 DEF vars
<1> QED BY <1>2, <1>3, <1>4, <1>5, <1>6 DEF Next, HelperStep

\* What a run replaces has the mode the run staged, and is no new file.
LEMMA ReplacedMode ==
  ASSUME Inv, Written, ModeCurrent, NEW h \in Helper, pc[h] = "publish",
         Original(h) # None, Target(h) \notin modeRaced \cup raced
  PROVE  fs[Target(h)] \notin {None, Born} /\ smode[h] = mode[Target(h)]
<1> DEFINE c == Head(todo[h])
<1>1. todo[h] # <<>>
  BY DEF Inv, HasWork, Applying, Staged
<1>2. /\ c \in Change /\ Proper(c) /\ Target(h) \in Path
      /\ Original(h) = c.original /\ Changed(h) = c.changed
  BY <1>1, PlanParts, TailProper
     DEF Inv, Planned, TypeOK, Target, Original, Changed
<1>3. c.changed # None
  BY <1>2 DEF Written, Staged
<1>4. Current(c, fs[Target(h)])
  BY <1>2 DEF Inv, PlanStaysCurrent, Exposed
<1>5. fs[Target(h)] \notin {None, Born}
  BY <1>2, <1>3, <1>4, NothingIsNotCurrent
<1> QED BY <1>2, <1>5 DEF ModeCurrent, ModeStaged

\* What a run makes where there was no file.
LEMMA CreatedFile ==
  ASSUME Inv, Written, NEW h \in Helper, pc[h] = "publish", Original(h) = None
  PROVE  Changed(h) = Born
<1> DEFINE c == Head(todo[h])
<1>1. todo[h] # <<>>
  BY DEF Inv, HasWork, Applying, Staged
<1>2. /\ c \in Change /\ Proper(c)
      /\ Original(h) = c.original /\ Changed(h) = c.changed
  BY <1>1, PlanParts, TailProper
     DEF Inv, Planned, TypeOK, Original, Changed
<1> QED BY <1>2, NothingIsNotCurrent DEF Written, Staged

LEMMA StepModes == Inv /\ Written /\ ModeCurrent /\ [Next]_vars => ModeCurrent'
<1> SUFFICES ASSUME Inv, Written, ModeCurrent, [Next]_vars, NEW g \in Helper,
                    NEW p \in Path \ (modeRaced' \cup raced'), ModeStaged(g, p)',
                    fs'[p] \notin {None, Born}
             PROVE  smode'[g] = mode'[p]
  BY DEF ModeCurrent
<1>1. pc'[g] \in {"recheck", "publish"} /\ Target(g)' = p /\ Original(g)' # None
  BY DEF ModeStaged
<1>2. ASSUME pc[g] \in {"recheck", "publish"}, UNCHANGED <<todo[g], smode[g]>>,
             p \notin modeRaced \cup raced
      PROVE  ModeStaged(g, p) /\ (fs[p] \notin {None, Born} => smode'[g] = mode[p])
  BY <1>1, <1>2 DEF ModeStaged, Target, Original, ModeCurrent
<1>3. ASSUME pc[g] \in {"recheck", "publish"}, UNCHANGED <<todo[g], smode[g]>>,
             p \notin modeRaced \cup raced, fs'[p] = fs[p], mode'[p] = mode[p]
      PROVE  smode'[g] = mode'[p]
  BY <1>2, <1>3
<1> USE DEF Goto, Abort, NextChange, fileVars, ownerVars, Staged, Ended
<1>4. ASSUME NEW h \in Helper,
             \/ Start(h) \/ Resolve(h) \/ PlanFile(h) \/ PlanDone(h)
             \/ CheckTarget(h) \/ OpenStaged(h) \/ Recheck(h) \/ Cleanup(h)
             \/ Unwind(h)
      PROVE  smode'[g] = mode'[p]
  <2>1. /\ UNCHANGED <<fs, mode, smode, raced, modeRaced, todo[g]>>
        /\ pc[g] \in {"recheck", "publish"}
    BY <1>1, <1>4 DEF Start, Resolve, PlanFile, PlanDone, CheckTarget, OpenStaged,
                      Recheck, Cleanup, Unwind, Inv, TypeOK
  <2> QED BY <1>3, <2>1
<1>5. ASSUME NEW h \in Helper, Fault(h) PROVE smode'[g] = mode'[p]
  <2>1. /\ UNCHANGED <<fs, mode, smode, raced, modeRaced, todo[g]>>
        /\ pc[g] \in {"recheck", "publish"}
    BY <1>1, <1>5 DEF Fault, OSFails, Cancel, Kill, Inv, TypeOK
  <2> QED BY <1>3, <2>1
<1>6. ASSUME NEW h \in Helper, WriteStaged(h) PROVE smode'[g] = mode'[p]
  <2>1. CASE h = g
    <3>1. Target(g) = p /\ Original(g) # None /\ UNCHANGED mode
      BY <1>1, <1>6, <2>1 DEF WriteStaged, Target, Original
    <3> QED BY <1>1, <1>6, <2>1, <3>1 DEF WriteStaged, Inv, TypeOK
  <2>2. CASE h # g
    <3>1. /\ UNCHANGED <<fs, mode, smode[g], raced, modeRaced, todo[g]>>
          /\ pc[g] \in {"recheck", "publish"}
      BY <1>1, <1>6, <2>2 DEF WriteStaged, Inv, TypeOK
    <3> QED BY <1>3, <3>1
  <2> QED BY <2>1, <2>2
<1>7. ASSUME NEW h \in Helper, Publish(h) PROVE smode'[g] = mode'[p]
  <2>1. /\ UNCHANGED <<smode, raced, modeRaced, todo>>
        /\ pc[g] \in {"recheck", "publish"} /\ pc[h] = "publish"
    BY <1>1, <1>7 DEF Publish, Inv, TypeOK
  <2>2. CASE UNCHANGED <<fs[p], mode[p]>>
    BY <1>3, <2>1, <2>2
  <2>3. CASE /\ Target(h) = p /\ ~(Original(h) = None /\ fs[p] # None)
             /\ fs' = [fs EXCEPT ![p] = Changed(h)]
             /\ mode' = [mode EXCEPT ![p] = smode[h]]
    <3>1. fs'[p] = Changed(h) /\ mode'[p] = smode[h]
      BY <2>3 DEF Inv, TypeOK
    <3>2. Original(h) # None
      BY <2>1, <3>1, CreatedFile
    <3>3. fs[p] \notin {None, Born} /\ smode[h] = mode[p]
      BY <2>1, <2>3, <3>2, ReplacedMode
    <3> QED BY <1>2, <2>1, <3>1, <3>3
  <2> QED BY <1>7, <2>2, <2>3 DEF Publish, Inv, TypeOK
<1>8. ASSUME NEW h \in Helper, UnlinkTarget(h) PROVE smode'[g] = mode'[p]
  <2>1. /\ UNCHANGED <<mode, smode, raced, modeRaced, todo[g]>>
        /\ pc[g] \in {"recheck", "publish"}
    BY <1>1, <1>8 DEF UnlinkTarget, Inv, TypeOK
  <2>2. fs'[p] = fs[p]
    BY <1>8 DEF UnlinkTarget, Inv, TypeOK
  <2> QED BY <1>3, <2>1, <2>2
<1>9. ASSUME NEW q \in Path, OwnerSaves(q) PROVE smode'[g] = mode'[p]
  <2>1. UNCHANGED <<pc, todo, smode>>
    BY <1>9 DEF OwnerSaves, runVars
  <2>2. ModeStaged(g, p) /\ pc[g] \in {"recheck", "publish"}
    BY <1>1, <2>1 DEF ModeStaged, Target, Original
  <2>3. q # p
    BY <1>9, <2>2 DEF OwnerSaves, Mark
  <2>4. p \notin modeRaced \cup raced /\ fs'[p] = fs[p] /\ mode'[p] = mode[p]
    BY <1>9, <2>3 DEF OwnerSaves, Mark, Inv, TypeOK
  <2> QED BY <1>3, <2>1, <2>2, <2>4
<1>10. CASE UNCHANGED vars
  BY <1>1, <1>3, <1>10 DEF vars
<1> QED BY <1>4, <1>5, <1>6, <1>7, <1>8, <1>9, <1>10 DEF Next, HelperStep

\* Whatever runs, fails or is killed meanwhile, a write gives the new file the mode
\* the old one has, unless the owner changed the file since target.stat().
THEOREM ModesAreKept == Spec => ModeKept
<1> DEFINE Kept == \A p \in Path \ (modeRaced \cup raced) :
                     edits' = edits /\ fs[p] # None /\ fs'[p] # None
                       => mode'[p] = mode[p]
<1>1. Init => Written /\ ModeCurrent
  BY DEF Init, Written, ModeCurrent, ModeStaged, Staged
<1>2. Inv /\ Written /\ ModeCurrent /\ [Next]_vars => [Kept]_vars
  <2> SUFFICES ASSUME Inv, Written, ModeCurrent, Next,
                      NEW p \in Path \ (modeRaced \cup raced),
                      edits' = edits, fs[p] # None, fs'[p] # None
               PROVE  mode'[p] = mode[p]
    OBVIOUS
  <2>1. ASSUME NEW q \in Path, OwnerSaves(q) PROVE mode'[p] = mode[p]
    BY <2>1 DEF OwnerSaves, Inv, TypeOK
  <2>2. ASSUME NEW h \in Helper, Publish(h) PROVE mode'[p] = mode[p]
    <3>1. CASE UNCHANGED mode \/ Target(h) # p
      BY <2>2, <3>1 DEF Publish, Inv, TypeOK
    <3>2. CASE ~UNCHANGED mode /\ Target(h) = p
      <4>1. /\ pc[h] = "publish" /\ Original(h) # None
            /\ mode' = [mode EXCEPT ![p] = smode[h]]
        BY <2>2, <3>2 DEF Publish
      <4>2. smode[h] = mode[p]
        BY <3>2, <4>1, ReplacedMode
      <4> QED BY <4>1, <4>2 DEF Inv, TypeOK
    <3> QED BY <3>1, <3>2
  <2>3. ASSUME NEW h \in Helper,
               \/ Start(h) \/ Resolve(h) \/ PlanFile(h) \/ PlanDone(h)
               \/ CheckTarget(h) \/ UnlinkTarget(h) \/ OpenStaged(h) \/ WriteStaged(h)
               \/ Recheck(h) \/ Cleanup(h) \/ Unwind(h) \/ Fault(h)
        PROVE  mode'[p] = mode[p]
    BY <2>3 DEF Start, Resolve, PlanFile, PlanDone, CheckTarget, UnlinkTarget,
       OpenStaged, WriteStaged, Recheck, Cleanup, Unwind, Fault, OSFails, Cancel, Kill,
       fileVars
  <2> QED BY <2>1, <2>2, <2>3 DEF Next, HelperStep
<1>3. Inv /\ Written /\ ModeCurrent /\ [Next]_vars => (Inv /\ Written /\ ModeCurrent)'
  BY StepInv, StepWritten, StepModes
<1> QED BY <1>1, <1>2, <1>3, InitInv, PTL DEF Spec, ModeKept

---------------------------------------------------------------------------
(* Runs of one action, without edits.  The file the host reads first stays *)
(* the same while runs install, blocks come only to it, and no run takes a *)
(* copy away before it has seen one there.                                 *)

Common(action) == \A h \in Helper : cmd[h].action = action

\* The runs take the block out of p, if it is there.
Off(p) == Common("remove") \/ p # effective(fs)

\* A change that does at its path what the runs do there.
Sorted ==
  {c \in Change :
     /\ HasBlock(c.changed) <=> ~Off(c.path)
     /\ Host = "codex" /\ Common("install") /\ effective(fs) = Primary
          => c.path = Primary}

PlannedFor(s, p) == \E i \in 1 .. Len(s) : s[i].path = p

Working == Applying \cup {"plan"}

\* The file read first has the block, or is what the run takes up next.
Ready(h) ==
  \/ HasBlock(fs[effective(fs)])
  \/ pc[h] = "plan" /\ effective(fs) \in cands[h] /\ todo[h] = <<>>
  \/ todo[h] # <<>> /\ Target(h) = effective(fs)

\* A copy the run is to take away is still before it.
Cleared(h, p) ==
  HasBlock(fs[p]) => linked(fs[p]) \/ p \in cands[h] \/ PlannedFor(todo[h], p)

SettlingAt(h) ==
  /\ todo[h] \in Seq(Sorted)
  /\ pc[h] \in Working =>
       /\ Common("install") => eff[h] = effective(fs) /\ Ready(h)
       /\ \A p \in Path : Off(p) => Cleared(h, p)
       /\ pc[h] # "plan" => cands[h] = {}
       /\ pc[h] = "cleanup" => (HasBlock(fs[Target(h)]) <=> ~Off(Target(h)))
  /\ pc[h] = "done" /\ cmd[h].apply =>
       /\ Common("install") => HasBlock(fs[effective(fs)])
       /\ \A p \in Path : Off(p) /\ HasBlock(fs[p]) => linked(fs[p])

Settling ==
  /\ Common("install") \/ Common("remove")
  /\ \A h \in Helper : SettlingAt(h)

\* A step that brings no copy back and takes away none that stays.
Quiet ==
  /\ Common("install") => effective(fs') = effective(fs)
  /\ \A p \in Path : Off(p) /\ HasBlock(fs'[p]) => HasBlock(fs[p]) /\ fs'[p] = fs[p]
  /\ \A p \in Path : ~Off(p) /\ HasBlock(fs[p]) => HasBlock(fs'[p])

LEMMA InitSettling == Init => Settling
<1> SUFFICES ASSUME Init PROVE Settling
  OBVIOUS
<1>1. PICK c \in Commands : cmd = [h \in Helper |-> c]
  BY DEF Init
<1>2. c.action \in Action
  BY ConstantsAssumption
<1>3. Common("install") \/ Common("remove")
  BY <1>1, <1>2 DEF Common, Action
<1>4. ASSUME NEW h \in Helper PROVE SettlingAt(h)
  <2>1. todo[h] = <<>> /\ pc[h] = "idle"
    BY DEF Init
  <2>2. <<>> \in Seq(Sorted)
    BY EmptySeq
  <2> QED BY <2>1, <2>2 DEF SettlingAt, Working, Applying, Staged
<1> QED BY <1>3, <1>4 DEF Settling

LEMMA PlannedTail ==
  ASSUME NEW s \in Seq(Change), s # <<>>, NEW p, PlannedFor(s, p), p # Head(s).path
  PROVE  PlannedFor(Tail(s), p)
<1>1. PICK i \in 1 .. Len(s) : s[i].path = p
  BY DEF PlannedFor
<1>2. /\ Len(Tail(s)) = Len(s) - 1
      /\ \A j \in 1 .. Len(Tail(s)) : Tail(s)[j] = s[j + 1]
  BY HeadTailProperties
<1>3. Head(s) = s[1] /\ Len(s) \in Nat
  OBVIOUS
<1>4. i # 1
  BY <1>1, <1>3
<1>5. i - 1 \in 1 .. Len(Tail(s)) /\ (i - 1) + 1 = i
  BY <1>2, <1>3, <1>4
<1> QED BY <1>1, <1>2, <1>5 DEF PlannedFor

LEMMA PlannedAppend ==
  ASSUME NEW s \in Seq(Change), NEW c \in Change
  PROVE  /\ PlannedFor(Append(s, c), c.path)
         /\ \A p : PlannedFor(s, p) => PlannedFor(Append(s, c), p)
         /\ s # <<>> => Append(s, c) # <<>> /\ Head(Append(s, c)) = Head(s)
         /\ s = <<>> => Append(s, c) # <<>> /\ Head(Append(s, c)) = c
<1>1. /\ Len(Append(s, c)) = Len(s) + 1
      /\ \A i \in 1 .. Len(s) : Append(s, c)[i] = s[i]
      /\ Append(s, c)[Len(s) + 1] = c
  BY AppendProperties
<1>2. Len(s) \in Nat /\ (s # <<>> => Len(s) >= 1) /\ (s = <<>> => Len(s) = 0)
  OBVIOUS
<1>3. Append(s, c) \in Seq(Change) /\ Append(s, c) # <<>>
  BY AppendProperties
<1>4. Head(Append(s, c)) = Append(s, c)[1]
  BY <1>3
<1>5. s # <<>> => Head(s) = s[1]
  OBVIOUS
<1>6. PlannedFor(Append(s, c), c.path)
  BY <1>1, <1>2 DEF PlannedFor
<1>7. \A p : PlannedFor(s, p) => PlannedFor(Append(s, c), p)
  BY <1>1, <1>2 DEF PlannedFor
<1> QED BY <1>1, <1>2, <1>3, <1>4, <1>5, <1>6, <1>7

\* What is the same after a quiet step.
LEMMA QuietSame ==
  ASSUME Settling, Quiet, SameAction
  PROVE  /\ Common("install")' <=> Common("install")
         /\ Common("remove")' <=> Common("remove")
         /\ Common("install") => effective(fs)' = effective(fs)
         /\ \A p : Off(p)' <=> Off(p)
         /\ Sorted' = Sorted
<1>1. /\ Common("install")' <=> Common("install")
      /\ Common("remove")' <=> Common("remove")
  BY DEF SameAction, Common
<1>2. Common("install") => effective(fs)' = effective(fs)
  BY DEF Quiet
<1>3. \A p : Off(p)' <=> Off(p)
  BY <1>1, <1>2 DEF Off, Settling
<1>4. Sorted' = Sorted
  BY <1>1, <1>2, <1>3 DEF Sorted
<1> QED BY <1>1, <1>2, <1>3, <1>4

LEMMA SameIsQuiet == fs' = fs => Quiet
BY DEF Quiet

\* Where runs install, the file read first is not cleared.
LEMMA FirstStays ==
  ASSUME Settling, NEW h \in Helper, Common("install")
  PROVE  ~Common("remove") /\ ~Off(effective(fs))
BY DEF Common, Off

LEMMA EffectiveIsPath == \A f : effective(f) \in Path
BY ConstantsAssumption DEF effective, overrideRead, Override, Path

\* The head of a plan, and what it does at its path.
LEMMA HeadSorted ==
  ASSUME TypeOK, NEW h \in Helper, todo[h] # <<>>, todo[h] \in Seq(Sorted)
  PROVE  /\ Head(todo[h]) \in Sorted /\ Tail(todo[h]) \in Seq(Sorted)
         /\ Target(h) \in Path /\ (HasBlock(Changed(h)) <=> ~Off(Target(h)))
<1>1. Head(todo[h]) \in Sorted /\ Tail(todo[h]) \in Seq(Sorted)
  BY HeadTailProperties
<1> QED BY <1>1 DEF Sorted, Change, Target, Changed

\* A write is a quiet step.
LEMMA WriteIsQuiet ==
  ASSUME TypeOK, Settling, NEW h \in Helper, todo[h] # <<>>,
         fs' = [fs EXCEPT ![Target(h)] = Changed(h)]
  PROVE  Quiet /\ (HasBlock(fs'[Target(h)]) <=> ~Off(Target(h)))
<1> DEFINE t == Target(h)
<1>1. /\ t \in Path /\ (HasBlock(Changed(h)) <=> ~Off(t)) /\ Head(todo[h]) \in Sorted
  BY HeadSorted DEF Settling, SettlingAt
<1>2. fs'[t] = Changed(h) /\ \A p \in Path : p # t => fs'[p] = fs[p]
  BY <1>1 DEF TypeOK
<1>3. ASSUME Common("install") PROVE effective(fs') = effective(fs)
  <2>1. CASE Host # "codex"
    BY <2>1 DEF effective, overrideRead
  <2>2. CASE Host = "codex"
    <3>1. Override \in Path
      BY <2>2, ConstantsAssumption DEF Override, Path
    <3>2. CASE t # Override
      BY <1>2, <3>1, <3>2 DEF effective, overrideRead
    <3>3. CASE t = Override
      <4>1. effective(fs) = Override
        <5>1. effective(fs) = Primary => t = Primary
          BY <1>1, <1>3, <2>2 DEF Sorted, Target
        <5> QED BY <3>3, <5>1 DEF effective
      <4>2. HasBlock(fs'[Override])
        BY <1>1, <1>2, <1>3, <3>3, <4>1, FirstStays
      <4>3. overrideRead(fs')
        BY <2>2, <4>2 DEF overrideRead, nonempty, HasBlock
      <4> QED BY <4>1, <4>3 DEF effective
    <3> QED BY <3>2, <3>3
  <2> QED BY <2>1, <2>2
<1> QED BY <1>1, <1>2, <1>3 DEF Quiet

\* What other runs do leaves a run where it was.
LEMMA OthersSettle ==
  ASSUME TypeOK, HasWork, Settling, Quiet, SameAction, NEW g \in Helper,
         UNCHANGED <<pc[g], todo[g], cands[g], eff[g], cmd[g]>>
  PROVE  SettlingAt(g)'
<1>1. SettlingAt(g)
  BY DEF Settling
<1>2. todo'[g] \in Seq(Sorted')
  BY <1>1, QuietSame DEF SettlingAt
<1>3. Common("install") => Off(effective(fs)) = FALSE
  BY FirstStays
<1>4. ASSUME Common("install"), HasBlock(fs[effective(fs)])
      PROVE  HasBlock(fs'[effective(fs')])
  BY <1>3, <1>4, EffectiveIsPath DEF Quiet
<1>5. ASSUME pc'[g] \in Working
      PROVE  /\ Common("install")' => eff'[g] = effective(fs)' /\ Ready(g)'
             /\ \A p \in Path : Off(p)' => Cleared(g, p)'
             /\ pc'[g] # "plan" => cands'[g] = {}
             /\ pc'[g] = "cleanup" => (HasBlock(fs[Target(g)])' <=> ~Off(Target(g))')
  <2>1. pc[g] \in Working
    BY <1>5
  <2>2. Common("install")' => eff'[g] = effective(fs)' /\ Ready(g)'
    BY <1>1, <1>4, <2>1, QuietSame DEF SettlingAt, Ready, Target
  <2>3. \A p \in Path : Off(p)' => Cleared(g, p)'
    BY <1>1, <2>1, QuietSame DEF SettlingAt, Cleared, Quiet
  <2>4. pc'[g] # "plan" => cands'[g] = {}
    BY <1>1, <2>1 DEF SettlingAt
  <2>5. ASSUME pc'[g] = "cleanup"
        PROVE  HasBlock(fs[Target(g)])' <=> ~Off(Target(g))'
    <3>1. todo[g] # <<>>
      BY <2>5 DEF HasWork, Applying
    <3>2. Target(g) \in Path /\ Target(g)' = Target(g)
      BY <3>1, PlanParts DEF Target
    <3>3. HasBlock(fs[Target(g)]) <=> ~Off(Target(g))
      BY <1>1, <2>1, <2>5 DEF SettlingAt
    <3>4. HasBlock(fs'[Target(g)]) <=> ~Off(Target(g))
      BY <3>2, <3>3 DEF Quiet
    <3> QED BY <3>2, <3>4, QuietSame
  <2> QED BY <2>2, <2>3, <2>4, <2>5
<1>6. ASSUME pc'[g] = "done", cmd'[g].apply
      PROVE  /\ Common("install")' => HasBlock(fs[effective(fs)])'
             /\ \A p \in Path : Off(p)' /\ HasBlock(fs[p])' => linked(fs[p])'
  <2>1. /\ Common("install") => HasBlock(fs[effective(fs)])
        /\ \A p \in Path : Off(p) /\ HasBlock(fs[p]) => linked(fs[p])
    BY <1>1, <1>6 DEF SettlingAt
  <2> QED BY <1>4, <2>1, QuietSame DEF Quiet
<1> QED BY <1>2, <1>5, <1>6 DEF SettlingAt

\* A run that ends without success, or is yet to look.
LEMMA EndedSettles ==
  ASSUME Settling, Quiet, SameAction, NEW h \in Helper,
         todo'[h] \in {todo[h], <<>>}, pc'[h] \notin Working \cup {"done"}
  PROVE  SettlingAt(h)'
<1>1. todo[h] \in Seq(Sorted) /\ Sorted' = Sorted
  BY QuietSame DEF Settling, SettlingAt
<1>2. <<>> \in Seq(Sorted)
  BY EmptySeq
<1>3. todo'[h] \in Seq(Sorted')
  BY <1>1, <1>2
<1> QED BY <1>3 DEF SettlingAt

\* A run goes on with the same change, or has just taken up its plan.
LEMMA SameChangeSettles ==
  ASSUME Settling, SameAction, UNCHANGED fs, NEW h \in Helper,
         UNCHANGED <<todo[h], cands[h], eff[h], cmd[h]>>, pc[h] \in Working,
         pc'[h] \in Working \ {"plan", "cleanup"}, cands[h] = {},
         todo[h] # <<>>
  PROVE  SettlingAt(h)'
<1>1. SettlingAt(h) /\ Quiet
  BY SameIsQuiet DEF Settling
<1>2. todo'[h] \in Seq(Sorted')
  BY <1>1, QuietSame DEF SettlingAt
<1>3. Common("install")' => eff'[h] = effective(fs)' /\ Ready(h)'
  BY <1>1, QuietSame DEF SettlingAt, Ready, Target
<1>4. \A p \in Path : Off(p)' => Cleared(h, p)'
  BY <1>1, QuietSame DEF SettlingAt, Cleared
<1> QED BY <1>2, <1>3, <1>4 DEF SettlingAt, Working, Applying, Staged

\* A change is done: the file is as the runs want it.
LEMMA NextChangeSettles ==
  ASSUME TypeOK, Settling, Quiet, SameAction, NEW h \in Helper, todo[h] # <<>>,
         pc[h] \in {"unlink", "cleanup"}, NextChange(h),
         HasBlock(fs'[Target(h)]) <=> ~Off(Target(h)),
         UNCHANGED <<cands[h], eff[h], cmd[h]>>
  PROVE  SettlingAt(h)'
<1> DEFINE t == Target(h)
           rest == Tail(todo[h])
<1>1. /\ SettlingAt(h) /\ pc[h] \in Working /\ pc[h] # "plan" /\ cands[h] = {}
  BY DEF Settling, SettlingAt, Working, Applying
<1>2. /\ todo'[h] = rest /\ pc'[h] = IF rest = <<>> THEN "done" ELSE "check"
  BY DEF NextChange, Goto, TypeOK
<1>3. t \in Path /\ rest \in Seq(Sorted) /\ todo[h] \in Seq(Change)
  BY <1>1, HeadSorted DEF SettlingAt, TypeOK
<1>4. todo'[h] \in Seq(Sorted')
  BY <1>2, <1>3, QuietSame
<1>5. ASSUME Common("install") PROVE HasBlock(fs'[effective(fs')]) /\ eff'[h] = effective(fs')
  <2>1. eff[h] = effective(fs) /\ effective(fs') = effective(fs) /\ ~Off(effective(fs))
    BY <1>1, <1>5, FirstStays DEF SettlingAt, Quiet
  <2>2. HasBlock(fs[effective(fs)]) \/ t = effective(fs)
    BY <1>1, <1>5 DEF SettlingAt, Ready
  <2> QED BY <2>1, <2>2, EffectiveIsPath DEF Quiet
<1>6. ASSUME NEW p \in Path, Off(p), HasBlock(fs'[p])
      PROVE  linked(fs'[p]) \/ PlannedFor(rest, p)
  <2>1. p # t /\ HasBlock(fs[p]) /\ fs'[p] = fs[p]
    BY <1>6 DEF Quiet
  <2>2. linked(fs[p]) \/ PlannedFor(todo[h], p)
    BY <1>1, <1>6, <2>1 DEF SettlingAt, Cleared
  <2>3. PlannedFor(todo[h], p) => PlannedFor(rest, p)
    BY <1>3, <2>1, PlannedTail DEF Target
  <2> QED BY <2>1, <2>2, <2>3
<1>7. CASE rest = <<>>
  <2>1. \A p : ~PlannedFor(rest, p)
    BY <1>7 DEF PlannedFor
  <2>2. pc'[h] = "done"
    BY <1>2, <1>7
  <2>3. \A p \in Path : Off(p)' /\ HasBlock(fs[p])' => linked(fs[p])'
    BY <1>6, <2>1, QuietSame
  <2>4. Common("install")' => HasBlock(fs[effective(fs)])'
    BY <1>5, QuietSame
  <2> QED BY <1>4, <2>2, <2>3, <2>4 DEF SettlingAt, Working, Applying, Staged
<1>8. CASE rest # <<>>
  <2>1. pc'[h] = "check" /\ cands'[h] = {}
    BY <1>1, <1>2, <1>8
  <2>2. \A p \in Path : Off(p)' => Cleared(h, p)'
    BY <1>2, <1>6, QuietSame DEF Cleared
  <2>3. Common("install")' => eff'[h] = effective(fs)' /\ Ready(h)'
    BY <1>5, QuietSame DEF Ready
  <2> QED BY <1>4, <2>1, <2>2, <2>3 DEF SettlingAt
<1> QED BY <1>7, <1>8

\* What transform does to the block.
LEMMA TransformBlock ==
  ASSUME NEW f \in File, NEW a \in Action, ~linked(f), ~Raises(f)
  PROVE  /\ transform(f, a) = f => (HasBlock(f) <=> a = "install")
         /\ HasBlock(transform(f, a)) <=> a = "install"
         /\ ~nonempty(f) => transform(f, "remove") = f
<1>1. CASE f = None
  <2>1. Born # None /\ Born.blk = "created"
    <3>1. Empty \in Own /\ "created" \in BlockState
      BY DEF Own, BlockState
    <3>2. Born \in Content
      BY <3>1 DEF Born, Content
    <3>3. Born # None
      BY <3>2, NoneAssumption
    <3> QED BY <3>3 DEF Born
  <2>2. InstallBlock(f) = Born /\ RemoveBlock(f) = None /\ ~HasBlock(f)
    BY <1>1 DEF InstallBlock, RemoveBlock, HasBlock, Born
  <2> QED BY <1>1, <2>1, <2>2 DEF transform, HasBlock, Action
<1>2. CASE f \in Content
  <2>1. f # None /\ f.blk \in {"absent", "present", "created"}
    BY <1>2, NoneAssumption DEF Content, BlockState, Raises
  <2>2. /\ [f EXCEPT !.blk = "present"] # None /\ [f EXCEPT !.blk = "present"].blk = "present"
        /\ [f EXCEPT !.blk = "absent"] # None /\ [f EXCEPT !.blk = "absent"].blk = "absent"
    BY <1>2, NoneAssumption DEF Content, BlockState
  <2>3. InstallBlock(f) = IF HasBlock(f) THEN f ELSE [f EXCEPT !.blk = "present"]
    BY <2>1 DEF InstallBlock
  <2>4. RemoveBlock(f) \in IF HasBlock(f) THEN {None, [f EXCEPT !.blk = "absent"]} ELSE {f}
    BY DEF RemoveBlock
  <2>5. a = "install" \/ a = "remove"
    BY DEF Action
  <2>6. CASE HasBlock(f)
    BY <2>1, <2>2, <2>3, <2>4, <2>5, <2>6 DEF transform, HasBlock, nonempty
  <2>7. CASE ~HasBlock(f)
    BY <2>1, <2>2, <2>3, <2>4, <2>5, <2>7 DEF transform, HasBlock, nonempty
  <2> QED BY <2>6, <2>7
<1> QED BY <1>1, <1>2 DEF File

\* The plan puts the block where the host reads first, and nowhere else.
LEMMA WantedIsSorted ==
  ASSUME TypeOK, Settling, NEW h \in Helper, pc[h] = "plan", NEW p \in Path
  PROVE  /\ wanted(h, p) \in Action /\ (wanted(h, p) = "install" <=> ~Off(p))
         /\ ~Off(p) => p = eff[h]
<1>1. CASE Common("install")
  <2>1. cmd[h].action = "install" /\ ~Common("remove") /\ eff[h] = effective(fs)
    BY <1>1, FirstStays DEF Common, Settling, SettlingAt, Working
  <2> QED BY <2>1 DEF wanted, Off, Action
<1>2. CASE Common("remove")
  BY <1>2 DEF Common, wanted, Off, Action
<1> QED BY <1>1, <1>2 DEF Settling

LEMMA PlanFileSettles ==
  ASSUME TypeOK, Settling, SameAction, NEW h \in Helper, PlanFile(h)
  PROVE  SettlingAt(h)'
<1>1. PICK p \in cands[h] :
        /\ \A q \in cands[h] \ {p} : before(eff[h], p, q)
        /\ IF PlanRefuses(h, p)
             THEN Abort(h) /\ cands' = [cands EXCEPT ![h] = {}]
             ELSE /\ cands' = [cands EXCEPT ![h] = @ \ {p}]
                  /\ todo' = IF PlanSkips(h, p) \/ planned(h, p).changed = fs[p]
                               THEN todo
                               ELSE [todo EXCEPT ![h] = Append(@, planned(h, p))]
                  /\ UNCHANGED pc
  BY DEF PlanFile
<1>2. /\ UNCHANGED <<fs, eff, cmd>> /\ Quiet /\ pc[h] = "plan" /\ SettlingAt(h)
      /\ pc[h] \in Working /\ p \in Path
  BY SameIsQuiet DEF PlanFile, fileVars, Settling, Working, TypeOK
<1>3. CASE PlanRefuses(h, p)
  <2>1. todo'[h] = <<>> /\ pc'[h] = "failed"
    BY <1>1, <1>3 DEF Abort, Goto, TypeOK
  <2> QED BY <1>2, <2>1, EndedSettles DEF Working, Applying, Staged
<1>4. CASE ~PlanRefuses(h, p)
  <2> DEFINE f == fs[p]
             c == planned(h, p)
             Unplanned == PlanSkips(h, p) \/ c.changed = f
  <2>1. /\ wanted(h, p) \in Action /\ (wanted(h, p) = "install" <=> ~Off(p))
        /\ ~Off(p) => p = eff[h]
    BY <1>2, WantedIsSorted
  <2>2. f \in File /\ c.path = p /\ c.changed = transform(f, wanted(h, p)) /\ c \in Change
    <3>1. f \in File
      BY <1>2 DEF TypeOK
    <3> QED BY <1>2, <2>1, <3>1, TransformType DEF planned, Change
  <2>3. PlanSkips(h, p) \/ (~linked(f) /\ ~Raises(f))
    BY <1>4 DEF PlanRefuses
  <2>4. /\ cands'[h] = cands[h] \ {p} /\ pc'[h] = "plan"
        /\ todo'[h] = IF Unplanned THEN todo[h] ELSE Append(todo[h], c)
    BY <1>1, <1>2, <1>4 DEF TypeOK
  <2>5. Off(p) /\ Unplanned /\ HasBlock(f) => linked(f)
    BY <2>1, <2>2, <2>3, TransformBlock DEF PlanSkips
  <2>6. ~Off(p) /\ Unplanned => HasBlock(f)
    BY <2>1, <2>2, <2>3, TransformBlock DEF PlanSkips
  <2>7. ~Unplanned => c \in Sorted
    <3>1. SUFFICES ASSUME ~Unplanned PROVE c \in Sorted
      OBVIOUS
    <3>2. HasBlock(c.changed) <=> ~Off(c.path)
      BY <2>1, <2>2, <2>3, <3>1, TransformBlock
    <3>3. ASSUME Host = "codex", Common("install"), effective(fs) = Primary, p # Primary
          PROVE  FALSE
      <4>1. p = Override
        BY <1>2, <3>3, ConstantsAssumption DEF Path, Override
      <4>2. ~nonempty(f)
        BY <3>3, <4>1 DEF effective, overrideRead
      <4>3. Off(p) /\ wanted(h, p) = "remove"
        BY <2>1, <3>3 DEF Off, Action
      <4> QED BY <2>2, <2>3, <3>1, <4>2, <4>3, TransformBlock DEF Action
    <3> QED BY <2>2, <3>2, <3>3 DEF Sorted
  <2>8. todo[h] \in Seq(Sorted) /\ todo[h] \in Seq(Change)
    BY <1>2 DEF SettlingAt, TypeOK
  <2>9. todo'[h] \in Seq(Sorted')
    <3>1. ~Unplanned => Append(todo[h], c) \in Seq(Sorted)
      BY <2>7, <2>8, AppendProperties
    <3> QED BY <1>2, <2>4, <2>8, <3>1, QuietSame
  <2>10. ASSUME NEW q \in Path, Off(q), HasBlock(fs[q]), ~linked(fs[q])
         PROVE  q \in cands'[h] \/ PlannedFor(todo'[h], q)
    <3>1. q \in cands[h] \/ PlannedFor(todo[h], q)
      BY <1>2, <2>10 DEF SettlingAt, Cleared
    <3>2. q = p => ~Unplanned
      BY <2>5, <2>10
    <3> QED BY <2>2, <2>4, <2>8, <3>1, <3>2, PlannedAppend
  <2>11. ASSUME Common("install")
         PROVE  /\ eff[h] = effective(fs)
                /\ \/ HasBlock(fs[effective(fs)])
                   \/ todo'[h] # <<>> /\ Head(todo'[h]).path = effective(fs)
    <3>1. eff[h] = effective(fs) /\ Ready(h) /\ ~Off(effective(fs))
      BY <1>2, <2>11, FirstStays DEF SettlingAt
    <3>2. CASE HasBlock(fs[effective(fs)])
      BY <3>1, <3>2
    <3>3. CASE effective(fs) \in cands[h] /\ todo[h] = <<>>
      <4>1. p = effective(fs)
        <5>1. SUFFICES ASSUME p # effective(fs) PROVE before(eff[h], p, eff[h]) /\ p # eff[h]
          BY DEF before
        <5> QED BY <1>1, <3>1, <3>3, <5>1
      <4> QED BY <2>2, <2>4, <2>6, <2>8, <3>1, <3>3, <4>1, PlannedAppend
    <3>4. CASE todo[h] # <<>> /\ Target(h) = effective(fs)
      BY <2>2, <2>4, <2>8, <3>1, <3>4, PlannedAppend DEF Target
    <3> QED BY <3>1, <3>2, <3>3, <3>4 DEF Ready
  <2>12. Common("install")' => eff'[h] = effective(fs)' /\ Ready(h)'
    BY <1>2, <2>11, QuietSame DEF Ready, Target
  <2>13. \A q \in Path : Off(q)' => Cleared(h, q)'
    BY <1>2, <2>10, QuietSame DEF Cleared
  <2> QED BY <2>4, <2>9, <2>12, <2>13 DEF SettlingAt
<1> QED BY <1>3, <1>4

LEMMA PlanDoneSettles ==
  ASSUME TypeOK, Settling, SameAction, NEW h \in Helper, PlanDone(h)
  PROVE  SettlingAt(h)'
<1>1. /\ UNCHANGED <<fs, eff, cmd, cands>> /\ Quiet /\ pc[h] = "plan" /\ SettlingAt(h)
      /\ pc[h] \in Working /\ cands[h] = {}
  BY SameIsQuiet DEF PlanDone, fileVars, Settling, Working
<1>2. CASE todo[h] # <<>> /\ cmd[h].apply
  <2>1. pc'[h] = "check" /\ UNCHANGED todo
    BY <1>2 DEF PlanDone, Goto, TypeOK
  <2> QED BY <1>1, <1>2, <2>1, SameChangeSettles DEF Working, Applying
<1>3. CASE ~(todo[h] # <<>> /\ cmd[h].apply)
  <2>1. pc'[h] = "done" /\ todo'[h] = <<>>
    BY <1>3 DEF PlanDone, Goto, TypeOK
  <2>2. todo'[h] \in Seq(Sorted')
    BY <2>1, EmptySeq
  <2>3. ASSUME cmd'[h].apply
        PROVE  /\ Common("install")' => HasBlock(fs[effective(fs)])'
               /\ \A p \in Path : Off(p)' /\ HasBlock(fs[p])' => linked(fs[p])'
    <3>1. todo[h] = <<>>
      BY <1>1, <1>3, <2>3
    <3>2. \A p : ~PlannedFor(todo[h], p)
      BY <3>1 DEF PlannedFor
    <3>3. Common("install") => HasBlock(fs[effective(fs)])
      BY <1>1, <3>1 DEF SettlingAt, Ready
    <3>4. \A p \in Path : Off(p) /\ HasBlock(fs[p]) => linked(fs[p])
      BY <1>1, <3>2 DEF SettlingAt, Cleared
    <3> QED BY <1>1, <3>3, <3>4, QuietSame
  <2> QED BY <2>1, <2>2, <2>3 DEF SettlingAt, Working, Applying, Staged
<1> QED BY <1>2, <1>3

LEMMA ResolveSettles ==
  ASSUME TypeOK, Settling, SameAction, NEW h \in Helper, Resolve(h)
  PROVE  SettlingAt(h)'
<1>1. /\ UNCHANGED <<fs, cmd>> /\ Quiet /\ pc'[h] = "plan" /\ todo'[h] = <<>>
      /\ eff'[h] = effective(fs) /\ cands'[h] = candidates(fs)
  BY SameIsQuiet DEF Resolve, Goto, fileVars, TypeOK
<1>2. todo'[h] \in Seq(Sorted')
  BY <1>1, EmptySeq
<1>3. effective(fs) \in candidates(fs)
  BY EffectiveIsPath DEF effective, overrideRead, nonempty, candidates
<1>4. \A p \in Path : HasBlock(fs[p]) => p \in candidates(fs)
  BY DEF HasBlock, candidates
<1>5. Common("install")' => eff'[h] = effective(fs)' /\ Ready(h)'
  BY <1>1, <1>3 DEF Ready
<1>6. \A p \in Path : Off(p)' => Cleared(h, p)'
  BY <1>1, <1>4 DEF Cleared
<1> QED BY <1>1, <1>2, <1>5, <1>6 DEF SettlingAt

\* The last step of a write: the file is there, the change is not yet done.
LEMMA PublishedSettles ==
  ASSUME TypeOK, Settling, SameAction, NEW h \in Helper, todo[h] # <<>>,
         pc[h] = "publish", pc'[h] = "cleanup",
         fs' = [fs EXCEPT ![Target(h)] = Changed(h)],
         UNCHANGED <<todo[h], cands[h], eff[h], cmd[h]>>
  PROVE  SettlingAt(h)'
<1>1. /\ Quiet /\ (HasBlock(fs'[Target(h)]) <=> ~Off(Target(h)))
      /\ SettlingAt(h) /\ pc[h] \in Working
  BY WriteIsQuiet DEF Settling, Working, Applying, Staged
<1>2. todo'[h] \in Seq(Sorted')
  BY <1>1, QuietSame DEF SettlingAt
<1>3. Common("install")' => eff'[h] = effective(fs)' /\ Ready(h)'
  <2>1. SUFFICES ASSUME Common("install") PROVE eff'[h] = effective(fs)' /\ Ready(h)'
    BY <1>1, QuietSame
  <2>2. /\ eff[h] = effective(fs) /\ Ready(h) /\ effective(fs') = effective(fs)
        /\ ~Off(effective(fs))
    BY <1>1, <2>1, FirstStays DEF SettlingAt, Quiet
  <2>3. HasBlock(fs[effective(fs)]) => HasBlock(fs'[effective(fs')])
    BY <1>1, <2>2, EffectiveIsPath DEF Quiet
  <2> QED BY <2>2, <2>3 DEF Ready, Target
<1>4. \A p \in Path : Off(p)' => Cleared(h, p)'
  <2> SUFFICES ASSUME NEW p \in Path, Off(p), HasBlock(fs'[p])
               PROVE  linked(fs'[p]) \/ p \in cands[h] \/ PlannedFor(todo[h], p)
    BY <1>1, QuietSame DEF Cleared
  <2>1. HasBlock(fs[p]) /\ fs'[p] = fs[p]
    BY <1>1 DEF Quiet
  <2> QED BY <1>1, <2>1 DEF SettlingAt, Cleared
<1>5. cands'[h] = {}
  BY <1>1 DEF SettlingAt
<1>6. HasBlock(fs[Target(h)])' <=> ~Off(Target(h))'
  <2>1. Target(h)' = Target(h)
    BY DEF Target
  <2> QED BY <1>1, <2>1, QuietSame
<1> QED BY <1>2, <1>3, <1>4, <1>5, <1>6 DEF SettlingAt

LEMMA StepSettling ==
  MaxEdits = 0 /\ Inv /\ Settling /\ [Next /\ SameAction]_vars => Quiet /\ Settling'
<1> SUFFICES ASSUME MaxEdits = 0, Inv, Settling, [Next /\ SameAction]_vars
             PROVE  Quiet /\ Settling'
  OBVIOUS
<1>1. SameAction
  BY DEF SameAction, vars
<1>2. TypeOK /\ HasWork
  BY DEF Inv
<1>3. ASSUME Quiet, NEW h \in Helper, SettlingAt(h)',
             \A g \in Helper \ {h} : UNCHANGED <<pc[g], todo[g], cands[g], eff[g], cmd[g]>>
      PROVE  Quiet /\ Settling'
  <2>1. \A g \in Helper \ {h} : SettlingAt(g)'
    BY <1>1, <1>2, <1>3, OthersSettle
  <2>2. Common("install")' \/ Common("remove")'
    BY <1>1, <1>3, QuietSame DEF Settling
  <2> QED BY <1>3, <2>1, <2>2 DEF Settling
<1>4. CASE UNCHANGED vars
  <2>1. Quiet
    BY <1>4, SameIsQuiet DEF vars
  <2>2. \A g \in Helper : SettlingAt(g)'
    BY <1>1, <1>2, <1>4, <2>1, OthersSettle DEF vars
  <2> QED BY <1>1, <2>1, <2>2, QuietSame DEF Settling
<1>5. ASSUME NEW p \in Path, OwnerSaves(p) PROVE FALSE
  BY <1>2, <1>5 DEF OwnerSaves, TypeOK
<1> USE DEF Goto, Abort, fileVars
<1>6. ASSUME NEW h \in Helper, Start(h) \/ Unwind(h) \/ Fault(h)
      PROVE  Quiet /\ Settling'
  <2>1. /\ UNCHANGED fs
        /\ \A g \in Helper \ {h} : UNCHANGED <<pc[g], todo[g], cands[g], eff[g], cmd[g]>>
    BY <1>2, <1>6 DEF Start, Unwind, Fault, OSFails, Cancel, Kill, TypeOK
  <2>2. todo'[h] \in {todo[h], <<>>} /\ pc'[h] \notin Working \cup {"done"}
    BY <1>2, <1>6 DEF Start, Unwind, Fault, OSFails, Cancel, Kill, TypeOK, Working,
                      Applying, Staged, Ended
  <2> QED BY <1>1, <1>3, <2>1, <2>2, SameIsQuiet, EndedSettles
<1>7. ASSUME NEW h \in Helper, Resolve(h) \/ PlanFile(h) \/ PlanDone(h)
      PROVE  Quiet /\ Settling'
  <2>1. /\ UNCHANGED fs
        /\ \A g \in Helper \ {h} : UNCHANGED <<pc[g], todo[g], cands[g], eff[g], cmd[g]>>
    BY <1>2, <1>7 DEF Resolve, PlanFile, PlanDone, TypeOK
  <2> QED BY <1>1, <1>2, <1>3, <1>7, <2>1, SameIsQuiet, ResolveSettles, PlanFileSettles,
             PlanDoneSettles
<1>8. ASSUME NEW h \in Helper,
             CheckTarget(h) \/ OpenStaged(h) \/ WriteStaged(h) \/ Recheck(h)
      PROVE  Quiet /\ Settling'
  <2>1. /\ UNCHANGED <<fs, cands, eff, cmd>> /\ pc[h] \in Applying /\ pc[h] # "cleanup"
        /\ \A g \in Helper \ {h} : UNCHANGED <<pc[g], todo[g]>>
    BY <1>2, <1>8 DEF CheckTarget, OpenStaged, WriteStaged, Recheck, TypeOK, Applying, Staged
  <2>2. \/ todo'[h] \in {todo[h], <<>>} /\ pc'[h] \notin Working \cup {"done"}
        \/ todo'[h] = todo[h] /\ pc'[h] \in Working \ {"plan", "cleanup"}
    BY <1>2, <1>8 DEF CheckTarget, OpenStaged, WriteStaged, Recheck, TypeOK, Working,
                      Applying, Staged
  <2>3. pc[h] \in Working /\ todo[h] # <<>> /\ cands[h] = {}
    BY <1>2, <2>1 DEF HasWork, Settling, SettlingAt, Working, Applying, Staged
  <2>4. SettlingAt(h)'
    BY <1>1, <2>1, <2>2, <2>3, SameIsQuiet, EndedSettles, SameChangeSettles
  <2> QED BY <1>3, <2>1, <2>4, SameIsQuiet
<1>9. ASSUME NEW h \in Helper, Publish(h) PROVE Quiet /\ Settling'
  <2>1. /\ UNCHANGED <<todo, cands, eff, cmd>> /\ pc[h] = "publish" /\ todo[h] # <<>>
        /\ \A g \in Helper \ {h} : UNCHANGED pc[g]
    BY <1>2, <1>9 DEF Publish, TypeOK, HasWork, Applying, Staged
  <2>2. CASE UNCHANGED fs /\ pc'[h] = "unwind"
    BY <1>1, <1>3, <2>1, <2>2, SameIsQuiet, EndedSettles DEF Working, Applying, Staged
  <2>3. CASE fs' = [fs EXCEPT ![Target(h)] = Changed(h)] /\ pc'[h] = "cleanup"
    BY <1>1, <1>2, <1>3, <2>1, <2>3, WriteIsQuiet, PublishedSettles
  <2> QED BY <1>2, <1>9, <2>2, <2>3 DEF Publish, TypeOK
<1>10. ASSUME NEW h \in Helper, UnlinkTarget(h) PROVE Quiet /\ Settling'
  <2>1. /\ UNCHANGED <<cands, eff, cmd>> /\ pc[h] = "unlink" /\ todo[h] # <<>>
        /\ \A g \in Helper \ {h} : UNCHANGED <<pc[g], todo[g]>>
    BY <1>2, <1>10 DEF UnlinkTarget, NextChange, TypeOK, HasWork, Applying
  <2>2. CASE UNCHANGED fs /\ Abort(h)
    <3>1. todo'[h] = <<>> /\ pc'[h] = "failed"
      BY <1>2, <2>2 DEF TypeOK
    <3> QED BY <1>1, <1>3, <2>1, <2>2, <3>1, SameIsQuiet, EndedSettles
            DEF Working, Applying, Staged
  <2>3. CASE fs' = [fs EXCEPT ![Target(h)] = None] /\ NextChange(h)
    <3>1. Changed(h) = None
      BY <2>1 DEF Inv, Planned
    <3>2. Quiet /\ (HasBlock(fs'[Target(h)]) <=> ~Off(Target(h)))
      BY <1>2, <2>1, <2>3, <3>1, WriteIsQuiet
    <3> QED BY <1>1, <1>2, <1>3, <2>1, <2>3, <3>2, NextChangeSettles
  <2> QED BY <1>10, <2>2, <2>3 DEF UnlinkTarget
<1>11. ASSUME NEW h \in Helper, Cleanup(h) PROVE Quiet /\ Settling'
  <2>1. /\ UNCHANGED <<fs, cands, eff, cmd>> /\ pc[h] = "cleanup" /\ todo[h] # <<>>
        /\ NextChange(h) /\ \A g \in Helper \ {h} : UNCHANGED <<pc[g], todo[g]>>
    BY <1>2, <1>11 DEF Cleanup, NextChange, TypeOK, HasWork, Applying
  <2>2. HasBlock(fs[Target(h)]) <=> ~Off(Target(h))
    BY <2>1 DEF Settling, SettlingAt, Working, Applying
  <2>3. Quiet
    BY <2>1, SameIsQuiet
  <2>4. SettlingAt(h)'
    BY <1>1, <1>2, <2>1, <2>2, <2>3, NextChangeSettles
  <2> QED BY <1>3, <2>1, <2>3, <2>4
<1> QED BY <1>4, <1>5, <1>6, <1>7, <1>8, <1>9, <1>10, <1>11 DEF Next, HelperStep

LEMMA OneActionInv ==
  ASSUME MaxEdits = 0
  PROVE  OneActionSpec => [](Inv /\ Settling)
<1>1. Init => Inv /\ Settling
  BY InitInv, InitSettling
<1>2. Inv /\ Settling /\ [Next /\ SameAction]_vars => (Inv /\ Settling)'
  <2>1. [Next /\ SameAction]_vars => [Next]_vars
    OBVIOUS
  <2> QED BY <2>1, StepInv, StepSettling
<1> QED BY <1>1, <1>2, PTL DEF OneActionSpec

\* For every number of runs of one action and every layout of files: whatever fails
\* or is killed, an install that ended well left the block in the file the host reads
\* first and in no other file it may edit, a remove left none.
THEOREM RunsSettleFiles ==
  ASSUME MaxEdits = 0
  PROVE  OneActionSpec => []RunsSettle
<1>1. Settling => RunsSettle
  <2> SUFFICES ASSUME Settling, NEW h \in Helper, pc[h] = "done", cmd[h].apply
               PROVE  IF cmd[h].action = "install" THEN onlyEffective(fs)
                      ELSE \A p \in Path : HasBlock(fs[p]) => linked(fs[p])
    BY DEF RunsSettle
  <2>1. /\ Common("install") => HasBlock(fs[effective(fs)])
        /\ \A p \in Path : Off(p) /\ HasBlock(fs[p]) => linked(fs[p])
    BY DEF Settling, SettlingAt
  <2>2. CASE Common("install")
    BY <2>1, <2>2 DEF Common, onlyEffective, Off
  <2>3. CASE Common("remove")
    BY <2>1, <2>3 DEF Common, Off
  <2> QED BY <2>2, <2>3 DEF Settling
<1> QED BY <1>1, OneActionInv, PTL

\* And while runs install, a host that reads the block never stops reading it.
THEOREM BlockStaysRead ==
  ASSUME MaxEdits = 0
  PROVE  OneActionSpec => InstallKeepsConfigured
<1> DEFINE Stays == (\A h \in Helper : cmd[h].action = "install") /\ configured(fs)
                      => configured(fs')
<1>1. Inv /\ Settling /\ [Next /\ SameAction]_vars => [Stays]_vars
  <2> SUFFICES ASSUME Inv, Settling, Next, SameAction, Common("install"), configured(fs)
               PROVE  configured(fs')
    BY DEF Common
  <2>1. CASE UNCHANGED fs
    BY <2>1 DEF configured
  <2>2. ASSUME NEW h \in Helper, pc[h] \in {"publish", "unlink"},
               fs' = [fs EXCEPT ![Target(h)] = Changed(h)]
        PROVE  configured(fs')
    <3> DEFINE e == effective(fs)
    <3>1. todo[h] # <<>> /\ pc[h] \in Working /\ pc[h] # "plan"
      BY <2>2 DEF Inv, HasWork, Working, Applying, Staged
    <3>2. Quiet /\ (HasBlock(fs'[Target(h)]) <=> ~Off(Target(h)))
      BY <2>2, <3>1, WriteIsQuiet DEF Inv
    <3>3. ~Off(e) /\ e \in Path /\ effective(fs') = e
      BY <3>2, FirstStays, EffectiveIsPath DEF Quiet
    <3>4. HasBlock(fs[e]) \/ Target(h) = e
      BY <3>1 DEF Settling, SettlingAt, Ready
    <3>5. HasBlock(fs'[e])
      BY <3>2, <3>3, <3>4 DEF Quiet
    <3>6. e \in readByHost(fs')
      BY <3>3 DEF readByHost, effective, overrideRead
    <3> QED BY <3>5, <3>6 DEF configured
  <2>3. ASSUME NEW h \in Helper, Publish(h) PROVE configured(fs')
    BY <2>1, <2>2, <2>3 DEF Publish
  <2>4. ASSUME NEW h \in Helper, UnlinkTarget(h) PROVE configured(fs')
    BY <2>1, <2>2, <2>4 DEF UnlinkTarget, Inv, Planned
  <2>5. ASSUME NEW h \in Helper,
               \/ Start(h) \/ Resolve(h) \/ PlanFile(h) \/ PlanDone(h)
               \/ CheckTarget(h) \/ OpenStaged(h) \/ WriteStaged(h) \/ Recheck(h)
               \/ Cleanup(h) \/ Unwind(h) \/ Fault(h)
        PROVE  configured(fs')
    BY <2>1, <2>5 DEF Start, Resolve, PlanFile, PlanDone, CheckTarget, OpenStaged,
       WriteStaged, Recheck, Cleanup, Unwind, Fault, OSFails, Cancel, Kill, fileVars
  <2>6. ASSUME NEW p \in Path, OwnerSaves(p) PROVE FALSE
    BY <2>6 DEF OwnerSaves, Inv, TypeOK
  <2> QED BY <2>3, <2>4, <2>5, <2>6 DEF Next, HelperStep
<1> QED BY <1>1, OneActionInv, PTL DEF OneActionSpec, InstallKeepsConfigured
=============================================================================
