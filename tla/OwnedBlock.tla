----------------------------- MODULE OwnedBlock -----------------------------
(***************************************************************************)
(* An instruction file as activation.py tells its parts apart: the bytes   *)
(* the owner wrote, the state of the activation block, and whether the     *)
(* path is a symbolic link.  transform is the helper's only edit.          *)
(*                                                                         *)
(* BlockBytes models the same file as a sequence of bytes and checks that  *)
(* this view commutes with it.                                             *)
(***************************************************************************)
CONSTANTS None,   \* there is no file at the path
          Empty,  \* the owner's part of the file holds no byte
          Blank,  \* it holds white space only
          Texts   \* the texts the owner may write

Own == {Empty, Blank} \cup Texts

\* "created" is a block whose header says created=1: install made the file.
\* "edited" is a file that locate or the decoder refuses.
BlockState == {"absent", "present", "created", "edited"}

Content == [own : Own, blk : BlockState, link : BOOLEAN]

ASSUME NoneAssumption == None \notin Content

\* The owner's text is told from an empty part and from a blank one.
ASSUME PartsAssumption == Empty \notin {Blank} \cup Texts

File == Content \cup {None}

linked(f) == f # None /\ f.link

\* Reading either path gives the same bytes, or both hold no file.
SameBytes(f, g) ==
  IF f = None \/ g = None THEN f = g ELSE f.own = g.own /\ f.blk = g.blk

OwnText(f) == IF f = None THEN Empty ELSE f.own

HasBlock(f) == f # None /\ f.blk \in {"present", "created"}

\* transform raises: the markers were edited or the bytes do not decode.
Raises(f) == f # None /\ f.blk = "edited"

InstallBlock(f) ==
  IF f = None THEN [own |-> Empty, blk |-> "created", link |-> FALSE]
  ELSE IF HasBlock(f) THEN f
  ELSE [f EXCEPT !.blk = "present"]

\* A file install created is deleted when nothing else is left in it.
RemoveBlock(f) ==
  IF ~HasBlock(f) THEN f
  ELSE IF f.blk = "created" /\ f.own = Empty THEN None
  ELSE [f EXCEPT !.blk = "absent"]

transform(f, action) == IF action = "install" THEN InstallBlock(f) ELSE RemoveBlock(f)

Action == {"install", "remove"}

\* _nonempty: bytes other than white space; the block itself counts.
nonempty(f) == f # None /\ (f.own \in Texts \/ f.blk # "absent")

\* What the owner put at the path: the text, and whether it is a link.
OwnerPart(f) == [own |-> OwnText(f), link |-> linked(f)]
=============================================================================
