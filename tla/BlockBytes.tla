----------------------------- MODULE BlockBytes -----------------------------
(***************************************************************************)
(* locate and transform of activation.py on the bytes of one file, and the *)
(* life of that file: the owner edits it anywhere, the helper installs and *)
(* removes its block.                                                      *)
(*                                                                         *)
(* A file is a sequence of tokens, each one run of bytes that locate and   *)
(* transform treat alike:                                                  *)
(*   "text"  owner's bytes other than line breaks                          *)
(*   "lf", "cr"  a line feed, a carriage return                            *)
(*   "S00" .. "S11"  a start line, line feed included: separator, created  *)
(*   "body"  the activation sentence and the end line, unedited            *)
(*   "mark"  any other text with the start marker in it                    *)
(*   "tail"  any other text with the end marker in it                      *)
(*   "bad"   bytes that are not UTF-8                                      *)
(***************************************************************************)
EXTENDS OwnedBlock, Naturals, Sequences, FiniteSets, SequencesExt

CONSTANTS Refused,  \* the value of a call that raises
          MaxLen    \* bound: tokens in the file

Start == {"S00", "S01", "S10", "S11"}
startLine(separator, created) ==
  IF separator THEN IF created THEN "S11" ELSE "S10"
               ELSE IF created THEN "S01" ELSE "S00"
hasSeparator(token) == token \in {"S10", "S11"}
saysCreated(token) == token \in {"S01", "S11"}

Breaks == {"lf", "cr"}
Token == Start \cup Breaks \cup {"text", "body", "mark", "tail", "bad"}

\* The absence of a file and an exception are told from every result.
ASSUME TokensAssumption ==
  /\ None \notin Seq(Token)
  /\ Refused \notin Seq(Token) \cup {None} \cup [start : Nat, end : Nat, created : BOOLEAN]

Positions(data, tokens) == {i \in DOMAIN data : data[i] \in tokens}

endsWith(data, tokens) == data # <<>> /\ data[Len(data)] \in tokens
startsWith(data, tokens) == data # <<>> /\ data[1] \in tokens

NoBlock == [start |-> 0, end |-> 0, created |-> FALSE]

\* Mutant: one byte too many belongs to the block.
BlockTooLong(data) ==
  LET starts == Positions(data, Start)
  IN IF Positions(data, Start \cup {"mark", "body", "tail"}) = {} THEN NoBlock
     ELSE IF Cardinality(starts) # 1 THEN Refused
     ELSE LET s == CHOOSE i \in starts : TRUE
          IN [start |-> IF hasSeparator(data[s]) THEN s - 1 ELSE s,
              end |-> s + 3, created |-> saysCreated(data[s])]

\* The block is data[start .. end - 1], its separator included.
locate(data) ==
  LET starts == Positions(data, Start)
      marks  == Positions(data, Start \cup {"mark"})
      ends   == Positions(data, {"body", "tail"})
  IN IF marks \cup ends = {} THEN NoBlock
     ELSE IF Cardinality(starts) # 1 \/ Cardinality(marks) # 1 \/ Cardinality(ends) # 1
       THEN Refused
     ELSE LET s == CHOOSE i \in starts : TRUE
              separated == hasSeparator(data[s])
          IN IF ~(s + 1 \in DOMAIN data /\ data[s + 1] = "body") THEN Refused
             ELSE IF separated /\ (s = 1 \/ data[s - 1] # "lf") THEN Refused
             ELSE [start |-> IF separated THEN s - 1 ELSE s,
                   end |-> s + 2, created |-> saysCreated(data[s])]

remaining(data, block) ==
  LET prefix == SubSeq(data, 1, block.start - 1)
      suffix == SubSeq(data, block.end, Len(data))
      needsSeparator == /\ prefix # <<>> /\ suffix # <<>>
                        /\ ~endsWith(prefix, Breaks)
                        /\ ~startsWith(suffix, Breaks)
  IN prefix \o (IF needsSeparator THEN <<"lf">> ELSE <<>>) \o suffix

\* Mutant: an emptied file is deleted whoever made it.
EmptiedIsDeleted(original, data, block) ==
  IF block = NoBlock THEN original
  ELSE LET rest == remaining(data, block) IN IF rest = <<>> THEN None ELSE rest

removed(original, data, block) ==
  IF block = NoBlock THEN original
  ELSE LET rest == remaining(data, block)
       IN IF block.created /\ rest = <<>> THEN None ELSE rest

\* Mutant: the start line does not say that a separator was put in.
SeparatorNotTold(original, data, block) ==
  IF block # NoBlock THEN original
  ELSE LET separator == data # <<>> /\ ~endsWith(data, {"lf"})
       IN data \o (IF separator THEN <<"lf">> ELSE <<>>)
               \o <<startLine(FALSE, original = None), "body">>

installed(original, data, block) ==
  IF block # NoBlock THEN original
  ELSE LET separator == data # <<>> /\ ~endsWith(data, {"lf"})
       IN data \o (IF separator THEN <<"lf">> ELSE <<>>)
               \o <<startLine(separator, original = None), "body">>

transformBytes(original, action) ==
  LET data  == IF original = None THEN <<>> ELSE original
      block == locate(data)
  IN IF Positions(data, {"bad"}) # {} \/ block = Refused THEN Refused
     ELSE IF action = "remove" THEN removed(original, data, block)
     ELSE installed(original, data, block)

---------------------------------------------------------------------------
VARIABLE content  \* the file: None or a sequence of tokens

vars == <<content>>

Init == content \in {None, <<>>}

\* The owner types, pastes or deletes anything anywhere, the block included.
OwnerInserts ==
  /\ content # None
  /\ Len(content) < MaxLen
  /\ \E i \in 1 .. Len(content) + 1, token \in Token :
       content' = InsertAt(content, i, token)

OwnerErases ==
  /\ content # None
  /\ \E i \in DOMAIN content : content' = RemoveAt(content, i)

OwnerDeletes == content # None /\ content' = None

OwnerCreates == content = None /\ content' = <<>>

HelperRuns ==
  \E action \in Action :
    LET changed == transformBytes(content, action) IN
      /\ changed # Refused
      /\ content' = changed

Next == OwnerInserts \/ OwnerErases \/ OwnerDeletes \/ OwnerCreates \/ HelperRuns

Spec == Init /\ [][Next]_vars

---------------------------------------------------------------------------
(* Properties.  Each speaks of what the next helper run would do to the    *)
(* file, whatever the owner and earlier runs made of it.                   *)

Bare(data) == data = None \/ Positions(data, Start \cup {"body", "mark", "tail", "bad"}) = {}

\* Installing and then removing restores a file without a block byte for
\* byte, a missing one to missing (test_lifecycle_restores_exact_original).  A
\* second run of the same command has nothing left to change, and after a
\* command the file is one the helper can go on managing (locate accepts).
RoundTrip ==
  /\ Bare(content) => transformBytes(transformBytes(content, "install"), "remove") = content
  /\ \A action \in Action :
       LET changed == transformBytes(content, action) IN
         changed # Refused =>
           /\ transformBytes(changed, action) = changed
           /\ changed # None => (locate(changed) = NoBlock <=> action = "remove")

\* The owner's runs of text, in two contents of the file, are one to one and
\* in order, and two of them stand on one line in both or in neither.
TextsOf(data) == IF data = None THEN {} ELSE Positions(data, {"text"})

SameLines(data, changed) ==
  \E at \in [TextsOf(data) -> TextsOf(changed)] :
    /\ \A q \in TextsOf(changed) : \E p \in TextsOf(data) : at[p] = q
    /\ \A p, q \in TextsOf(data) : p < q => at[p] < at[q]
    /\ \A p \in TextsOf(data) : p + 1 \in TextsOf(data) <=> at[p] + 1 \in TextsOf(changed)

\* No run ever joins, splits, drops or reorders the owner's lines, wherever
\* the owner has typed around the block since it was installed (transform).
LinesKept ==
  \A action \in Action :
    LET changed == transformBytes(content, action) IN
      changed # Refused => SameLines(content, changed)

\* The file as OwnedBlock sees it: the separator belongs to the block.
OwnerTokens(data) ==
  LET block == locate(data) IN
    IF block \in {NoBlock, Refused} THEN data
    ELSE SubSeq(data, 1, block.start - 1) \o SubSeq(data, block.end, Len(data))

\* text names what the owner's lines say.
Abstract(data, text) ==
  IF data = None THEN None ELSE
  LET block == locate(data)
      own   == OwnerTokens(data)
  IN [own  |-> IF own = <<>> THEN Empty
               ELSE IF Positions(own, Token \ Breaks) = {} THEN Blank
               ELSE text,
      blk  |-> IF transformBytes(data, "remove") = Refused THEN "edited"
               ELSE IF block = NoBlock THEN "absent"
               ELSE IF block.created THEN "created" ELSE "present",
      link |-> FALSE]

\* The record of OwnedBlock that Activation works on is a sound view of the
\* bytes: transforming and abstracting commute, refusals included, and the
\* name of the owner's text goes on meaning the same lines.
Commutes ==
  /\ LinesKept
  /\ \A action \in Action, text \in Texts :
       LET changed == transformBytes(content, action) IN
         IF changed = Refused
           THEN Raises(Abstract(content, text))
           ELSE /\ ~Raises(Abstract(content, text))
                /\ Abstract(changed, text) = transform(Abstract(content, text), action)

\* What install may have put into a file: a start line and the body, after a
\* line feed when the start line says so.
Installed(tokens) ==
  \/ Len(tokens) = 2 /\ tokens[1] \in {"S00", "S01"} /\ tokens[2] = "body"
  \/ Len(tokens) = 3 /\ tokens[1] = "lf" /\ tokens[2] \in {"S10", "S11"} /\ tokens[3] = "body"

\* Every other byte stays where it is: install appends to the file, and
\* remove changes nothing or takes out one piece that install may have put
\* there, all of it, and puts in at most a line feed between what is left on
\* both sides (docstring: "changes only its own block ... and preserves every
\* other byte").
OtherBytesKept ==
  LET data  == IF content = None THEN <<>> ELSE content
      after(action) == LET changed == transformBytes(content, action)
                       IN IF changed = None THEN <<>> ELSE changed
  IN /\ after("install") # Refused => IsPrefix(data, after("install"))
     /\ after("remove") \notin {Refused, data} =>
          \E i \in 0 .. Len(data), j \in 0 .. Len(data) :
            LET before == SubSeq(data, 1, i)
                behind == SubSeq(data, j + 1, Len(data))
            IN /\ i < j /\ Installed(SubSeq(data, i + 1, j))
               /\ \/ after("remove") = before \o behind
                  \/ /\ before # <<>> /\ behind # <<>>
                     /\ after("remove") = before \o <<"lf">> \o behind
     /\ after("remove") # Refused => Positions(after("remove"), Start \cup {"body"}) = {}
=============================================================================
