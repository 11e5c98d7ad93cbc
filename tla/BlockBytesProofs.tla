-------------------------- MODULE BlockBytesProofs --------------------------
(***************************************************************************)
(* Proofs about locate and transform on the bytes of a file of any length. *)
(*                                                                         *)
(* Everything follows from where the marks stand.  locate accepts exactly  *)
(* the files without a mark and those where one start line and the body    *)
(* are the only marks, after a line feed when the start line says so       *)
(* (BlockAt); install appends such a pair to a file without marks, and     *)
(* remove cuts it out and leaves none.                                     *)
(***************************************************************************)
EXTENDS BlockBytes, FiniteSetTheorems, SequenceTheorems, TLAPS

Marked == Start \cup {"mark", "body", "tail"}

NoMark(data) == \A i \in DOMAIN data : data[i] \notin Marked

\* The block stands in data with its start line at s.
BlockAt(data, s) ==
  /\ s \in 1 .. Len(data) - 1
  /\ data[s] \in Start /\ data[s + 1] = "body"
  /\ \A i \in DOMAIN data : data[i] \in Marked => i \in {s, s + 1}
  /\ hasSeparator(data[s]) => s > 1 /\ data[s - 1] = "lf"

BlockOf(data, s) ==
  [start   |-> IF hasSeparator(data[s]) THEN s - 1 ELSE s,
   end     |-> s + 2,
   created |-> saysCreated(data[s])]

LEMMA PositionsFinite ==
  ASSUME NEW data \in Seq(Token), NEW tokens
  PROVE  IsFiniteSet(Positions(data, tokens))
<1>1. DOMAIN data = 1 .. Len(data) /\ Len(data) \in Nat
  BY LenProperties
<1>2. IsFiniteSet(1 .. Len(data))
  BY <1>1, FS_Interval
<1> QED
  BY <1>1, <1>2, FS_Subset DEF Positions

LEMMA OnePosition ==
  ASSUME NEW data \in Seq(Token), NEW tokens, NEW s,
         Positions(data, tokens) = {s}
  PROVE  Cardinality(Positions(data, tokens)) = 1
BY FS_Singleton

LEMMA NoMarksNoBlock ==
  ASSUME NEW data \in Seq(Token), NoMark(data)
  PROVE  locate(data) = NoBlock
<1>1. Positions(data, Start \cup {"mark"}) \cup Positions(data, {"body", "tail"}) = {}
  BY DEF NoMark, Marked, Positions
<1> QED
  BY <1>1 DEF locate

\* locate returns the bounds of the block it is given.
LEMMA Located ==
  ASSUME NEW data \in Seq(Token), NEW s, BlockAt(data, s)
  PROVE  locate(data) = BlockOf(data, s)
<1>1. DOMAIN data = 1 .. Len(data) /\ Len(data) \in Nat
  BY LenProperties
<1>2. s \in DOMAIN data /\ s + 1 \in DOMAIN data /\ s # s + 1
  BY <1>1 DEF BlockAt
<1>3. data[s] \in Start /\ data[s + 1] = "body"
  BY DEF BlockAt
<1>4. "body" \notin Start \cup {"mark"} /\ Start \cap {"body", "tail"} = {}
  BY DEF Start
<1>5. Positions(data, Start) = {s}
  BY <1>2, <1>3, <1>4 DEF Positions, BlockAt, Marked
<1>6. Positions(data, Start \cup {"mark"}) = {s}
  BY <1>2, <1>3, <1>4 DEF Positions, BlockAt, Marked
<1>7. Positions(data, {"body", "tail"}) = {s + 1}
  BY <1>2, <1>3, <1>4 DEF Positions, BlockAt, Marked
<1>8. (CHOOSE i \in {s} : TRUE) = s
  OBVIOUS
<1>9. hasSeparator(data[s]) => ~(s = 1 \/ data[s - 1] # "lf")
  BY <1>1, <1>2 DEF BlockAt
<1> QED
  BY <1>2, <1>3, <1>5, <1>6, <1>7, <1>8, <1>9, FS_Singleton DEF locate, BlockOf

LEMMA BlockOfTyped ==
  ASSUME NEW data \in Seq(Token), NEW s, BlockAt(data, s)
  PROVE  /\ BlockOf(data, s) # NoBlock
         /\ BlockOf(data, s) # Refused
         /\ BlockOf(data, s).start \in 1 .. Len(data)
         /\ BlockOf(data, s).end \in 1 .. Len(data) + 1
         /\ BlockOf(data, s).start < BlockOf(data, s).end
<1>1. Len(data) \in Nat /\ s \in Nat /\ s + 2 \in Nat
  BY LenProperties DEF BlockAt
<1>2. saysCreated(data[s]) \in BOOLEAN
  BY DEF saysCreated
<1>3. BlockOf(data, s) \in [start : Nat, end : Nat, created : BOOLEAN]
  BY <1>1, <1>2 DEF BlockOf, BlockAt
<1>4. BlockOf(data, s).end # NoBlock.end
  BY <1>1 DEF BlockOf, NoBlock, BlockAt
<1> QED
  BY <1>1, <1>3, <1>4, TokensAssumption DEF BlockOf, BlockAt

\* locate accepts nothing else.
LEMMA Found ==
  ASSUME NEW data \in Seq(Token), locate(data) # Refused
  PROVE  \/ NoMark(data) /\ locate(data) = NoBlock
         \/ \E s \in DOMAIN data : BlockAt(data, s)
<1> DEFINE starts == Positions(data, Start)
           marks  == Positions(data, Start \cup {"mark"})
           ends   == Positions(data, {"body", "tail"})
<1>1. DOMAIN data = 1 .. Len(data) /\ Len(data) \in Nat
  BY LenProperties
<1>2. CASE marks \cup ends = {}
  <2>1. NoMark(data)
    BY <1>2 DEF NoMark, Marked, Positions
  <2> QED
    BY <2>1, NoMarksNoBlock
<1>3. CASE marks \cup ends # {}
  <2>1. Cardinality(starts) = 1 /\ Cardinality(marks) = 1 /\ Cardinality(ends) = 1
    BY <1>3 DEF locate
  <2>2. PICK s : starts = {s}
    BY <2>1, PositionsFinite, FS_Singleton
  <2>3. PICK m : marks = {m}
    BY <2>1, PositionsFinite, FS_Singleton
  <2>4. PICK e : ends = {e}
    BY <2>1, PositionsFinite, FS_Singleton
  <2>5. starts \subseteq marks
    BY DEF Positions
  <2>6. m = s
    BY <2>2, <2>3, <2>5
  <2>7. (CHOOSE i \in starts : TRUE) = s
    BY <2>2
  <2>8. /\ s + 1 \in DOMAIN data /\ data[s + 1] = "body"
        /\ hasSeparator(data[s]) => ~(s = 1 \/ data[s - 1] # "lf")
    BY <1>3, <2>1, <2>7 DEF locate
  <2>9. s \in DOMAIN data /\ data[s] \in Start
    BY <2>2 DEF Positions
  <2>10. s + 1 \in ends
    BY <2>8 DEF Positions
  <2>11. e = s + 1
    BY <2>4, <2>10
  <2>12. ASSUME NEW i \in DOMAIN data, data[i] \in Marked PROVE i \in {s, s + 1}
    BY <2>3, <2>4, <2>6, <2>11, <2>12 DEF Marked, Positions
  <2>13. BlockAt(data, s)
    BY <1>1, <2>8, <2>9, <2>12 DEF BlockAt
  <2> QED
    BY <2>9, <2>13
<1> QED
  BY <1>2, <1>3

---------------------------------------------------------------------------
(* What remove leaves.                                                     *)

Before(data, block) == SubSeq(data, 1, block.start - 1)
Behind(data, block) == SubSeq(data, block.end, Len(data))

NeedsSeparator(data, block) ==
  /\ Before(data, block) # <<>> /\ Behind(data, block) # <<>>
  /\ ~endsWith(Before(data, block), Breaks)
  /\ ~startsWith(Behind(data, block), Breaks)

Glue(data, block) == IF NeedsSeparator(data, block) THEN <<"lf">> ELSE <<>>

LEMMA RemainingIs ==
  ASSUME NEW data, NEW block
  PROVE  remaining(data, block) = (Before(data, block) \o Glue(data, block)) \o Behind(data, block)
BY DEF remaining, Before, Behind, Glue, NeedsSeparator

\* The two sides of the block hold the file's tokens in their order.
LEMMA Sides ==
  ASSUME NEW data \in Seq(Token), NEW s, BlockAt(data, s)
  PROVE  LET block == BlockOf(data, s) IN
         /\ Before(data, block) \in Seq(Token)
         /\ Len(Before(data, block)) = block.start - 1
         /\ \A i \in 1 .. block.start - 1 : Before(data, block)[i] = data[i]
         /\ Behind(data, block) \in Seq(Token)
         /\ Len(Behind(data, block)) = Len(data) + 1 - block.end
         /\ \A i \in 1 .. Len(data) + 1 - block.end :
              Behind(data, block)[i] = data[block.end + i - 1]
<1> DEFINE block == BlockOf(data, s)
<1>1. DOMAIN data = 1 .. Len(data) /\ Len(data) \in Nat
  BY LenProperties
<1>2. block.start \in 1 .. Len(data) /\ block.end \in 1 .. Len(data) + 1
  BY BlockOfTyped
<1> HIDE DEF block
<1>3. \A i \in 1 .. Len(data) : data[i] \in Token
  BY ElementOfSeq
<1>4. /\ SubSeq(data, 1, block.start - 1) \in Seq(Token)
      /\ Len(SubSeq(data, 1, block.start - 1)) =
           IF 1 <= block.start - 1 THEN block.start - 1 - 1 + 1 ELSE 0
      /\ \A i \in 1 .. block.start - 1 - 1 + 1 :
           SubSeq(data, 1, block.start - 1)[i] = data[1 + i - 1]
  <2>1. \A i \in 1 .. block.start - 1 : data[i] \in Token
    BY <1>1, <1>2, <1>3
  <2>2. block.start - 1 \in Int
    BY <1>1, <1>2
  <2> QED
    BY <2>1, <2>2, SubSeqProperties
<1>5. /\ SubSeq(data, block.end, Len(data)) \in Seq(Token)
      /\ Len(SubSeq(data, block.end, Len(data))) =
           IF block.end <= Len(data) THEN Len(data) - block.end + 1 ELSE 0
      /\ \A i \in 1 .. Len(data) - block.end + 1 :
           SubSeq(data, block.end, Len(data))[i] = data[block.end + i - 1]
  <2>1. \A i \in block.end .. Len(data) : data[i] \in Token
    BY <1>1, <1>2, <1>3
  <2>2. block.end \in Int /\ Len(data) \in Int
    BY <1>1, <1>2
  <2> QED
    BY <2>1, <2>2, SubSeqProperties
<1>6. /\ Before(data, block) \in Seq(Token)
      /\ Len(Before(data, block)) = block.start - 1
      /\ \A i \in 1 .. block.start - 1 : Before(data, block)[i] = data[i]
  BY <1>1, <1>2, <1>4 DEF Before
<1>7. /\ Behind(data, block) \in Seq(Token)
      /\ Len(Behind(data, block)) = Len(data) + 1 - block.end
      /\ \A i \in 1 .. Len(data) + 1 - block.end :
           Behind(data, block)[i] = data[block.end + i - 1]
  BY <1>1, <1>2, <1>5 DEF Behind
<1> QED
  BY <1>6, <1>7 DEF block

\* Three parts put together, token by token.
LEMMA Joined ==
  ASSUME NEW a \in Seq(Token), NEW b \in Seq(Token), NEW c \in Seq(Token)
  PROVE  /\ (a \o b) \o c \in Seq(Token)
         /\ Len((a \o b) \o c) = Len(a) + Len(b) + Len(c)
         /\ \A i \in 1 .. Len(a) : ((a \o b) \o c)[i] = a[i]
         /\ \A i \in 1 .. Len(b) : ((a \o b) \o c)[Len(a) + i] = b[i]
         /\ \A i \in 1 .. Len(c) : ((a \o b) \o c)[Len(a) + Len(b) + i] = c[i]
<1>1. Len(a) \in Nat /\ Len(b) \in Nat /\ Len(c) \in Nat
  BY LenProperties
<1>2. /\ a \o b \in Seq(Token)
      /\ Len(a \o b) = Len(a) + Len(b)
      /\ \A i \in 1 .. Len(a) + Len(b) :
           (a \o b)[i] = IF i <= Len(a) THEN a[i] ELSE b[i - Len(a)]
  BY ConcatProperties
<1> DEFINE ab == a \o b
<1> HIDE DEF ab
<1>3. /\ ab \o c \in Seq(Token)
      /\ Len(ab \o c) = Len(ab) + Len(c)
      /\ \A i \in 1 .. Len(ab) + Len(c) :
           (ab \o c)[i] = IF i <= Len(ab) THEN ab[i] ELSE c[i - Len(ab)]
  BY <1>2, ConcatProperties DEF ab
<1>4. \A i \in 1 .. Len(a) : (ab \o c)[i] = a[i]
  BY <1>1, <1>2, <1>3 DEF ab
<1>5. \A i \in 1 .. Len(b) : (ab \o c)[Len(a) + i] = b[i]
  BY <1>1, <1>2, <1>3 DEF ab
<1>6. \A i \in 1 .. Len(c) : (ab \o c)[Len(a) + Len(b) + i] = c[i]
  BY <1>1, <1>2, <1>3 DEF ab
<1> QED
  BY <1>2, <1>3, <1>4, <1>5, <1>6 DEF ab

\* What is left, place by place: the tokens before the block, a line feed
\* where one is needed, and the tokens behind the block.
LEMMA Left ==
  ASSUME NEW data \in Seq(Token), NEW s, BlockAt(data, s)
  PROVE  LET block == BlockOf(data, s)
             rest  == remaining(data, block)
             gap   == Len(Glue(data, block))
         IN /\ rest \in Seq(Token)
            /\ gap = IF NeedsSeparator(data, block) THEN 1 ELSE 0
            /\ Len(rest) = block.start - 1 + gap + (Len(data) + 1 - block.end)
            /\ \A i \in 1 .. block.start - 1 : rest[i] = data[i]
            /\ gap = 1 => rest[block.start] = "lf"
            /\ \A i \in 1 .. Len(data) + 1 - block.end :
                 rest[block.start - 1 + gap + i] = data[block.end + i - 1]
<1> DEFINE block == BlockOf(data, s)
           a     == Before(data, block)
           b     == Glue(data, block)
           c     == Behind(data, block)
<1>0. block.start \in 1 .. Len(data) /\ block.end \in 1 .. Len(data) + 1 /\ Len(data) \in Nat
  BY BlockOfTyped, LenProperties
<1>1. /\ a \in Seq(Token) /\ Len(a) = block.start - 1
      /\ \A i \in 1 .. block.start - 1 : a[i] = data[i]
      /\ c \in Seq(Token) /\ Len(c) = Len(data) + 1 - block.end
      /\ \A i \in 1 .. Len(data) + 1 - block.end : c[i] = data[block.end + i - 1]
  BY Sides
<1>2. b \in Seq(Token) /\ Len(b) = IF NeedsSeparator(data, block) THEN 1 ELSE 0
  <2>1. <<"lf">> \in Seq(Token) /\ Len(<<"lf">>) = 1
    BY DEF Token, Breaks
  <2>2. <<>> \in Seq(Token) /\ Len(<<>>) = 0
    BY EmptySeq
  <2> QED
    BY <2>1, <2>2 DEF Glue
<1>3. Len(b) = 1 => b[1] = "lf"
  BY <1>2 DEF Glue
<1>4. remaining(data, block) = (a \o b) \o c
  BY RemainingIs
<1> HIDE DEF block, a, b, c
<1>5. /\ (a \o b) \o c \in Seq(Token)
      /\ Len((a \o b) \o c) = Len(a) + Len(b) + Len(c)
      /\ \A i \in 1 .. Len(a) : ((a \o b) \o c)[i] = a[i]
      /\ \A i \in 1 .. Len(b) : ((a \o b) \o c)[Len(a) + i] = b[i]
      /\ \A i \in 1 .. Len(c) : ((a \o b) \o c)[Len(a) + Len(b) + i] = c[i]
  BY <1>1, <1>2, Joined
<1>6. Len(b) = 1 => ((a \o b) \o c)[block.start] = "lf"
  <2> SUFFICES ASSUME Len(b) = 1 PROVE ((a \o b) \o c)[block.start] = "lf"
    OBVIOUS
  <2>1. ((a \o b) \o c)[Len(a) + 1] = "lf"
    BY <1>3, <1>5
  <2>2. Len(a) + 1 = block.start
    BY <1>0, <1>1
  <2> QED
    BY <2>1, <2>2
<1> QED
  BY <1>0, <1>1, <1>2, <1>4, <1>5, <1>6 DEF block, b

LEMMA NothingMarkedIsLeft ==
  ASSUME NEW data \in Seq(Token), NEW s, BlockAt(data, s)
  PROVE  NoMark(remaining(data, BlockOf(data, s)))
<1> DEFINE block == BlockOf(data, s)
           rest  == remaining(data, block)
           gap   == Len(Glue(data, block))
<1>1. /\ block.start \in 1 .. Len(data) /\ block.end \in 1 .. Len(data) + 1
      /\ block.start \in {s, s - 1} /\ block.end = s + 2 /\ s \in Nat /\ Len(data) \in Nat
  BY BlockOfTyped, LenProperties DEF BlockAt, BlockOf
<1>2. /\ rest \in Seq(Token) /\ gap \in {0, 1}
      /\ Len(rest) = block.start - 1 + gap + (Len(data) + 1 - block.end)
      /\ \A i \in 1 .. block.start - 1 : rest[i] = data[i]
      /\ gap = 1 => rest[block.start] = "lf"
      /\ \A i \in 1 .. Len(data) + 1 - block.end :
           rest[block.start - 1 + gap + i] = data[block.end + i - 1]
  BY Left
<1> HIDE DEF block, rest, gap
<1>3. DOMAIN rest = 1 .. Len(rest) /\ DOMAIN data = 1 .. Len(data)
  BY <1>2, LenProperties
<1>4. ASSUME NEW i \in DOMAIN data, data[i] \in Marked PROVE i \in {s, s + 1}
  BY <1>4 DEF BlockAt
<1>5. ASSUME NEW i \in DOMAIN rest PROVE rest[i] \notin Marked
  <2>1. CASE i < block.start
    <3>1. i \in 1 .. block.start - 1 /\ i \in DOMAIN data /\ i \notin {s, s + 1}
      BY <1>1, <1>3, <2>1
    <3> QED
      BY <1>2, <1>4, <3>1
  <2>2. CASE gap = 1 /\ i = block.start
    BY <1>2, <2>2 DEF Marked, Start
  <2>3. CASE i >= block.start + gap
    <3> DEFINE k == i - (block.start - 1 + gap)
    <3>0. i \in Int /\ gap \in Int /\ i <= block.start - 1 + gap + (Len(data) + 1 - block.end)
      BY <1>2, <1>3
    <3>1. k \in 1 .. Len(data) + 1 - block.end
      BY <1>1, <3>0, <2>3
    <3>2. i = block.start - 1 + gap + k
      BY <1>1, <3>0
    <3> HIDE DEF k
    <3>3. rest[i] = data[block.end + k - 1]
      BY <1>2, <3>1, <3>2
    <3>4. block.end + k - 1 \in DOMAIN data /\ block.end + k - 1 \notin {s, s + 1}
      BY <1>1, <1>3, <3>1
    <3> QED
      BY <1>4, <3>3, <3>4
  <2> QED
    BY <1>1, <1>2, <1>3, <2>1, <2>2, <2>3
<1> QED
  BY <1>5 DEF NoMark, rest, block

---------------------------------------------------------------------------
(* What install appends.                                                   *)

NeedsLine(data) == data # <<>> /\ ~endsWith(data, {"lf"})

\* The place of the last byte before the start line.
Filled(data) == Len(data) + (IF NeedsLine(data) THEN 1 ELSE 0)

LEMMA Appended ==
  ASSUME NEW data \in Seq(Token), NEW original
  PROVE  LET after == installed(original, data, NoBlock)
             n     == Filled(data)
         IN /\ after \in Seq(Token) /\ Len(after) = n + 2
            /\ n \in Nat /\ n = Len(data) + (IF NeedsLine(data) THEN 1 ELSE 0)
            /\ \A i \in 1 .. Len(data) : after[i] = data[i]
            /\ NeedsLine(data) => after[n] = "lf"
            /\ after[n + 1] = startLine(NeedsLine(data), original = None)
            /\ after[n + 2] = "body"
<1> DEFINE line == startLine(NeedsLine(data), original = None)
           sep  == IF NeedsLine(data) THEN <<"lf">> ELSE <<>>
           blk  == <<line, "body">>
<1>1. installed(original, data, NoBlock) = (data \o sep) \o blk
  BY DEF installed, NeedsLine
<1>2. line \in Start
  BY DEF startLine, Start
<1>3. blk \in Seq(Token) /\ Len(blk) = 2 /\ blk[1] = line /\ blk[2] = "body"
  BY <1>2 DEF Token
<1>4. sep \in Seq(Token) /\ Len(sep) = IF NeedsLine(data) THEN 1 ELSE 0
  <2>1. <<"lf">> \in Seq(Token) /\ Len(<<"lf">>) = 1
    BY DEF Token, Breaks
  <2>2. <<>> \in Seq(Token) /\ Len(<<>>) = 0
    BY EmptySeq
  <2> QED
    BY <2>1, <2>2
<1>5. NeedsLine(data) => sep[1] = "lf"
  OBVIOUS
<1>6. Len(data) \in Nat
  BY LenProperties
<1> HIDE DEF line, sep, blk
<1>7. /\ (data \o sep) \o blk \in Seq(Token)
      /\ Len((data \o sep) \o blk) = Len(data) + Len(sep) + Len(blk)
      /\ \A i \in 1 .. Len(data) : ((data \o sep) \o blk)[i] = data[i]
      /\ \A i \in 1 .. Len(sep) : ((data \o sep) \o blk)[Len(data) + i] = sep[i]
      /\ \A i \in 1 .. Len(blk) : ((data \o sep) \o blk)[Len(data) + Len(sep) + i] = blk[i]
  BY <1>3, <1>4, Joined
<1>8. Filled(data) = Len(data) + Len(sep) /\ Filled(data) \in Nat
  BY <1>4, <1>6 DEF Filled
<1>9. /\ ((data \o sep) \o blk)[Filled(data) + 1] = line
      /\ ((data \o sep) \o blk)[Filled(data) + 2] = "body"
  BY <1>3, <1>7, <1>8
<1>10. NeedsLine(data) => ((data \o sep) \o blk)[Filled(data)] = "lf"
  <2> SUFFICES ASSUME NeedsLine(data) PROVE ((data \o sep) \o blk)[Filled(data)] = "lf"
    OBVIOUS
  <2>1. 1 \in 1 .. Len(sep) /\ Filled(data) = Len(data) + 1
    BY <1>4, <1>8
  <2> QED
    BY <2>1, <1>5, <1>7
<1> QED
  BY <1>1, <1>3, <1>4, <1>6, <1>7, <1>8, <1>9, <1>10 DEF line, Filled

LEMMA StartLineSays ==
  ASSUME NEW separator \in BOOLEAN, NEW created \in BOOLEAN
  PROVE  /\ hasSeparator(startLine(separator, created)) <=> separator
         /\ saysCreated(startLine(separator, created)) <=> created
         /\ startLine(separator, created) \in Start
BY DEF startLine, hasSeparator, saysCreated, Start

LEMMA InstalledBlock ==
  ASSUME NEW data \in Seq(Token), NEW original, NoMark(data)
  PROVE  LET after == installed(original, data, NoBlock)
             s     == Filled(data) + 1
         IN /\ BlockAt(after, s) /\ s \in DOMAIN after
            /\ BlockOf(after, s).start = Len(data) + 1
            /\ BlockOf(after, s).end = Len(after) + 1
            /\ BlockOf(after, s).created <=> original = None
<1> DEFINE after == installed(original, data, NoBlock)
           n     == Filled(data)
<1>1. /\ after \in Seq(Token) /\ Len(after) = n + 2
      /\ n \in Nat /\ n = Len(data) + (IF NeedsLine(data) THEN 1 ELSE 0)
      /\ \A i \in 1 .. Len(data) : after[i] = data[i]
      /\ NeedsLine(data) => after[n] = "lf"
      /\ after[n + 1] = startLine(NeedsLine(data), original = None)
      /\ after[n + 2] = "body"
  BY Appended
<1>2. /\ hasSeparator(after[n + 1]) <=> NeedsLine(data)
      /\ saysCreated(after[n + 1]) <=> original = None
      /\ after[n + 1] \in Start
  <2>1. NeedsLine(data) \in BOOLEAN
    BY DEF NeedsLine
  <2> QED
    BY <1>1, <2>1, StartLineSays
<1> HIDE DEF after, n
<1>3. /\ Len(data) \in Nat /\ n \in Nat
      /\ NeedsLine(data) => n = Len(data) + 1
      /\ ~NeedsLine(data) => n = Len(data)
  BY <1>1, LenProperties
<1>10. DOMAIN data = 1 .. Len(data)
  BY LenProperties
<1>11. DOMAIN after = 1 .. n + 2
  BY <1>1, LenProperties
<1>4. ASSUME NEW i \in DOMAIN after, after[i] \in Marked PROVE i \in {n + 1, n + 1 + 1}
  <2>1. CASE i <= Len(data)
    <3>1. i \in DOMAIN data /\ after[i] = data[i]
      <4>1. i \in Int /\ 1 <= i
        BY <1>3, <1>11
      <4>2. i \in 1 .. Len(data)
        BY <1>3, <2>1, <4>1
      <4> QED
        BY <1>1, <1>10, <4>2
    <3> QED
      BY <1>4, <3>1 DEF NoMark
  <2>2. CASE i = n /\ NeedsLine(data)
    BY <1>1, <1>4, <2>2 DEF Marked, Start
  <2>3. i <= Len(data) \/ (i = n /\ NeedsLine(data)) \/ i \in {n + 1, n + 1 + 1}
    BY <1>3, <1>11
  <2> QED
    BY <2>1, <2>2, <2>3
<1>5. hasSeparator(after[n + 1]) => n + 1 > 1 /\ after[n + 1 - 1] = "lf"
  <2>1. n + 1 - 1 = n /\ (NeedsLine(data) => n + 1 > 1)
    BY <1>3
  <2> QED
    BY <1>1, <1>2, <2>1
<1>12. n + 1 \in 1 .. Len(after) - 1 /\ n + 1 + 1 = n + 2
  BY <1>1, <1>3
<1>6. BlockAt(after, n + 1)
  BY <1>1, <1>2, <1>4, <1>5, <1>12 DEF BlockAt
<1>7. BlockOf(after, n + 1).start = Len(data) + 1
  BY <1>2, <1>3 DEF BlockOf
<1>8. BlockOf(after, n + 1).end = Len(after) + 1
  <2>1. Len(after) = n + 2
    BY <1>1
  <2> QED
    BY <1>3, <2>1 DEF BlockOf
<1>9. BlockOf(after, n + 1).created <=> original = None
  BY <1>2 DEF BlockOf
<1> QED
  BY <1>1, <1>3, <1>6, <1>7, <1>8, <1>9 DEF after, n

\* Taking out the block install appended gives back the file's tokens.
LEMMA NothingElseAppended ==
  ASSUME NEW data \in Seq(Token), NEW original, NoMark(data)
  PROVE  LET after == installed(original, data, NoBlock) IN
         remaining(after, BlockOf(after, Filled(data) + 1)) = data
<1> DEFINE after == installed(original, data, NoBlock)
           s     == Filled(data) + 1
           block == BlockOf(after, s)
           rest  == remaining(after, block)
           gap   == Len(Glue(after, block))
<1>1. /\ after \in Seq(Token) /\ Len(after) \in Nat
      /\ \A i \in 1 .. Len(data) : after[i] = data[i]
  BY Appended, LenProperties
<1>2. /\ BlockAt(after, s)
      /\ block.start = Len(data) + 1 /\ block.end = Len(after) + 1
  BY InstalledBlock
<1>3. /\ rest \in Seq(Token)
      /\ gap = IF NeedsSeparator(after, block) THEN 1 ELSE 0
      /\ Len(rest) = block.start - 1 + gap + (Len(after) + 1 - block.end)
      /\ \A i \in 1 .. block.start - 1 : rest[i] = after[i]
  BY <1>1, <1>2, Left
<1>4. Behind(after, block) \in Seq(Token) /\ Len(Behind(after, block)) = Len(after) + 1 - block.end
  BY <1>1, <1>2, Sides
<1> HIDE DEF after, s, block, rest, gap
<1>5. Behind(after, block) = <<>>
  BY <1>1, <1>2, <1>4, EmptySeq
<1>6. gap = 0
  BY <1>3, <1>5 DEF NeedsSeparator
<1>7. Len(data) \in Nat /\ Len(rest) = Len(data)
  <2>1. Len(data) \in Nat
    BY LenProperties
  <2>0. Len(rest) = block.start - 1 + gap + (Len(after) + 1 - block.end)
    BY <1>3
  <2>3. block.start = Len(data) + 1
    BY <1>2
  <2>4. block.end = Len(after) + 1
    BY <1>2
  <2>5. Len(after) \in Nat
    BY <1>1
  <2>6. Len(rest) = Len(data) + 1 - 1 + gap + (Len(after) + 1 - (Len(after) + 1))
    BY <2>0, <2>3, <2>4
  <2>2. Len(rest) = Len(data) + 1 - 1 + 0 + (Len(after) + 1 - (Len(after) + 1))
    BY <2>6, <1>6
  <2> QED
    BY <2>1, <2>2, <2>5
<1>8. \A i \in 1 .. Len(rest) : rest[i] = data[i]
  <2>1. block.start - 1 = Len(rest)
    BY <1>2, <1>7
  <2> QED
    BY <1>1, <1>3, <1>7, <2>1
<1>9. rest = data
  BY <1>3, <1>7, <1>8, SeqEqual
<1> QED
  BY <1>9 DEF rest, block, s, after

---------------------------------------------------------------------------
(* The helper's two commands.                                              *)

Data(original) == IF original = None THEN <<>> ELSE original

NoBad(data) == \A i \in DOMAIN data : data[i] # "bad"

LEMMA DataTyped ==
  ASSUME NEW original \in {None} \cup Seq(Token)
  PROVE  Data(original) \in Seq(Token) /\ (original # None => Data(original) = original)
BY EmptySeq DEF Data

LEMMA BadPositions ==
  ASSUME NEW data
  PROVE  Positions(data, {"bad"}) = {} <=> NoBad(data)
BY DEF Positions, NoBad

\* A file without marks: install appends a block, remove has nothing to do.
LEMMA PlainRun ==
  ASSUME NEW original \in {None} \cup Seq(Token), NEW action \in Action,
         NoBad(Data(original)), NoMark(Data(original))
  PROVE  /\ transformBytes(original, action) =
              IF action = "remove" THEN original
              ELSE installed(original, Data(original), NoBlock)
         /\ locate(Data(original)) = NoBlock
<1>1. locate(Data(original)) = NoBlock
  BY DataTyped, NoMarksNoBlock
<1>2. NoBlock # Refused
  <2>1. NoBlock \in [start : Nat, end : Nat, created : BOOLEAN]
    BY DEF NoBlock
  <2> QED
    BY <2>1, TokensAssumption
<1>3. Positions(Data(original), {"bad"}) = {}
  BY BadPositions
<1> QED
  BY <1>1, <1>2, <1>3 DEF transformBytes, removed, Data

\* A file with its block: remove cuts it out, install has nothing to do.
LEMMA BlockRun ==
  ASSUME NEW data \in Seq(Token), NEW action \in Action, NEW s,
         NoBad(data), BlockAt(data, s)
  PROVE  transformBytes(data, action) =
           IF action = "install" THEN data
           ELSE IF BlockOf(data, s).created /\ remaining(data, BlockOf(data, s)) = <<>> THEN None
           ELSE remaining(data, BlockOf(data, s))
<1>1. locate(data) = BlockOf(data, s) /\ BlockOf(data, s) # Refused /\ BlockOf(data, s) # NoBlock
  BY Located, BlockOfTyped
<1>2. data # None
  BY TokensAssumption
<1>3. Positions(data, {"bad"}) = {}
  BY BadPositions
<1>4. action \in {"install", "remove"}
  BY DEF Action
<1> QED
  BY <1>1, <1>2, <1>3, <1>4 DEF transformBytes, removed, installed

\* The helper acts on no other file.
LEMMA Accepted ==
  ASSUME NEW original \in {None} \cup Seq(Token), NEW action \in Action,
         transformBytes(original, action) # Refused
  PROVE  /\ NoBad(Data(original))
         /\ \/ NoMark(Data(original))
            \/ original # None /\ \E s \in DOMAIN original : BlockAt(original, s)
<1>1. Positions(Data(original), {"bad"}) = {} /\ locate(Data(original)) # Refused
  BY DEF transformBytes, Data
<1>2. NoBad(Data(original))
  BY <1>1, BadPositions
<1>3. Data(original) \in Seq(Token) /\ (original # None => Data(original) = original)
  BY DataTyped
<1>4. NoMark(Data(original)) \/ \E s \in DOMAIN Data(original) : BlockAt(Data(original), s)
  BY <1>1, <1>3, Found
<1>5. CASE original = None
  <2>1. NoMark(Data(original))
    BY <1>5 DEF Data, NoMark
  <2> QED
    BY <1>2, <2>1
<1>6. CASE original # None
  BY <1>2, <1>3, <1>4, <1>6
<1> QED
  BY <1>5, <1>6

\* Install adds no byte that does not decode.
LEMMA InstalledDecodes ==
  ASSUME NEW data \in Seq(Token), NEW original, NoBad(data)
  PROVE  NoBad(installed(original, data, NoBlock))
<1> DEFINE after == installed(original, data, NoBlock)
           n     == Filled(data)
<1>1. /\ after \in Seq(Token) /\ Len(after) = n + 2
      /\ n \in Nat /\ n = Len(data) + (IF NeedsLine(data) THEN 1 ELSE 0)
      /\ \A i \in 1 .. Len(data) : after[i] = data[i]
      /\ NeedsLine(data) => after[n] = "lf"
      /\ after[n + 1] = startLine(NeedsLine(data), original = None)
      /\ after[n + 2] = "body"
  BY Appended
<1> HIDE DEF after, n
<1>2. /\ Len(data) \in Nat /\ n \in Nat
      /\ NeedsLine(data) => n = Len(data) + 1
      /\ ~NeedsLine(data) => n = Len(data)
  BY <1>1, LenProperties
<1>3. DOMAIN after = 1 .. n + 2
  BY <1>1, LenProperties
<1>4. DOMAIN data = 1 .. Len(data)
  BY LenProperties
<1>5. ASSUME NEW i \in DOMAIN after PROVE after[i] # "bad"
  <2>1. CASE i \in 1 .. Len(data)
    BY <1>1, <1>4, <2>1 DEF NoBad
  <2>2. CASE i = n /\ NeedsLine(data)
    BY <1>1, <2>2
  <2>3. CASE i = n + 1
    BY <1>1, <2>3 DEF startLine
  <2>4. CASE i = n + 2
    BY <1>1, <2>4
  <2> QED
    BY <1>2, <1>3, <2>1, <2>2, <2>3, <2>4
<1> QED
  BY <1>5 DEF NoBad, after

\* Remove leaves none in a file that decoded.
LEMMA RestDecodes ==
  ASSUME NEW data \in Seq(Token), NEW s, NoBad(data), BlockAt(data, s)
  PROVE  NoBad(remaining(data, BlockOf(data, s)))
<1> DEFINE block == BlockOf(data, s)
           rest  == remaining(data, block)
           gap   == Len(Glue(data, block))
<1>1. /\ block.start \in 1 .. Len(data) /\ block.end \in 1 .. Len(data) + 1
      /\ Len(data) \in Nat
  BY BlockOfTyped, LenProperties
<1>2. /\ rest \in Seq(Token) /\ gap \in {0, 1}
      /\ Len(rest) = block.start - 1 + gap + (Len(data) + 1 - block.end)
      /\ \A i \in 1 .. block.start - 1 : rest[i] = data[i]
      /\ gap = 1 => rest[block.start] = "lf"
      /\ \A i \in 1 .. Len(data) + 1 - block.end :
           rest[block.start - 1 + gap + i] = data[block.end + i - 1]
  BY Left
<1> HIDE DEF block, rest, gap
<1>3. DOMAIN rest = 1 .. Len(rest)
  BY <1>2, LenProperties
<1>4. DOMAIN data = 1 .. Len(data)
  BY LenProperties
<1>5. ASSUME NEW i \in DOMAIN rest PROVE rest[i] # "bad"
  <2>0. i \in Int /\ gap \in Int /\ i <= block.start - 1 + gap + (Len(data) + 1 - block.end)
    BY <1>2, <1>3
  <2>1. CASE i < block.start
    <3>1. i \in 1 .. block.start - 1 /\ i \in DOMAIN data
      BY <1>1, <1>3, <1>4, <2>1
    <3> QED
      BY <1>2, <3>1 DEF NoBad
  <2>2. CASE gap = 1 /\ i = block.start
    BY <1>2, <2>2
  <2>3. CASE i >= block.start + gap
    <3> DEFINE k == i - (block.start - 1 + gap)
    <3>1. k \in 1 .. Len(data) + 1 - block.end
      BY <1>1, <2>0, <2>3
    <3>2. i = block.start - 1 + gap + k
      BY <1>1, <2>0
    <3> HIDE DEF k
    <3>3. rest[i] = data[block.end + k - 1]
      BY <1>2, <3>1, <3>2
    <3>4. block.end + k - 1 \in DOMAIN data
      BY <1>1, <1>4, <3>1
    <3> QED
      BY <3>3, <3>4 DEF NoBad
  <2>4. i < block.start \/ (gap = 1 /\ i = block.start) \/ i >= block.start + gap
    BY <1>1, <1>2, <2>0
  <2> QED
    BY <2>1, <2>2, <2>3, <2>4
<1> QED
  BY <1>5 DEF NoBad, rest, block

---------------------------------------------------------------------------
(* The file of every state is typed.                                       *)

ContentOK == content \in {None} \cup Seq(Token)

\* What the helper makes of a file, and how: the four ways it acts.
LEMMA RunTyped ==
  ASSUME NEW original \in {None} \cup Seq(Token), NEW action \in Action,
         transformBytes(original, action) # Refused
  PROVE  transformBytes(original, action) \in {None} \cup Seq(Token)
<1>1. Data(original) \in Seq(Token)
  BY DataTyped
<1>2. NoBad(Data(original))
  BY Accepted
<1>3. CASE NoMark(Data(original))
  <2>1. installed(original, Data(original), NoBlock) \in Seq(Token)
    BY <1>1, Appended
  <2> QED
    BY <1>2, <1>3, <2>1, PlainRun
<1>4. CASE original # None /\ \E s \in DOMAIN original : BlockAt(original, s)
  <2>1. PICK s \in DOMAIN original : BlockAt(original, s)
    BY <1>4
  <2>2. original \in Seq(Token) /\ NoBad(original)
    BY <1>2, <1>4, DataTyped
  <2>3. remaining(original, BlockOf(original, s)) \in Seq(Token)
    BY <2>1, <2>2, Left
  <2> QED
    BY <2>1, <2>2, <2>3, BlockRun
<1> QED
  BY <1>3, <1>4, Accepted

LEMMA Edited ==
  ASSUME NEW data \in Seq(Token), NEW i \in 1 .. Len(data) + 1, NEW token \in Token
  PROVE  /\ InsertAt(data, i, token) \in Seq(Token)
         /\ RemoveAt(data, i) \in Seq(Token)
<1>1. Len(data) \in Nat /\ i \in Int /\ i - 1 \in Int /\ i + 1 \in Int
  BY LenProperties
<1>2. \A j \in 1 .. Len(data) : data[j] \in Token
  BY ElementOfSeq
<1>3. SubSeq(data, 1, i - 1) \in Seq(Token)
  <2>1. \A j \in 1 .. i - 1 : data[j] \in Token
    BY <1>1, <1>2
  <2> QED
    BY <1>1, <2>1, SubSeqProperties
<1>4. SubSeq(data, i, Len(data)) \in Seq(Token)
  <2>1. \A j \in i .. Len(data) : data[j] \in Token
    BY <1>1, <1>2
  <2> QED
    BY <1>1, <2>1, SubSeqProperties
<1>5. SubSeq(data, i + 1, Len(data)) \in Seq(Token)
  <2>1. \A j \in i + 1 .. Len(data) : data[j] \in Token
    BY <1>1, <1>2
  <2> QED
    BY <1>1, <2>1, SubSeqProperties
<1>6. <<token>> \in Seq(Token)
  OBVIOUS
<1>7. SubSeq(data, 1, i - 1) \o <<token>> \in Seq(Token)
  BY <1>3, <1>6, ConcatProperties
<1>8. (SubSeq(data, 1, i - 1) \o <<token>>) \o SubSeq(data, i, Len(data)) \in Seq(Token)
  BY <1>4, <1>7, ConcatProperties
<1>9. SubSeq(data, 1, i - 1) \o SubSeq(data, i + 1, Len(data)) \in Seq(Token)
  BY <1>3, <1>5, ConcatProperties
<1> QED
  BY <1>8, <1>9 DEF InsertAt, RemoveAt

LEMMA ContentTyped == Spec => []ContentOK
<1>1. Init => ContentOK
  BY EmptySeq DEF Init, ContentOK
<1>2. ContentOK /\ [Next]_vars => ContentOK'
  <2> SUFFICES ASSUME ContentOK, [Next]_vars PROVE ContentOK'
    OBVIOUS
  <2>1. CASE OwnerInserts
    <3>1. content \in Seq(Token)
      BY <2>1 DEF OwnerInserts, ContentOK
    <3> QED
      BY <2>1, <3>1, Edited DEF OwnerInserts, ContentOK
  <2>2. CASE OwnerErases
    <3>1. content \in Seq(Token)
      BY <2>2 DEF OwnerErases, ContentOK
    <3>2. DOMAIN content \subseteq 1 .. Len(content) + 1
      BY <3>1, LenProperties
    <3>3. PICK i \in DOMAIN content : content' = RemoveAt(content, i)
      BY <2>2 DEF OwnerErases
    <3>4. "lf" \in Token
      BY DEF Token, Breaks
    <3> QED
      BY <3>1, <3>2, <3>3, <3>4, Edited DEF ContentOK
  <2>3. CASE OwnerDeletes
    BY <2>3 DEF OwnerDeletes, ContentOK
  <2>4. CASE OwnerCreates
    BY <2>4, EmptySeq DEF OwnerCreates, ContentOK
  <2>5. CASE HelperRuns
    <3>1. PICK action \in Action : /\ transformBytes(content, action) # Refused
                                   /\ content' = transformBytes(content, action)
      BY <2>5 DEF HelperRuns
    <3> QED
      BY <3>1, RunTyped DEF ContentOK
  <2>6. CASE UNCHANGED vars
    BY <2>6 DEF vars, ContentOK
  <2> QED
    BY <2>1, <2>2, <2>3, <2>4, <2>5, <2>6 DEF Next
<1> QED
  BY <1>1, <1>2, PTL DEF Spec

---------------------------------------------------------------------------
(* Install and remove undo each other and settle.                          *)

\* A block's file is never one without marks.
LEMMA BlockIsMarked ==
  ASSUME NEW data \in Seq(Token), NEW s, BlockAt(data, s)
  PROVE  ~NoMark(data)
<1>1. s \in DOMAIN data
  BY LenProperties DEF BlockAt
<1> QED
  BY <1>1 DEF BlockAt, NoMark, Marked

LEMMA InstallThenRemove ==
  ASSUME NEW original \in {None} \cup Seq(Token), Bare(original)
  PROVE  transformBytes(transformBytes(original, "install"), "remove") = original
<1> DEFINE data  == Data(original)
           after == installed(original, data, NoBlock)
           s     == Filled(data) + 1
           block == BlockOf(after, s)
<1>1. data \in Seq(Token) /\ (original # None => data = original)
  BY DataTyped
<1>2. NoMark(data) /\ NoBad(data)
  <2>1. CASE original = None
    BY <2>1 DEF Data, NoMark, NoBad
  <2>2. CASE original # None
    BY <1>1, <2>2 DEF Bare, Positions, NoMark, NoBad, Marked
  <2> QED
    BY <2>1, <2>2
<1>3. "install" \in Action /\ "remove" \in Action
  BY DEF Action
<1>4. transformBytes(original, "install") = after
  BY <1>2, <1>3, PlainRun
<1>5. after \in Seq(Token) /\ NoBad(after)
  BY <1>1, <1>2, Appended, InstalledDecodes
<1>6. BlockAt(after, s) /\ (block.created <=> original = None)
  BY <1>1, <1>2, InstalledBlock
<1>7. remaining(after, block) = data
  BY <1>1, <1>2, NothingElseAppended
<1>8. transformBytes(after, "remove") =
        IF block.created /\ remaining(after, block) = <<>> THEN None ELSE remaining(after, block)
  BY <1>3, <1>5, <1>6, BlockRun
<1>9. original = None => data = <<>>
  BY DEF Data
<1> QED
  BY <1>1, <1>4, <1>6, <1>7, <1>8, <1>9

\* Once done, a command has nothing left to change, and the helper can go on
\* managing the file.
LEMMA RunSettles ==
  ASSUME NEW original \in {None} \cup Seq(Token), NEW action \in Action,
         NEW changed, changed = transformBytes(original, action), changed # Refused
  PROVE  /\ transformBytes(changed, action) = changed
         /\ changed # None => (locate(changed) = NoBlock <=> action = "remove")
<1> DEFINE data == Data(original)
<1>1. data \in Seq(Token) /\ (original # None => data = original)
  BY DataTyped
<1>2. NoBad(data)
  BY Accepted
<1>3. action \in {"install", "remove"} /\ "install" \in Action /\ "remove" \in Action
  BY DEF Action
<1>4. ASSUME NEW rest \in {None} \cup Seq(Token), NoBad(Data(rest)), NoMark(Data(rest)),
             action = "remove", changed = rest
      PROVE  /\ transformBytes(changed, action) = changed
             /\ changed # None => locate(changed) = NoBlock
  <2>1. transformBytes(rest, action) = rest /\ locate(Data(rest)) = NoBlock
    BY <1>4, PlainRun
  <2> QED
    BY <1>4, <2>1, DataTyped
<1>5. ASSUME NEW after \in Seq(Token), NEW s, NoBad(after), BlockAt(after, s),
             action = "install", changed = after
      PROVE  /\ transformBytes(changed, action) = changed
             /\ locate(changed) # NoBlock
  <2>1. transformBytes(after, action) = after
    BY <1>5, BlockRun
  <2>2. locate(after) # NoBlock
    BY <1>5, Located, BlockOfTyped
  <2> QED
    BY <1>5, <2>1, <2>2
<1>6. CASE NoMark(data)
  <2>1. CASE action = "remove"
    <3>1. changed = original
      BY <1>2, <1>6, <2>1, PlainRun
    <3> QED
      BY <1>2, <1>4, <1>6, <2>1, <3>1
  <2>2. CASE action = "install"
    <3> DEFINE after == installed(original, data, NoBlock)
    <3>1. changed = after
      BY <1>2, <1>6, <2>2, PlainRun
    <3>2. after \in Seq(Token) /\ NoBad(after) /\ BlockAt(after, Filled(data) + 1)
      BY <1>1, <1>2, <1>6, Appended, InstalledDecodes, InstalledBlock
    <3> QED
      BY <1>5, <2>2, <3>1, <3>2
  <2> QED
    BY <1>3, <2>1, <2>2
<1>7. CASE original # None /\ \E s \in DOMAIN original : BlockAt(original, s)
  <2>1. PICK s \in DOMAIN original : BlockAt(original, s)
    BY <1>7
  <2>2. original \in Seq(Token) /\ NoBad(original)
    BY <1>1, <1>2, <1>7
  <2>3. CASE action = "remove"
    <3> DEFINE rest == remaining(original, BlockOf(original, s))
    <3>1. rest \in Seq(Token) /\ NoMark(rest) /\ NoBad(rest)
      BY <2>1, <2>2, Left, NothingMarkedIsLeft, RestDecodes
    <3>2. changed \in {None, rest} /\ (changed = None => rest = <<>>)
      <4>1. rest # None
        BY <3>1, TokensAssumption
      <4>2. changed = IF BlockOf(original, s).created /\ rest = <<>> THEN None ELSE rest
        BY <2>1, <2>2, <2>3, BlockRun
      <4> QED
        BY <4>1, <4>2
    <3>3. changed \in {None} \cup Seq(Token)
      BY <3>1, <3>2
    <3>4. NoBad(Data(changed)) /\ NoMark(Data(changed))
      <4>1. Data(changed) = rest
        BY <3>1, <3>2, DataTyped DEF Data
      <4> QED
        BY <3>1, <4>1
    <3> QED
      BY <1>4, <2>3, <3>3, <3>4
  <2>4. CASE action = "install"
    <3>1. changed = original
      BY <2>1, <2>2, <2>4, BlockRun
    <3> QED
      BY <1>5, <2>1, <2>2, <2>4, <3>1
  <2> QED
    BY <1>3, <2>3, <2>4
<1> QED
  BY <1>6, <1>7, Accepted

\* In every state, for a file of any length: installing and removing gives
\* back a file without a block byte for byte (None for none), a command run
\* twice does what it does once, and the helper accepts what it wrote.
THEOREM BlockRoundTrip == Spec => []RoundTrip
<1>1. ContentOK => RoundTrip
  BY InstallThenRemove, RunSettles DEF ContentOK, RoundTrip
<1> QED
  BY <1>1, ContentTyped, PTL

---------------------------------------------------------------------------
(* The owner's lines.                                                      *)

LEMMA SameTexts ==
  ASSUME NEW data, NEW changed, TextsOf(changed) = TextsOf(data)
  PROVE  SameLines(data, changed)
<1> DEFINE at == [p \in TextsOf(data) |-> p]
<1>1. at \in [TextsOf(data) -> TextsOf(changed)]
  OBVIOUS
<1>2. \A p \in TextsOf(data) : at[p] = p
  OBVIOUS
<1> HIDE DEF at
<1> QED
  BY <1>1, <1>2 DEF SameLines

\* Install appends no text.
LEMMA InstalledLines ==
  ASSUME NEW data \in Seq(Token), NEW original
  PROVE  Positions(installed(original, data, NoBlock), {"text"}) = Positions(data, {"text"})
<1> DEFINE after == installed(original, data, NoBlock)
           n     == Filled(data)
<1>1. /\ after \in Seq(Token) /\ Len(after) = n + 2
      /\ n \in Nat /\ n = Len(data) + (IF NeedsLine(data) THEN 1 ELSE 0)
      /\ \A i \in 1 .. Len(data) : after[i] = data[i]
      /\ NeedsLine(data) => after[n] = "lf"
      /\ after[n + 1] = startLine(NeedsLine(data), original = None)
      /\ after[n + 2] = "body"
  BY Appended
<1> HIDE DEF after, n
<1>2. /\ Len(data) \in Nat /\ n \in Nat
      /\ NeedsLine(data) => n = Len(data) + 1
      /\ ~NeedsLine(data) => n = Len(data)
  BY <1>1, LenProperties
<1>3. DOMAIN after = 1 .. n + 2
  BY <1>1, LenProperties
<1>4. DOMAIN data = 1 .. Len(data)
  BY LenProperties
<1>5. ASSUME NEW i \in DOMAIN after, after[i] = "text" PROVE i \in DOMAIN data /\ data[i] = "text"
  <2>1. CASE i \in 1 .. Len(data)
    BY <1>1, <1>4, <1>5, <2>1
  <2>2. CASE i = n /\ NeedsLine(data)
    BY <1>1, <1>5, <2>2
  <2>3. CASE i = n + 1
    BY <1>1, <1>5, <2>3 DEF startLine
  <2>4. CASE i = n + 2
    BY <1>1, <1>5, <2>4
  <2> QED
    BY <1>2, <1>3, <2>1, <2>2, <2>3, <2>4
<1>6. ASSUME NEW i \in DOMAIN data, data[i] = "text" PROVE i \in DOMAIN after /\ after[i] = "text"
  <2>0. n = Len(data) \/ n = Len(data) + 1
    BY <1>2
  <2>a. i \in 1 .. Len(data)
    BY <1>4, Zenon
  <2>1. i \in 1 .. n + 2
    BY <1>2, <2>a, <2>0
  <2> QED
    BY <1>1, <1>3, <1>4, <1>6, <2>1
<1> QED
  BY <1>5, <1>6 DEF Positions, after

\* A text stays where it is before the block, and moves up behind it.
LEMMA RestTexts ==
  ASSUME NEW data \in Seq(Token), NEW s, BlockAt(data, s)
  PROVE  LET block == BlockOf(data, s)
             rest  == remaining(data, block)
             gap   == Len(Glue(data, block))
             texts == Positions(data, {"text"})
         IN /\ \A q \in Int :
                 q \in Positions(rest, {"text"}) <=>
                   (\/ q < block.start /\ q \in texts
                    \/ q >= block.start + gap /\ q + (block.end - block.start - gap) \in texts)
            /\ \A p \in texts : p < block.start \/ p >= block.end
<1> DEFINE block == BlockOf(data, s)
           rest  == remaining(data, block)
           gap   == Len(Glue(data, block))
           texts == Positions(data, {"text"})
           left  == Positions(rest, {"text"})
           cut   == block.end - block.start - gap
<1>1. /\ block.start \in 1 .. Len(data) /\ block.end \in 1 .. Len(data) + 1
      /\ Len(data) \in Nat /\ s \in Nat /\ s + 1 \in Nat
      /\ block.end = s + 2
      /\ hasSeparator(data[s]) => block.start = s - 1
      /\ ~hasSeparator(data[s]) => block.start = s
  BY BlockOfTyped, LenProperties DEF BlockAt, BlockOf
<1>2. /\ rest \in Seq(Token) /\ gap \in {0, 1}
      /\ Len(rest) = block.start - 1 + gap + (Len(data) + 1 - block.end)
      /\ \A i \in 1 .. block.start - 1 : rest[i] = data[i]
      /\ gap = 1 => rest[block.start] = "lf"
      /\ \A i \in 1 .. Len(data) + 1 - block.end :
           rest[block.start - 1 + gap + i] = data[block.end + i - 1]
  BY Left
<1>3. \A q : q \in left <=> q \in DOMAIN rest /\ rest[q] = "text"
  BY DEF Positions
<1>4. \A p : p \in texts <=> p \in DOMAIN data /\ data[p] = "text"
  BY DEF Positions
<1>a. /\ data[s] # "text" /\ data[s + 1] # "text"
      /\ hasSeparator(data[s]) => data[s - 1] # "text"
  BY DEF BlockAt, Start
<1> HIDE DEF block, rest, gap, texts, left
<1>5. DOMAIN rest = 1 .. Len(rest) /\ DOMAIN data = 1 .. Len(data)
  BY <1>2, LenProperties
<1>6. ASSUME NEW p \in texts PROVE p < block.start \/ p >= block.end
  <2>1. p \in Int /\ p # s /\ p # s + 1 /\ (hasSeparator(data[s]) => p # s - 1)
    BY <1>4, <1>5, <1>a
  <2> QED
    BY <1>1, <2>1
<1>7. ASSUME NEW q \in Int
      PROVE  q \in left <=> (\/ q < block.start /\ q \in texts
                             \/ q >= block.start + gap /\ q + cut \in texts)
  <2>1. CASE q < block.start
    <3>1. q \in DOMAIN rest <=> q \in 1 .. block.start - 1
      BY <1>1, <1>2, <1>5, <2>1
    <3>2. q \in DOMAIN data <=> q \in 1 .. block.start - 1
      BY <1>1, <1>5, <2>1
    <3>3. ~(q >= block.start + gap)
      BY <1>1, <1>2, <2>1
    <3> QED
      BY <1>2, <1>3, <1>4, <2>1, <3>1, <3>2, <3>3
  <2>2. CASE gap = 1 /\ q = block.start
    BY <1>1, <1>2, <1>3, <2>2
  <2>3. CASE q >= block.start + gap
    <3> DEFINE k == q - (block.start - 1 + gap)
    <3>0. /\ block.start \in Int /\ block.start >= 1 /\ block.end \in Int
          /\ gap \in Int /\ gap >= 0 /\ Len(data) \in Int
      BY <1>1, <1>2
    <3>c. k \in Int /\ k >= 1
      BY <3>0, <2>3
    <3>d. q = block.start - 1 + gap + k
      BY <3>0
    <3>e. q + cut = block.end + k - 1
      BY <3>0
    <3>1. k \in Int /\ k >= 1 /\ q = block.start - 1 + gap + k /\ q + cut = block.end + k - 1
      BY <3>c, <3>d, <3>e
    <3>a. Len(rest) = block.start - 1 + gap + (Len(data) + 1 - block.end)
      BY <1>2
    <3>b. q \in DOMAIN rest <=> q <= Len(rest)
      BY <1>5, <2>3, <3>0, <3>a
    <3> HIDE DEF k
    <3>f. q <= Len(rest) <=> k <= Len(data) + 1 - block.end
      <4>1. \A a, b \in Int : a + k <= a + b <=> k <= b
        BY <3>1
      <4>2. block.start - 1 + gap \in Int /\ Len(data) + 1 - block.end \in Int
        BY <3>0
      <4>3. q = (block.start - 1 + gap) + k
        BY <3>1
      <4> QED
        BY <3>a, <4>1, <4>2, <4>3, Zenon
    <3>2. q \in DOMAIN rest <=> k <= Len(data) + 1 - block.end
      BY <3>b, <3>f, Zenon
    <3> HIDE DEF cut
    <3>3. block.end + k - 1 \in DOMAIN data <=> k <= Len(data) + 1 - block.end
      BY <1>1, <1>5, <3>1
    <3>4. k <= Len(data) + 1 - block.end => rest[q] = data[block.end + k - 1]
      BY <1>1, <1>2, <3>1
    <3>5. ~(q < block.start)
      BY <1>1, <1>2, <2>3
    <3> QED
      BY <1>3, <1>4, <2>3, <3>1, <3>2, <3>3, <3>4, <3>5
  <2>4. q < block.start \/ (gap = 1 /\ q = block.start) \/ q >= block.start + gap
    BY <1>1, <1>2
  <2> QED
    BY <2>1, <2>2, <2>3, <2>4
<1> QED
  BY <1>6, <1>7 DEF block, rest, gap, texts, left

\* The places next to each other over the cut: what follows the text before
\* the block is a line break, or nothing.
LEMMA CutEndsLine ==
  ASSUME NEW data \in Seq(Token), NEW s, BlockAt(data, s),
         BlockOf(data, s).start - 1 \in Positions(data, {"text"})
  PROVE  BlockOf(data, s).start \notin Positions(remaining(data, BlockOf(data, s)), {"text"})
<1> DEFINE block  == BlockOf(data, s)
           rest   == remaining(data, block)
           gap    == Len(Glue(data, block))
           before == Before(data, block)
           behind == Behind(data, block)
<1>1. /\ block.start \in 1 .. Len(data) /\ block.end \in 1 .. Len(data) + 1
      /\ Len(data) \in Nat
  BY BlockOfTyped, LenProperties
<1>2. /\ rest \in Seq(Token) /\ gap = IF NeedsSeparator(data, block) THEN 1 ELSE 0
      /\ Len(rest) = block.start - 1 + gap + (Len(data) + 1 - block.end)
      /\ gap = 1 => rest[block.start] = "lf"
      /\ \A i \in 1 .. Len(data) + 1 - block.end :
           rest[block.start - 1 + gap + i] = data[block.end + i - 1]
  BY Left
<1>3. /\ before \in Seq(Token) /\ Len(before) = block.start - 1
      /\ \A i \in 1 .. block.start - 1 : before[i] = data[i]
      /\ behind \in Seq(Token) /\ Len(behind) = Len(data) + 1 - block.end
      /\ \A i \in 1 .. Len(data) + 1 - block.end : behind[i] = data[block.end + i - 1]
  BY Sides
<1>4. block.start - 1 \in DOMAIN data /\ data[block.start - 1] = "text"
  BY DEF Positions
<1>5. DOMAIN data = 1 .. Len(data)
  BY LenProperties
<1>6. block.start \in DOMAIN rest => block.start <= Len(rest)
  BY <1>2, LenProperties
<1> HIDE DEF block, rest, gap, before, behind
<1>7. /\ block.start - 1 \in 1 .. block.start - 1
  BY <1>1, <1>4, <1>5
<1>8. before # <<>> /\ ~endsWith(before, Breaks)
  <2>1. before[Len(before)] = "text" /\ Len(before) # 0
    BY <1>1, <1>3, <1>4, <1>7
  <2> QED
    BY <2>1, EmptySeq DEF endsWith, Breaks
<1>9. CASE NeedsSeparator(data, block)
  BY <1>2, <1>9 DEF Positions, rest, block
<1>10. CASE behind = <<>>
  <2>1. ~NeedsSeparator(data, block)
    BY <1>10 DEF NeedsSeparator, behind
  <2>2. gap = 0
    BY <1>2, <2>1
  <2>3. Len(behind) = 0
    BY <1>10, EmptySeq
  <2>a. Len(rest) = block.start - 1 + gap + (Len(data) + 1 - block.end)
    BY <1>2
  <2>b. Len(data) + 1 - block.end = 0
    BY <1>3, <2>3
  <2>4. Len(rest) = block.start - 1
    BY <1>1, <2>2, <2>a, <2>b
  <2>5. block.start \notin DOMAIN rest
    BY <1>1, <1>6, <2>4
  <2> QED
    BY <2>5 DEF Positions, rest, block
<1>11. CASE behind # <<>> /\ startsWith(behind, Breaks)
  <2>1. ~NeedsSeparator(data, block)
    BY <1>11 DEF NeedsSeparator, behind
  <2>2. gap = 0
    BY <1>2, <2>1
  <2>3. Len(behind) \in Nat /\ Len(behind) # 0
    BY <1>3, <1>11, EmptySeq
  <2>4. 1 \in 1 .. Len(data) + 1 - block.end
    BY <1>1, <1>3, <2>3
  <2>5. rest[block.start - 1 + 0 + 1] = data[block.end + 1 - 1]
    BY <1>2, <2>2, <2>4
  <2>6. behind[1] = data[block.end + 1 - 1]
    BY <1>3, <2>4
  <2>7. rest[block.start] = behind[1]
    BY <1>1, <2>5, <2>6
  <2>8. rest[block.start] \in Breaks
    BY <1>11, <2>7 DEF startsWith
  <2> QED
    BY <2>8 DEF Positions, rest, block, Breaks
<1> QED
  BY <1>8, <1>9, <1>10, <1>11 DEF NeedsSeparator, before, behind

LEMMA RestLines ==
  ASSUME NEW data \in Seq(Token), NEW s, BlockAt(data, s), NEW changed,
         TextsOf(changed) = Positions(remaining(data, BlockOf(data, s)), {"text"})
  PROVE  SameLines(data, changed)
<1> DEFINE block == BlockOf(data, s)
           gap   == Len(Glue(data, block))
           cut   == block.end - block.start - gap
           texts == Positions(data, {"text"})
           left  == Positions(remaining(data, block), {"text"})
           at    == [p \in texts |-> IF p < block.start THEN p ELSE p - cut]
<1>1. TextsOf(data) = texts
  BY TokensAssumption DEF TextsOf
<1>2. /\ block.start \in Int /\ block.end \in Int /\ gap \in {0, 1}
      /\ block.start + 2 <= block.end
  <2>1. gap \in {0, 1}
    BY Left
  <2>2. Len(data) \in Nat
    BY LenProperties
  <2> QED
    BY <2>1, <2>2 DEF BlockOf, BlockAt
<1>3. /\ \A q \in Int :
           q \in left <=> (\/ q < block.start /\ q \in texts
                           \/ q >= block.start + gap /\ q + cut \in texts)
      /\ \A p \in texts : p < block.start \/ p >= block.end
  BY RestTexts
<1>4. texts \subseteq Int /\ left \subseteq Int
  <2>1. remaining(data, block) \in Seq(Token)
    BY Left
  <2>2. DOMAIN data = 1 .. Len(data) /\ DOMAIN remaining(data, block) = 1 .. Len(remaining(data, block))
    BY <2>1, LenProperties
  <2> QED
    BY <2>2 DEF Positions
<1>5. block.start - 1 \in texts => block.start \notin left
  BY CutEndsLine
<1> HIDE DEF block, gap, texts, left
<1>6. cut \in Int /\ block.end - cut = block.start + gap
  BY <1>2
<1>7. \A p \in texts : at[p] = IF p < block.start THEN p ELSE p - cut
  OBVIOUS
<1> HIDE DEF at, cut
<1>8. ASSUME NEW p \in texts PROVE at[p] \in left
  <2>1. CASE p < block.start
    BY <1>3, <1>4, <1>7, <2>1
  <2>2. CASE p >= block.end
    <3>1. at[p] = p - cut
      BY <1>2, <1>4, <1>7, <2>2
    <3>2. p - cut \in Int /\ p - cut >= block.start + gap /\ (p - cut) + cut = p
      BY <1>2, <1>4, <1>6, <2>2
    <3> QED
      BY <1>3, <3>1, <3>2
  <2> QED
    BY <1>3, <2>1, <2>2
<1>9. ASSUME NEW q \in left PROVE \E p \in texts : at[p] = q
  <2>1. CASE q < block.start /\ q \in texts
    BY <1>7, <2>1
  <2>2. CASE q >= block.start + gap /\ q + cut \in texts
    <3>1. q \in Int /\ ~(q + cut < block.start) /\ (q + cut) - cut = q
      BY <1>2, <1>4, <1>6, <2>2
    <3> QED
      BY <1>7, <2>2, <3>1
  <2> QED
    BY <1>3, <1>4, <2>1, <2>2
<1>10. ASSUME NEW p \in texts, NEW q \in texts, p < q PROVE at[p] < at[q]
  <2>1. p \in Int /\ q \in Int
    BY <1>4
  <2>2. q < block.start \/ q >= block.end
    BY <1>3
  <2>3. p < block.start \/ p >= block.end
    BY <1>3
  <2>4. at[p] = (IF p < block.start THEN p ELSE p - cut)
    BY <1>7
  <2>5. at[q] = (IF q < block.start THEN q ELSE q - cut)
    BY <1>7
  <2> QED
    BY <1>2, <1>6, <1>10, <2>1, <2>2, <2>3, <2>4, <2>5
<1>11. ASSUME NEW p \in texts PROVE p + 1 \in texts <=> at[p] + 1 \in left
  <2>1. p \in Int
    BY <1>4
  <2>2. CASE p + 1 < block.start
    <3>1. at[p] = p
      BY <1>2, <1>7, <2>1, <2>2
    <3>2. p + 1 \in Int /\ ~(p + 1 >= block.start + gap)
      BY <1>2, <2>1, <2>2
    <3> QED
      BY <1>3, <2>2, <3>1, <3>2
  <2>3. CASE p + 1 = block.start
    <3>1. at[p] = p /\ p = block.start - 1
      BY <1>2, <1>7, <2>1, <2>3
    <3>2. p + 1 \notin texts
      BY <1>2, <1>3, <2>3
    <3> QED
      BY <1>5, <2>3, <3>1, <3>2
  <2>4. CASE p >= block.end
    <3>1. at[p] = p - cut
      BY <1>2, <1>7, <2>1, <2>4
    <3>2. /\ at[p] + 1 \in Int /\ (at[p] + 1) + cut = p + 1
          /\ at[p] + 1 >= block.start + gap /\ ~(at[p] + 1 < block.start)
      BY <1>2, <1>6, <2>1, <2>4, <3>1
    <3> QED
      BY <1>3, <3>2
  <2>5. p + 1 < block.start \/ p + 1 = block.start \/ p >= block.end
    <3>1. p < block.start \/ p >= block.end
      BY <1>3
    <3> QED
      BY <1>2, <2>1, <3>1
  <2> QED
    BY <2>2, <2>3, <2>4, <2>5
<1>12. at \in [texts -> left]
  BY <1>8 DEF at
<1>13. TextsOf(changed) = left
  BY DEF left, block
<1> QED
  BY <1>1, <1>9, <1>10, <1>11, <1>12, <1>13 DEF SameLines

LEMMA LinesStay ==
  ASSUME NEW original \in {None} \cup Seq(Token), NEW action \in Action,
         NEW changed, changed = transformBytes(original, action), changed # Refused
  PROVE  SameLines(original, changed)
<1> DEFINE data == Data(original)
<1>1. data \in Seq(Token) /\ (original # None => data = original)
  BY DataTyped
<1>2. NoBad(data)
  BY Accepted
<1>3. action \in {"install", "remove"}
  BY DEF Action
<1>4. CASE changed = original
  BY <1>4, SameTexts
<1>5. CASE action = "install" /\ NoMark(data)
  <2> DEFINE after == installed(original, data, NoBlock)
  <2>1. changed = after
    BY <1>2, <1>5, PlainRun
  <2>2. after \in Seq(Token) /\ Positions(after, {"text"}) = Positions(data, {"text"})
    BY <1>1, Appended, InstalledLines
  <2>3. after # None
    BY <2>2, TokensAssumption
  <2>4. TextsOf(original) = Positions(data, {"text"})
    BY DEF TextsOf, Data, Positions
  <2>5. TextsOf(changed) = TextsOf(original)
    BY <2>1, <2>2, <2>3, <2>4 DEF TextsOf
  <2> QED
    BY <2>5, SameTexts
<1>6. CASE action = "remove" /\ original # None /\ \E s \in DOMAIN original : BlockAt(original, s)
  <2>1. PICK s \in DOMAIN original : BlockAt(original, s)
    BY <1>6
  <2>2. original \in Seq(Token) /\ NoBad(original)
    BY <1>1, <1>2, <1>6
  <2> DEFINE rest == remaining(original, BlockOf(original, s))
  <2>3. changed = IF BlockOf(original, s).created /\ rest = <<>> THEN None ELSE rest
    BY <1>6, <2>1, <2>2, BlockRun
  <2>4. rest \in Seq(Token)
    BY <2>1, <2>2, Left
  <2>5. rest # None
    BY <2>4, TokensAssumption
  <2>6. rest = <<>> => Positions(rest, {"text"}) = {}
    BY DEF Positions
  <2>7. TextsOf(changed) = Positions(rest, {"text"})
    BY <2>3, <2>5, <2>6 DEF TextsOf
  <2> QED
    BY <2>1, <2>2, <2>7, RestLines
<1>7. NoMark(data) \/ (original # None /\ \E s \in DOMAIN original : BlockAt(original, s))
  BY Accepted
<1>8. CASE action = "remove" /\ NoMark(data)
  BY <1>2, <1>4, <1>8, PlainRun
<1>9. CASE action = "install" /\ original # None /\ \E s \in DOMAIN original : BlockAt(original, s)
  <2>1. changed = original
    BY <1>1, <1>2, <1>9, BlockRun
  <2> QED
    BY <1>4, <2>1
<1> QED
  BY <1>3, <1>5, <1>6, <1>7, <1>8, <1>9

---------------------------------------------------------------------------
(* Every other byte.                                                       *)

LEMMA InstalledPrefix ==
  ASSUME NEW data \in Seq(Token), NEW original
  PROVE  IsPrefix(data, installed(original, data, NoBlock))
<1> DEFINE after == installed(original, data, NoBlock)
           n     == Len(data)
<1>1. /\ after \in Seq(Token) /\ Len(after) = Filled(data) + 2
      /\ Filled(data) \in Nat /\ Filled(data) = n + (IF NeedsLine(data) THEN 1 ELSE 0)
      /\ \A i \in 1 .. n : after[i] = data[i]
  BY Appended
<1>2. SubSeq(data, 1, n) = data
  BY SubSeqFull
<1>3. n \in Nat
  BY LenProperties
<1> HIDE DEF after, n
<1>4. n <= Len(after)
  BY <1>1, <1>3
<1>5. /\ SubSeq(after, 1, n) \in Seq(Token)
      /\ Len(SubSeq(after, 1, n)) = IF 1 <= n THEN n - 1 + 1 ELSE 0
      /\ \A i \in 1 .. n - 1 + 1 : SubSeq(after, 1, n)[i] = after[1 + i - 1]
  <2>1. \A i \in 1 .. n : after[i] \in Token
    BY <1>1, ElementOfSeq DEF n
  <2>2. 1 \in Int /\ n \in Int
    BY <1>3
  <2> QED
    BY <2>1, <2>2, SubSeqProperties
<1>6. Len(SubSeq(after, 1, n)) = n
  BY <1>3, <1>5
<1>7. \A i \in 1 .. n : SubSeq(after, 1, n)[i] = data[i]
  BY <1>1, <1>3, <1>5
<1>8. SubSeq(after, 1, n) = data
  BY <1>5, <1>6, <1>7, SeqEqual DEF n
<1> QED
  BY <1>2, <1>4, <1>8 DEF IsPrefix, after, n

LEMMA SameIsPrefix ==
  ASSUME NEW data \in Seq(Token)
  PROVE  IsPrefix(data, data)
<1>1. Len(data) \in Nat
  BY LenProperties
<1> QED
  BY <1>1 DEF IsPrefix

\* The block is one piece, as install puts it in.
LEMMA BlockIsInstalled ==
  ASSUME NEW data \in Seq(Token), NEW s, BlockAt(data, s)
  PROVE  LET block == BlockOf(data, s) IN
         Installed(SubSeq(data, block.start - 1 + 1, block.end - 1))
<1> DEFINE block == BlockOf(data, s)
           from  == block.start
           to    == s + 1
           piece == SubSeq(data, from, to)
<1>1. /\ from \in 1 .. Len(data) /\ Len(data) \in Nat /\ s \in Nat
      /\ s \in 1 .. Len(data) - 1
      /\ block.end = s + 2
      /\ hasSeparator(data[s]) => from = s - 1
      /\ ~hasSeparator(data[s]) => from = s
  BY BlockOfTyped, LenProperties DEF BlockAt, BlockOf
<1>2. /\ data[s] \in Start /\ data[s + 1] = "body"
      /\ hasSeparator(data[s]) => data[s - 1] = "lf"
  BY DEF BlockAt
<1> HIDE DEF block, from, to
<1>3. /\ piece \in Seq(Token)
      /\ Len(piece) = IF from <= to THEN to - from + 1 ELSE 0
      /\ \A i \in 1 .. to - from + 1 : piece[i] = data[from + i - 1]
  <2>1. \A i \in from .. to : data[i] \in Token
    BY <1>1, ElementOfSeq DEF to
  <2>2. from \in Int /\ to \in Int
    BY <1>1 DEF to
  <2> QED
    BY <2>1, <2>2, SubSeqProperties
<1> HIDE DEF piece
<1>4. ASSUME hasSeparator(data[s]) PROVE Installed(piece)
  <2>1. from = s - 1 /\ to = s + 1
    BY <1>1, <1>4 DEF to
  <2>2. Len(piece) = 3 /\ \A i \in 1 .. 3 : piece[i] = data[from + i - 1]
    BY <1>1, <1>3, <2>1
  <2>3. from + 1 - 1 = s - 1 /\ from + 2 - 1 = s /\ from + 3 - 1 = s + 1
    BY <1>1, <2>1
  <2>4. piece[1] = data[s - 1] /\ piece[2] = data[s] /\ piece[3] = data[s + 1]
    BY <2>2, <2>3
  <2> QED
    BY <1>2, <1>4, <2>2, <2>4 DEF Installed, hasSeparator
<1>5. ASSUME ~hasSeparator(data[s]) PROVE Installed(piece)
  <2>1. from = s /\ to = s + 1
    BY <1>1, <1>5 DEF to
  <2>2. Len(piece) = 2 /\ \A i \in 1 .. 2 : piece[i] = data[from + i - 1]
    BY <1>1, <1>3, <2>1
  <2>3. from + 1 - 1 = s /\ from + 2 - 1 = s + 1
    BY <1>1, <2>1
  <2>4. piece[1] = data[s] /\ piece[2] = data[s + 1]
    BY <2>2, <2>3
  <2> QED
    BY <1>2, <1>5, <2>2, <2>4 DEF Installed, hasSeparator, Start
<1>6. Installed(piece)
  BY <1>4, <1>5
<1>7. block.start - 1 + 1 = from /\ block.end - 1 = to
  BY <1>1 DEF from, to
<1> QED
  BY <1>6, <1>7 DEF piece, block

\* What remove leaves is the two sides of the block, with at most a line feed
\* between two that are not empty.
LEMMA RestIsSides ==
  ASSUME NEW data \in Seq(Token), NEW s, BlockAt(data, s)
  PROVE  LET block  == BlockOf(data, s)
             before == Before(data, block)
             behind == Behind(data, block)
             rest   == remaining(data, block)
         IN IF NeedsSeparator(data, block)
              THEN before # <<>> /\ behind # <<>> /\ rest = before \o <<"lf">> \o behind
              ELSE rest = before \o behind
<1> DEFINE block  == BlockOf(data, s)
           before == Before(data, block)
           behind == Behind(data, block)
<1>1. before \in Seq(Token)
  BY Sides
<1>2. remaining(data, block) = (before \o Glue(data, block)) \o behind
  BY RemainingIs
<1>3. CASE NeedsSeparator(data, block)
  BY <1>2, <1>3 DEF NeedsSeparator, Glue
<1>4. CASE ~NeedsSeparator(data, block)
  <2>1. before \o Glue(data, block) = before
    BY <1>1, <1>4, ConcatEmptySeq DEF Glue
  <2> QED
    BY <1>2, <1>4, <2>1
<1> QED
  BY <1>3, <1>4

\* Install appends to the file of every state, whatever its length; remove
\* takes out one piece that install may have put there, and no block is left.
THEOREM OnlyTheBlockChanges == Spec => []OtherBytesKept
<1> DEFINE data == Data(content)
           after(action) == LET changed == transformBytes(content, action)
                            IN IF changed = None THEN <<>> ELSE changed
           Cut(i, j) ==
             LET before == SubSeq(data, 1, i)
                 behind == SubSeq(data, j + 1, Len(data))
             IN /\ i < j /\ Installed(SubSeq(data, i + 1, j))
                /\ \/ after("remove") = before \o behind
                   \/ /\ before # <<>> /\ behind # <<>>
                      /\ after("remove") = before \o <<"lf">> \o behind
<1>1. ASSUME ContentOK, after("install") # Refused PROVE IsPrefix(data, after("install"))
  <2>1. data \in Seq(Token) /\ (content # None => data = content)
    BY <1>1, DataTyped DEF ContentOK
  <2>2. "install" \in Action /\ transformBytes(content, "install") # Refused
    BY <1>1, TokensAssumption DEF Action
  <2>3. NoBad(data)
    BY <1>1, <2>2, Accepted DEF ContentOK
  <2>4. CASE NoMark(data)
    <3>1. transformBytes(content, "install") = installed(content, data, NoBlock)
      BY <1>1, <2>2, <2>3, <2>4, PlainRun DEF ContentOK
    <3>2. installed(content, data, NoBlock) # None
      BY <2>1, Appended, TokensAssumption
    <3> QED
      BY <2>1, <3>1, <3>2, InstalledPrefix
  <2>5. CASE content # None /\ \E s \in DOMAIN content : BlockAt(content, s)
    <3>1. transformBytes(content, "install") = content
      BY <2>1, <2>2, <2>3, <2>5, BlockRun
    <3> QED
      BY <2>1, <2>5, <3>1, SameIsPrefix
  <2> QED
    BY <1>1, <2>2, <2>4, <2>5, Accepted DEF ContentOK
<1>2. ASSUME ContentOK, after("remove") # Refused
      PROVE  /\ after("remove") # data => \E i \in 0 .. Len(data), j \in 0 .. Len(data) : Cut(i, j)
             /\ Positions(after("remove"), Start \cup {"body"}) = {}
  <2>1. data \in Seq(Token) /\ (content # None => data = content)
    BY <1>2, DataTyped DEF ContentOK
  <2>2. "remove" \in Action /\ transformBytes(content, "remove") # Refused
    BY <1>2, TokensAssumption DEF Action
  <2>3. NoBad(data)
    BY <1>2, <2>2, Accepted DEF ContentOK
  <2>4. CASE NoMark(data)
    <3>1. transformBytes(content, "remove") = content
      BY <1>2, <2>2, <2>3, <2>4, PlainRun DEF ContentOK
    <3>2. after("remove") = data
      BY <3>1 DEF Data
    <3>3. Positions(data, Start \cup {"body"}) = {}
      BY <2>4 DEF NoMark, Marked, Positions
    <3> QED
      BY <3>2, <3>3
  <2>5. CASE content # None /\ \E s \in DOMAIN content : BlockAt(content, s)
    <3>1. PICK s \in DOMAIN data : BlockAt(data, s)
      BY <2>1, <2>5
    <3> DEFINE block == BlockOf(data, s)
               rest  == remaining(data, block)
    <3>2. after("remove") = rest
      <4>1. transformBytes(content, "remove") =
              IF block.created /\ rest = <<>> THEN None ELSE rest
        BY <2>1, <2>2, <2>3, <2>5, <3>1, BlockRun
      <4>2. rest # None
        BY <2>1, <3>1, Left, TokensAssumption
      <4> QED
        BY <4>1, <4>2
    <3>3. Positions(rest, Start \cup {"body"}) = {}
      BY <2>1, <3>1, NothingMarkedIsLeft DEF NoMark, Marked, Positions
    <3>4. Cut(block.start - 1, block.end - 1)
      <4>1. /\ block.start \in 1 .. Len(data) /\ block.end \in 1 .. Len(data) + 1
            /\ block.start < block.end /\ Len(data) \in Nat
        BY <2>1, <3>1, BlockOfTyped, LenProperties
      <4>2. Installed(SubSeq(data, block.start - 1 + 1, block.end - 1))
        BY <2>1, <3>1, BlockIsInstalled
      <4>3. IF NeedsSeparator(data, block)
              THEN /\ Before(data, block) # <<>> /\ Behind(data, block) # <<>>
                   /\ rest = Before(data, block) \o <<"lf">> \o Behind(data, block)
              ELSE rest = Before(data, block) \o Behind(data, block)
        BY <2>1, <3>1, RestIsSides
      <4> HIDE DEF data, block, rest, after
      <4>4. block.start - 1 < block.end - 1 /\ block.end - 1 + 1 = block.end
        BY <4>1
      <4>5. /\ SubSeq(data, 1, block.start - 1) = Before(data, block)
            /\ SubSeq(data, block.end - 1 + 1, Len(data)) = Behind(data, block)
        BY <4>4 DEF Before, Behind
      <4> QED
        BY <3>2, <4>2, <4>3, <4>4, <4>5
    <3>5. block.start - 1 \in 0 .. Len(data) /\ block.end - 1 \in 0 .. Len(data)
      BY <2>1, <3>1, BlockOfTyped, LenProperties
    <3> HIDE DEF Cut, block, after, data, rest
    <3>6. \E i \in 0 .. Len(data), j \in 0 .. Len(data) : Cut(i, j)
      BY <3>4, <3>5
    <3> QED
      BY <3>2, <3>3, <3>6
  <2> QED
    BY <1>2, <2>2, <2>4, <2>5, Accepted DEF ContentOK
<1>3. ContentOK => OtherBytesKept
  BY <1>1, <1>2 DEF OtherBytesKept, Data
<1> QED
  BY <1>3, ContentTyped, PTL

---------------------------------------------------------------------------
(* The file as OwnedBlock sees it.                                         *)

OwnPart(own, text) ==
  IF own = <<>> THEN Empty
  ELSE IF Positions(own, Token \ Breaks) = {} THEN Blank
  ELSE text

View(own, blk) == [own |-> own, blk |-> blk, link |-> FALSE]

LEMMA ViewReplaced ==
  ASSUME NEW own \in Own, NEW blk \in BlockState, NEW other \in BlockState
  PROVE  [View(own, blk) EXCEPT !.blk = other] = View(own, other)
<1> DEFINE r == View(own, blk)
           q == View(own, other)
<1>1. r \in Content /\ q \in Content
  BY DEF View, Content
<1>2. r.own = own /\ r.link = FALSE /\ q.own = own /\ q.blk = other /\ q.link = FALSE
  BY DEF View
<1> HIDE DEF r, q
<1>3. [r EXCEPT !.blk = other] \in Content
  BY <1>1 DEF Content
<1>4. [r EXCEPT !.blk = other] = q
  BY <1>1, <1>2, <1>3 DEF Content
<1> QED
  BY <1>4 DEF r, q

LEMMA OwnPartTyped ==
  ASSUME NEW own, NEW text \in Texts
  PROVE  OwnPart(own, text) \in Own
BY DEF OwnPart, Own

\* Whether a file is refused does not depend on the command.
LEMMA RefusalIsCommon ==
  ASSUME NEW original \in {None} \cup Seq(Token), NEW action \in Action,
         NEW other \in Action, transformBytes(original, action) # Refused
  PROVE  transformBytes(original, other) # Refused
<1> DEFINE data == Data(original)
<1>1. data \in Seq(Token) /\ (original # None => data = original)
  BY DataTyped
<1>2. NoBad(data)
  BY Accepted
<1>3. Refused # None /\ \A t \in Seq(Token) : Refused # t
  BY TokensAssumption
<1>4. CASE NoMark(data)
  <2>1. installed(original, data, NoBlock) \in Seq(Token)
    BY <1>1, Appended
  <2> QED
    BY <1>2, <1>3, <1>4, <2>1, PlainRun
<1>5. CASE original # None /\ \E s \in DOMAIN original : BlockAt(original, s)
  <2>1. PICK s \in DOMAIN original : BlockAt(original, s)
    BY <1>5
  <2>2. original \in Seq(Token) /\ NoBad(original)
    BY <1>1, <1>2, <1>5
  <2>3. remaining(original, BlockOf(original, s)) \in Seq(Token)
    BY <2>1, <2>2, Left
  <2> QED
    BY <1>3, <2>1, <2>2, <2>3, BlockRun
<1> QED
  BY <1>4, <1>5, Accepted

LEMMA PlainView ==
  ASSUME NEW data \in Seq(Token), NEW text, NoBad(data), NoMark(data)
  PROVE  Abstract(data, text) = View(OwnPart(data, text), "absent")
<1>1. data # None /\ data # Refused /\ Data(data) = data
  BY TokensAssumption DEF Data
<1>2. transformBytes(data, "remove") = data /\ locate(data) = NoBlock
  <2>1. "remove" \in Action
    BY DEF Action
  <2> QED
    BY <1>1, <2>1, PlainRun
<1>3. OwnerTokens(data) = data
  BY <1>2 DEF OwnerTokens
<1> QED
  BY <1>1, <1>2, <1>3 DEF Abstract, View, OwnPart

LEMMA BlockView ==
  ASSUME NEW data \in Seq(Token), NEW s, NEW text, NoBad(data), BlockAt(data, s)
  PROVE  LET block == BlockOf(data, s) IN
         /\ Abstract(data, text) =
              View(OwnPart(Before(data, block) \o Behind(data, block), text),
                   IF block.created THEN "created" ELSE "present")
         /\ Abstract(data, text) # None => HasBlock(Abstract(data, text))
<1> DEFINE block == BlockOf(data, s)
           own   == Before(data, block) \o Behind(data, block)
<1>1. data # None
  BY TokensAssumption
<1>2. locate(data) = block /\ block # NoBlock /\ block # Refused
  BY Located, BlockOfTyped
<1>3. "remove" \in Action
  BY DEF Action
<1>4. transformBytes(data, "remove") # Refused
  <2>1. remaining(data, block) \in Seq(Token)
    BY Left
  <2> QED
    BY <1>3, <2>1, BlockRun, TokensAssumption
<1>5. OwnerTokens(data) = own
  BY <1>2 DEF OwnerTokens, Before, Behind
<1> HIDE DEF block
<1>6. Abstract(data, text) =
        View(OwnPart(own, text), IF block.created THEN "created" ELSE "present")
  BY <1>1, <1>2, <1>4, <1>5 DEF Abstract, View, OwnPart
<1>7. Abstract(data, text) # None => HasBlock(Abstract(data, text))
  BY <1>6 DEF HasBlock, View
<1> QED
  BY <1>6, <1>7 DEF block

\* The owner's part of what is left is the owner's part of the file: a line
\* feed put in stands between two texts.
LEMMA SameOwnPart ==
  ASSUME NEW data \in Seq(Token), NEW s, NEW text, BlockAt(data, s)
  PROVE  LET block == BlockOf(data, s)
             own   == Before(data, block) \o Behind(data, block)
             rest  == remaining(data, block)
         IN /\ OwnPart(rest, text) = OwnPart(own, text)
            /\ rest = <<>> <=> own = <<>>
<1> DEFINE block  == BlockOf(data, s)
           before == Before(data, block)
           behind == Behind(data, block)
           rest   == remaining(data, block)
<1>1. IF NeedsSeparator(data, block)
        THEN before # <<>> /\ behind # <<>> /\ rest = before \o <<"lf">> \o behind
        ELSE rest = before \o behind
  BY RestIsSides
<1>2. before \in Seq(Token) /\ behind \in Seq(Token)
  BY Sides
<1>3. NeedsSeparator(data, block) => ~endsWith(before, Breaks)
  BY DEF NeedsSeparator
<1> HIDE DEF block, before, behind, rest
<1>4. CASE ~NeedsSeparator(data, block)
  BY <1>1, <1>4 DEF block, before, behind, rest
<1>5. CASE NeedsSeparator(data, block)
  <2>1. before # <<>> /\ ~endsWith(before, Breaks)
    BY <1>1, <1>3, <1>5
  <2> DEFINE n == Len(before)
  <2>2. n \in Nat /\ n \in 1 .. n /\ n \in DOMAIN before
    BY <1>2, <2>1, LenProperties, EmptySeq
  <2>3. before[n] \in Token /\ before[n] \notin Breaks
    BY <1>2, <2>1, <2>2, ElementOfSeq DEF endsWith
  <2>4. ASSUME NEW c \in Seq(Token), NEW whole, whole = before \o c
        PROVE  whole # <<>> /\ Positions(whole, Token \ Breaks) # {}
    <3>1. /\ whole \in Seq(Token) /\ Len(whole) = n + Len(c)
          /\ \A i \in 1 .. n + Len(c) : whole[i] = IF i <= n THEN before[i] ELSE c[i - n]
      BY <1>2, <2>4, ConcatProperties
    <3>2. Len(c) \in Nat
      BY LenProperties
    <3>3. n \in 1 .. n + Len(c)
      BY <2>2, <3>2
    <3>4. n \in DOMAIN whole /\ whole[n] = before[n]
      BY <2>2, <3>1, <3>3, LenProperties
    <3> QED
      BY <2>3, <3>1, <3>4 DEF Positions
  <2>5. before \o behind # <<>> /\ Positions(before \o behind, Token \ Breaks) # {}
    BY <1>2, <2>4
  <2>6. rest # <<>> /\ Positions(rest, Token \ Breaks) # {}
    <3>1. <<"lf">> \in Seq(Token)
      BY DEF Token, Breaks
    <3>2. <<"lf">> \o behind \in Seq(Token)
      BY <1>2, <3>1, ConcatProperties
    <3>3. (before \o <<"lf">>) \o behind = before \o (<<"lf">> \o behind)
      BY <1>2, <3>1, ConcatAssociative
    <3> QED
      BY <1>1, <1>5, <2>4, <3>2, <3>3
  <2> QED
    BY <2>5, <2>6 DEF OwnPart, block, before, behind, rest
<1> QED
  BY <1>4, <1>5

\* The owner's part of what install wrote is the file it wrote to.
LEMMA InstalledOwnPart ==
  ASSUME NEW data \in Seq(Token), NEW original, NoMark(data)
  PROVE  LET after == installed(original, data, NoBlock)
             block == BlockOf(after, Filled(data) + 1)
         IN Before(after, block) \o Behind(after, block) = data
<1> DEFINE after == installed(original, data, NoBlock)
           block == BlockOf(after, Filled(data) + 1)
<1>1. after \in Seq(Token) /\ Len(after) \in Nat
  BY Appended, LenProperties
<1>2. BlockAt(after, Filled(data) + 1) /\ block.end = Len(after) + 1
  BY InstalledBlock
<1>3. Behind(after, block) \in Seq(Token) /\ Len(Behind(after, block)) = Len(after) + 1 - block.end
  BY <1>1, <1>2, Sides
<1>4. remaining(after, block) = data
  BY NothingElseAppended
<1>5. IF NeedsSeparator(after, block)
        THEN /\ Before(after, block) # <<>> /\ Behind(after, block) # <<>>
             /\ remaining(after, block) = Before(after, block) \o <<"lf">> \o Behind(after, block)
        ELSE remaining(after, block) = Before(after, block) \o Behind(after, block)
  BY <1>1, <1>2, RestIsSides
<1> HIDE DEF after, block
<1>6. Behind(after, block) = <<>>
  BY <1>1, <1>2, <1>3, EmptySeq
<1>7. ~NeedsSeparator(after, block)
  BY <1>6 DEF NeedsSeparator
<1> QED
  BY <1>4, <1>5, <1>7 DEF after, block

LEMMA ViewIsContent ==
  ASSUME NEW data \in Seq(Token), NEW text \in Texts
  PROVE  /\ Abstract(data, text) \in Content
         /\ Abstract(data, text) # None
         /\ Abstract(data, text).blk = "edited" <=> transformBytes(data, "remove") = Refused
<1>1. data # None
  BY TokensAssumption
<1> DEFINE own == OwnPart(OwnerTokens(data), text)
           blk == IF transformBytes(data, "remove") = Refused THEN "edited"
                  ELSE IF locate(data) = NoBlock THEN "absent"
                  ELSE IF locate(data).created THEN "created" ELSE "present"
<1>2. Abstract(data, text) = View(own, blk)
  BY <1>1 DEF Abstract, View, OwnPart
<1>3. own \in Own
  BY DEF OwnPart, Own
<1>4. blk \in BlockState /\ (blk = "edited" <=> transformBytes(data, "remove") = Refused)
  BY DEF BlockState
<1> HIDE DEF own, blk
<1>5. View(own, blk) \in Content /\ View(own, blk).blk = blk
  BY <1>3, <1>4 DEF View, Content
<1> QED
  BY <1>2, <1>4, <1>5, NoneAssumption

LEMMA ViewCommutes ==
  ASSUME NEW original \in {None} \cup Seq(Token), NEW action \in Action, NEW text \in Texts,
         NEW changed, changed = transformBytes(original, action), changed # Refused
  PROVE  /\ ~Raises(Abstract(original, text))
         /\ Abstract(changed, text) = transform(Abstract(original, text), action)
<1> DEFINE data == Data(original)
           view == Abstract(original, text)
<1>1. data \in Seq(Token) /\ (original # None => data = original)
  BY DataTyped
<1>2. NoBad(data)
  BY Accepted
<1>3. action \in {"install", "remove"} /\ "install" \in Action /\ "remove" \in Action
  BY DEF Action
<1>4. ~Raises(view)
  <2>1. transformBytes(original, "remove") # Refused
    BY <1>3, RefusalIsCommon
  <2>2. CASE original = None
    BY <2>2 DEF Abstract, Raises
  <2>3. CASE original # None
    BY <1>1, <2>1, <2>3, ViewIsContent DEF Raises
  <2> QED
    BY <2>2, <2>3
<1>5. CASE action = "install" /\ NoMark(data)
  <2> DEFINE after == installed(original, data, NoBlock)
             block == BlockOf(after, Filled(data) + 1)
  <2>1. changed = after
    BY <1>2, <1>5, PlainRun
  <2>2. after \in Seq(Token) /\ NoBad(after)
    BY <1>1, <1>2, Appended, InstalledDecodes
  <2>3. BlockAt(after, Filled(data) + 1) /\ (block.created <=> original = None)
    BY <1>1, <1>5, InstalledBlock
  <2>4. Before(after, block) \o Behind(after, block) = data
    BY <1>1, <1>5, InstalledOwnPart
  <2>5. Abstract(after, text) =
          View(OwnPart(Before(after, block) \o Behind(after, block), text),
               IF block.created THEN "created" ELSE "present")
    BY <2>2, <2>3, BlockView
  <2> HIDE DEF after, block
  <2>6. CASE original = None
    <3>1. OwnPart(data, text) = Empty
      BY <2>6 DEF OwnPart, Data
    <3>2. Abstract(changed, text) = View(Empty, "created")
      BY <2>1, <2>3, <2>4, <2>5, <2>6, <3>1
    <3>3. view = None
      BY <2>6 DEF Abstract
    <3> QED
      BY <1>4, <1>5, <3>2, <3>3 DEF transform, InstallBlock, View
  <2>7. CASE original # None
    <3>1. Abstract(changed, text) = View(OwnPart(data, text), "present")
      BY <2>1, <2>3, <2>4, <2>5, <2>7
    <3>2. view = View(OwnPart(data, text), "absent")
      BY <1>1, <1>2, <1>5, <2>7, PlainView
    <3>3. view # None
      BY <1>1, <2>7, ViewIsContent
    <3>4. transform(view, action) = [view EXCEPT !.blk = "present"]
      BY <1>5, <3>2, <3>3 DEF transform, InstallBlock, HasBlock, View
    <3>5. [view EXCEPT !.blk = "present"] = View(OwnPart(data, text), "present")
      <4>1. "present" \in BlockState /\ "absent" \in BlockState /\ OwnPart(data, text) \in Own
        BY OwnPartTyped DEF BlockState
      <4> QED
        BY <3>2, <4>1, ViewReplaced
    <3> QED
      BY <1>4, <3>1, <3>4, <3>5
  <2> QED
    BY <2>6, <2>7
<1>6. CASE action = "remove" /\ NoMark(data)
  <2>1. changed = original
    BY <1>2, <1>6, PlainRun
  <2>2. ~HasBlock(view)
    <3>1. CASE original = None
      BY <3>1 DEF Abstract, HasBlock
    <3>2. CASE original # None
      <4>1. view = View(OwnPart(data, text), "absent")
        BY <1>1, <1>2, <1>6, <3>2, PlainView
      <4> QED
        BY <4>1 DEF HasBlock, View
    <3> QED
      BY <3>1, <3>2
  <2> QED
    BY <1>4, <1>6, <2>1, <2>2 DEF transform, RemoveBlock
<1>7. CASE original # None /\ \E s \in DOMAIN original : BlockAt(original, s)
  <2>1. PICK s \in DOMAIN data : BlockAt(data, s)
    BY <1>1, <1>7
  <2>2. original = data /\ view # None
    BY <1>1, <1>7, ViewIsContent
  <2> DEFINE block == BlockOf(data, s)
             own   == Before(data, block) \o Behind(data, block)
             rest  == remaining(data, block)
  <2>3. /\ view = View(OwnPart(own, text), IF block.created THEN "created" ELSE "present")
        /\ HasBlock(view)
    BY <1>1, <1>2, <2>1, <2>2, BlockView
  <2>4. CASE action = "install"
    <3>1. changed = original
      BY <1>1, <1>2, <2>1, <2>2, <2>4, BlockRun
    <3> QED
      BY <1>4, <2>2, <2>3, <2>4, <3>1 DEF transform, InstallBlock
  <2>5. CASE action = "remove"
    <3>1. changed = IF block.created /\ rest = <<>> THEN None ELSE rest
      BY <1>1, <1>2, <2>1, <2>2, <2>5, BlockRun
    <3>2. rest \in Seq(Token) /\ NoMark(rest) /\ NoBad(rest)
      BY <1>1, <1>2, <2>1, Left, NothingMarkedIsLeft, RestDecodes
    <3>3. OwnPart(rest, text) = OwnPart(own, text) /\ (rest = <<>> <=> own = <<>>)
      BY <1>1, <2>1, SameOwnPart
    <3>4. Abstract(rest, text) = View(OwnPart(rest, text), "absent")
      BY <3>2, PlainView
    <3> HIDE DEF block, own, rest, view
    <3>5. OwnPart(own, text) = Empty <=> own = <<>>
      BY PartsAssumption DEF OwnPart
    <3>6. /\ view.own = OwnPart(own, text)
          /\ view.blk = "created" <=> block.created
      BY <2>3 DEF View
    <3>7. CASE block.created /\ rest = <<>>
      <4>1. changed = None
        BY <3>1, <3>7
      <4>2. transform(view, action) = None
        BY <2>3, <2>5, <3>3, <3>5, <3>6, <3>7 DEF transform, RemoveBlock
      <4>3. Abstract(changed, text) = None
        BY <4>1 DEF Abstract
      <4> QED
        BY <1>4, <4>2, <4>3 DEF view
    <3>8. CASE ~(block.created /\ rest = <<>>)
      <4>1. changed = rest
        BY <3>1, <3>8
      <4>2. transform(view, action) = [view EXCEPT !.blk = "absent"]
        BY <2>3, <2>5, <3>3, <3>5, <3>6, <3>8 DEF transform, RemoveBlock
      <4>3. [view EXCEPT !.blk = "absent"] = View(OwnPart(own, text), "absent")
        <5>1. /\ "absent" \in BlockState /\ OwnPart(own, text) \in Own
              /\ (IF block.created THEN "created" ELSE "present") \in BlockState
          BY OwnPartTyped DEF BlockState
        <5> QED
          BY <2>3, <5>1, ViewReplaced
      <4> QED
        BY <1>4, <3>3, <3>4, <4>1, <4>2, <4>3 DEF view
    <3> QED
      BY <3>7, <3>8
  <2> QED
    BY <1>3, <2>4, <2>5
<1> QED
  BY <1>3, <1>5, <1>6, <1>7, Accepted

\* The record Activation works on is a sound view of the bytes of a file of
\* any length: a command and the view commute, a file is refused exactly when
\* the record is, and the lines its text stands for stay.
THEOREM ViewIsSound == Spec => []Commutes
<1>1. ContentOK => LinesKept
  BY LinesStay DEF ContentOK, LinesKept
<1>2. ASSUME ContentOK, NEW action \in Action, NEW text \in Texts,
             transformBytes(content, action) = Refused
      PROVE  Raises(Abstract(content, text))
  <2>1. "remove" \in Action
    BY DEF Action
  <2>2. transformBytes(content, "remove") = Refused
    BY <1>2, <2>1, RefusalIsCommon DEF ContentOK
  <2>3. content # None
    <3>1. SUFFICES ASSUME content = None PROVE FALSE
      OBVIOUS
    <3>2. NoMark(Data(content)) /\ NoBad(Data(content))
      BY <3>1 DEF Data, NoMark, NoBad
    <3>3. transformBytes(content, "remove") = content
      BY <1>2, <2>1, <3>2, PlainRun DEF ContentOK
    <3> QED
      BY <2>2, <3>1, <3>3, TokensAssumption
  <2> QED
    BY <1>2, <2>2, <2>3, ViewIsContent DEF ContentOK, Raises
<1>3. ContentOK => Commutes
  BY <1>1, <1>2, ViewCommutes DEF Commutes, ContentOK
<1> QED
  BY <1>3, ContentTyped, PTL

=============================================================================
