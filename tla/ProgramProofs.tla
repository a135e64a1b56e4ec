---------------------------- MODULE ProgramProofs ----------------------------
(***************************************************************************)
(* The clocks of KCP for every width of a timestamp and every interval,    *)
(* the word counter and the database example for texts, images, blocks and *)
(* chunks of any length, the phone book for any number of nodes and        *)
(* persons, and the messages of the DNS clients for any host name and any  *)
(* number of records.  Induction along a block, a list or a loop is by the *)
(* least number for which a statement fails.                               *)
(***************************************************************************)
EXTENDS LocalPrograms, SequenceTheorems, FiniteSetTheorems, WellFoundedInduction, TLAPS

LEMMA LeastNat == ASSUME NEW S \in SUBSET Nat, S # {} PROVE \E x \in S : \A y \in S : x <= y
<1>1. PICK x \in S : \A y \in S : ~(<<y, x>> \in OpToRel(<, Nat))
  BY WFMin, NatLessThanWellFounded
<1>2. ASSUME NEW y \in S PROVE x <= y
  <2>1. ~(<<y, x>> \in OpToRel(<, Nat)) BY <1>1
  <2>2. y \in Nat /\ x \in Nat OBVIOUS
  <2>3. ~(y < x) BY <2>1, <2>2 DEF OpToRel
  <2> QED BY <2>3, <2>2
<1> QED BY <1>2

-----------------------------------------------------------------------------
(* The word counter *)

\* The state after n characters.
StatusAt(n) ==
  IF n > 0 /\ Words!is_letter(text[n]) THEN "WORD_EN" ELSE "INTERVAL"

WordInv ==
  /\ text \in Seq(Int) /\ offset \in 0..Len(text) /\ counted \in BOOLEAN
  /\ status = StatusAt(offset) /\ word_cnt = Cardinality(Words!WordStarts(offset))
  /\ counted => offset = Len(text)

LEMMA StartsFinite ==
  ASSUME NEW n \in Nat
  PROVE  IsFiniteSet(Words!WordStarts(n)) /\ Cardinality(Words!WordStarts(n)) \in Nat
<1>1. IsFiniteSet(1..n) BY FS_Interval
<1>2. Words!WordStarts(n) \in SUBSET (1..n) BY DEF Words!WordStarts
<1>3. IsFiniteSet(Words!WordStarts(n)) BY <1>1, <1>2, FS_Subset
<1> QED BY <1>3, FS_CardinalityType

\* What the count should be after n characters, and after one more.
LEMMA ScanCounts ==
  ASSUME NEW n \in Nat, NEW s, s.status = StatusAt(n),
         s.cnt = Cardinality(Words!WordStarts(n))
  PROVE  LET r == Words!Scan(s, text[n + 1]) IN
         r.status = StatusAt(n + 1) /\ r.cnt = Cardinality(Words!WordStarts(n + 1))
<1> DEFINE r == Words!Scan(s, text[n + 1])
           A == Words!WordStarts(n)
           B == Words!WordStarts(n + 1)
<1>1. n + 1 > 0 /\ n + 1 \in Nat /\ (n + 1) - 1 = n OBVIOUS
<1>2. 1..(n + 1) = (1..n) \cup {n + 1} /\ n + 1 \notin 1..n OBVIOUS
<1>3. \A i \in 1..n : i \in B <=> i \in A BY <1>2 DEF Words!WordStarts
<1>4. B \subseteq 1..(n + 1) /\ A \subseteq 1..n BY DEF Words!WordStarts
<1>5. IsFiniteSet(A) BY StartsFinite
<1>6. n + 1 \in B <=>
        Words!is_letter(text[n + 1]) /\ (n = 0 \/ ~Words!is_letter(text[n]))
  BY <1>1, <1>2 DEF Words!WordStarts
<1>7. s.status = "INTERVAL" <=> n = 0 \/ ~Words!is_letter(text[n]) BY DEF StatusAt
<1> HIDE DEF A, B
<1>8. CASE ~Words!is_letter(text[n + 1])
  <2>1. B = A BY <1>2, <1>3, <1>4, <1>6, <1>8
  <2>2. r = [status |-> "INTERVAL", cnt |-> s.cnt] BY <1>8 DEF Words!Scan
  <2>3. r.status = "INTERVAL" /\ r.cnt = s.cnt BY <2>2
  <2> QED BY <2>1, <2>3, <1>8 DEF StatusAt, A, B
<1>9. CASE Words!is_letter(text[n + 1])
  <2>1. StatusAt(n + 1) = "WORD_EN" BY <1>1, <1>9 DEF StatusAt
  <2>2. r = [status |-> "WORD_EN", cnt |-> IF s.status = "INTERVAL" THEN s.cnt + 1 ELSE s.cnt]
    BY <1>9 DEF Words!Scan
  <2>3. r.status = "WORD_EN" /\ r.cnt = IF s.status = "INTERVAL" THEN s.cnt + 1 ELSE s.cnt
    BY <2>2
  <2> HIDE DEF r
  <2>4. CASE s.status = "INTERVAL"
    <3>1. B = A \cup {n + 1} BY <1>2, <1>3, <1>4, <1>6, <1>7, <1>9, <2>4
    <3>2. n + 1 \notin A BY <1>2, <1>4
    <3>3. Cardinality(B) = Cardinality(A) + 1 BY <1>5, <3>1, <3>2, FS_AddElement
    <3> QED BY <2>1, <2>3, <2>4, <3>3 DEF A, B, r
  <2>5. CASE s.status # "INTERVAL"
    <3>1. B = A BY <1>2, <1>3, <1>4, <1>6, <1>7, <2>5
    <3> QED BY <2>1, <2>3, <2>5, <3>1 DEF A, B, r
  <2> QED BY <2>4, <2>5
<1> QED BY <1>8, <1>9

\* A scan of any length exists ...
LEMMA ScanExists ==
  ASSUME NEW R \in Nat
  PROVE  \E f : f = [i \in 0..R |-> IF i = 0 THEN Words!BlockStart
                                    ELSE Words!Scan(f[i - 1], text[offset + i])]
<1> DEFINE Is(f, n) == f = [i \in 0..n |-> IF i = 0 THEN Words!BlockStart
                                           ELSE Words!Scan(f[i - 1], text[offset + i])]
           Bad == {n \in Nat : ~\E f : Is(f, n)}
<1>1. SUFFICES ASSUME Bad # {} PROVE FALSE
  OBVIOUS
<1>2. Bad \in SUBSET Nat OBVIOUS
<1> HIDE DEF Bad
<1>3. PICK n \in Bad : \A m \in Bad : n <= m BY <1>1, <1>2, LeastNat
<1>4. n \in Nat /\ ~\E f : Is(f, n) BY <1>3 DEF Bad
<1>5. CASE n = 0
  <2> DEFINE f == [i \in 0..n |-> Words!BlockStart]
  <2>1. \A i \in 0..n : i = 0 BY <1>5
  <2>2. Is(f, n) BY <2>1
  <2> QED BY <2>2, <1>4
<1>6. CASE n # 0
  <2>1. n - 1 \in Nat /\ ~(n <= n - 1) BY <1>4, <1>6
  <2>2. n - 1 \notin Bad BY <1>3, <2>1
  <2>3. PICK g : Is(g, n - 1) BY <2>1, <2>2 DEF Bad
  <2> DEFINE f == [i \in 0..n |-> IF i = n THEN Words!Scan(g[n - 1], text[offset + n]) ELSE g[i]]
             h == [i \in 0..n |-> IF i = 0 THEN Words!BlockStart
                                  ELSE Words!Scan(f[i - 1], text[offset + i])]
  <2>4. ASSUME NEW i \in 0..n PROVE f[i] = h[i]
    <3>1. CASE i = n
      <4>1. n - 1 \in 0..n /\ n - 1 # n BY <2>1, <1>4
      <4>2. f[n - 1] = g[n - 1] BY <4>1
      <4> QED BY <3>1, <4>2, <1>6, <1>4
    <3>2. CASE i # n
      <4>1. i \in 0..(n - 1) BY <3>2, <1>4
      <4>2. g[i] = IF i = 0 THEN Words!BlockStart ELSE Words!Scan(g[i - 1], text[offset + i])
        BY <4>1, <2>3
      <4>3. f[i] = g[i] BY <3>2
      <4>4. CASE i = 0 BY <4>2, <4>3, <4>4
      <4>5. CASE i # 0
        <5>1. i - 1 \in 0..n /\ i - 1 # n BY <4>1, <4>5, <1>4
        <5>2. f[i - 1] = g[i - 1] BY <5>1
        <5> QED BY <4>2, <4>3, <4>5, <5>2
      <4> QED BY <4>4, <4>5
    <3> QED BY <3>1, <3>2
  <2>5. f = h
    <3>1. f = [i \in 0..n |-> f[i]] /\ h = [i \in 0..n |-> h[i]] OBVIOUS
    <3> HIDE DEF f, h
    <3> QED BY <3>1, <2>4
  <2>6. Is(f, n) BY <2>5
  <2> QED BY <2>6, <1>4
<1> QED BY <1>5, <1>6

LEMMA ScannedIs ==
  ASSUME Words!ReadNum \in Nat
  PROVE  Words!scanned = [i \in 0..Words!ReadNum |->
           IF i = 0 THEN Words!BlockStart ELSE Words!Scan(Words!scanned[i - 1], text[offset + i])]
BY ScanExists DEF Words!scanned

\* ... and counts what it should.
LEMMA ScannedCounts ==
  ASSUME WordInv, Words!ReadNum \in Nat, NEW k \in 0..Words!ReadNum
  PROVE  /\ Words!scanned[k].status = StatusAt(offset + k)
         /\ Words!scanned[k].cnt = Cardinality(Words!WordStarts(offset + k))
<1> DEFINE R == Words!ReadNum
           Good(i) == /\ Words!scanned[i].status = StatusAt(offset + i)
                      /\ Words!scanned[i].cnt = Cardinality(Words!WordStarts(offset + i))
           Bad == {i \in 0..R : ~Good(i)}
<1>1. SUFFICES ASSUME Bad # {} PROVE FALSE
  OBVIOUS
<1>2. offset \in Nat BY DEF WordInv
<1>3. \A i \in 0..R : Words!scanned[i] =
        IF i = 0 THEN Words!BlockStart ELSE Words!Scan(Words!scanned[i - 1], text[offset + i])
  BY ScannedIs
<1>4. Bad \in SUBSET Nat OBVIOUS
<1> HIDE DEF Bad
<1>5. PICK n \in Bad : \A m \in Bad : n <= m BY <1>1, <1>4, LeastNat
<1>6. n \in 0..R /\ ~Good(n) BY <1>5 DEF Bad
<1>7. CASE n = 0
  <2>1. Words!scanned[0] = [status |-> status, cnt |-> word_cnt]
    BY <1>3, <1>6, <1>7 DEF Words!BlockStart
  <2>2. offset + 0 = offset BY <1>2
  <2> QED BY <2>1, <2>2, <1>6, <1>7 DEF WordInv
<1>8. CASE n # 0
  <2> DEFINE s == Words!scanned[n - 1]
             o == offset + (n - 1)
  <2>1. n - 1 \in 0..R /\ ~(n <= n - 1) BY <1>6, <1>8
  <2>2. n - 1 \notin Bad BY <1>5, <2>1
  <2>3. s.status = StatusAt(o) /\ s.cnt = Cardinality(Words!WordStarts(o)) BY <2>1, <2>2 DEF Bad
  <2>4. o \in Nat /\ o + 1 = offset + n BY <1>2, <1>6, <2>1
  <2>5. Words!scanned[n] = Words!Scan(s, text[offset + n]) BY <1>3, <1>6, <1>8
  <2> HIDE DEF s, o
  <2>6. LET r == Words!Scan(s, text[o + 1]) IN
        r.status = StatusAt(o + 1) /\ r.cnt = Cardinality(Words!WordStarts(o + 1))
    BY <2>3, <2>4, ScanCounts
  <2> QED BY <2>4, <2>5, <2>6, <1>6
<1> QED BY <1>7, <1>8

LEMMA WordInitInv == ASSUME Words!Init PROVE WordInv
<1>1. text \in Seq(Int) /\ Len(text) \in Nat BY WordAssumption DEF Words!Init
<1>2. Words!WordStarts(0) = {} BY DEF Words!WordStarts
<1>3. Cardinality(Words!WordStarts(0)) = 0 BY <1>2, FS_EmptySet
<1>4. offset = 0 /\ status = "INTERVAL" /\ word_cnt = 0 /\ ~counted BY DEF Words!Init
<1>5. counted \in BOOLEAN BY Zenon DEF Words!Init
<1>6. status = StatusAt(offset) BY <1>4 DEF StatusAt
<1>7. word_cnt = Cardinality(Words!WordStarts(offset)) BY <1>3, <1>4
<1> QED BY <1>1, <1>4, <1>5, <1>6, <1>7 DEF WordInv

LEMMA WordKept == ASSUME WordInv, UNCHANGED wordVars PROVE WordInv'
BY DEF wordVars, WordInv, StatusAt, Words!WordStarts

LEMMA WordStep == ASSUME WordInv, Words!Next PROVE WordInv'
<1> DEFINE R == Words!ReadNum
<1>1. /\ offset' = offset + R /\ status' = Words!scanned[R].status
      /\ word_cnt' = Words!scanned[R].cnt /\ counted' = (R = 0) /\ text' = text
  BY DEF Words!Next, Words!ReadBlock
<1>2. text \in Seq(Int) /\ offset \in 0..Len(text) /\ Len(text) \in Nat BY DEF WordInv
<1>3. /\ R \in Nat /\ offset + R \in 0..Len(text) /\ (R = 0 => offset = Len(text))
  BY <1>2, WordAssumption DEF Words!ReadNum
<1>4. R \in 0..R BY <1>3
<1>5. /\ Words!scanned[R].status = StatusAt(offset + R)
      /\ Words!scanned[R].cnt = Cardinality(Words!WordStarts(offset + R))
  BY <1>3, <1>4, ScannedCounts
<1> HIDE DEF R
<1>6. status' = StatusAt(offset)' /\ word_cnt' = Cardinality(Words!WordStarts(offset))'
  BY <1>1, <1>5 DEF StatusAt, Words!WordStarts
<1>7. counted' \in BOOLEAN
  <2>1. (R = 0) \in BOOLEAN OBVIOUS
  <2> QED BY <1>1, <2>1, Zenon
<1>8. ASSUME counted' PROVE offset' = Len(text')
  <2>1. R = 0 BY <1>1, <1>8, Zenon
  <2> QED BY <1>1, <1>2, <1>3, <2>1
<1> QED BY <1>1, <1>2, <1>3, <1>6, <1>7, <1>8 DEF WordInv

LEMMA WordIsExact == ASSUME WordInv PROVE Words!CountExact
<1>1. \A S : Words!Cardinality(S) = Cardinality(S) BY DEF Words!Cardinality, Cardinality
<1> QED BY <1>1 DEF WordInv, Words!CountExact
-----------------------------------------------------------------------------
(* The database example *)

Byte == {"new", "old"} \X Nat

\* a is what b begins with.
Prefix(a, b) ==
  a \in Seq(Byte) /\ Len(a) <= Len(b) /\ \A k \in 1..Len(a) : a[k] = b[k]

Early == {"acquire", "insert1", "insert2", "select1", "delete", "select2", "read_img"}
Writing == {"prepare_w", "bind_w", "send", "execute_w"}
Reading == {"select3", "prepare_r", "execute_r", "bind_r", "fetch", "column", "write_img"}
Last == {"release", "shutdown", "end"}

SqlTypes ==
  /\ step \in Early \cup Writing \cup Reading \cup Last
  /\ image \in Seq(Byte) /\ rows \in Seq(Seq(Byte))
  /\ stmt \in BOOLEAN /\ closed \in BOOLEAN

WholeRow(i) ==
  rows[i] # <<>> /\ (rows[i] = image \/ rows[i] = Sql!Image("old", Len(rows[i])))

\* A row lacks a chunk only if the loss went unnoticed, and only once mysql_write is done.
RowsInv ==
  \A i \in 1..Len(rows) :
    \/ WholeRow(i)
    \/ "send" \in unnoticed /\ rows[i] = longData /\ step \in Reading \cup Last

\* If every chunk arrives, mysql_write has sent what the image begins with, and at last all
\* of it.
WriteInv ==
  /\ step \in Writing => buf_w = image /\ image # <<>>
  /\ step \in Early \cup {"prepare_w", "bind_w"} => longData = <<>> /\ offset_w = 0
  /\ step \in {"send", "execute_w"} => longData \in Seq(Byte)
  /\ step = "send" => offset_w \in 0..Len(image)
  /\ step = "send" /\ "send" \notin unnoticed =>
       Prefix(longData, image) /\ offset_w = Len(longData)
  /\ step = "execute_w" /\ "send" \notin unnoticed => longData = image

\* If every column is fetched, mysql_read has copied what a row begins with, and at last
\* all of it.
ReadInv ==
  /\ step \in Early \cup Writing \cup (Reading \ {"column", "write_img"}) => buf_r = <<>>
  /\ step \in {"column", "write_img"} => \E i \in 1..Len(rows) : row = rows[i]
  /\ step = "column" /\ "column" \notin unnoticed => Prefix(buf_r, row)
  /\ step = "write_img" /\ "column" \notin unnoticed => buf_r = row

\* What did not fail has left an image.
FailInv ==
  /\ step \notin Last => failed = Sql!NoCall
  /\ step = "release" => failed # "acquire"
  /\ step \in Last /\ failed = Sql!NoCall /\ {"column", "close"} \cap unnoticed = {} =>
       \E i \in 1..Len(rows) : download = rows[i]

ReleaseInv ==
  /\ step \notin {"shutdown", "end"} => released = 0
  /\ step \in {"shutdown", "end"} => released = IF failed = "acquire" THEN 0 ELSE 1
  /\ step = "end" => closed

StmtInv ==
  /\ step \in Early \cup {"prepare_w", "select3", "prepare_r", "write_img"} => ~stmt
  /\ step \in Last /\ stmt => failed \in {"bind_w", "execute_w"}

SqlInv ==
  SqlTypes /\ RowsInv /\ WriteInv /\ ReadInv /\ FailInv /\ ReleaseInv /\ StmtInv

LEMMA EmptyPrefix == ASSUME NEW b \in Seq(Byte) PROVE Prefix(<<>>, b)
<1>1. <<>> \in Seq(Byte) /\ Len(<<>>) = 0 /\ Len(b) \in Nat OBVIOUS
<1> QED BY <1>1 DEF Prefix

LEMMA PrefixWhole ==
  ASSUME NEW a, NEW b \in Seq(Byte), Prefix(a, b), Len(a) = Len(b)
  PROVE  a = b
<1>1. a \in Seq(Byte) BY DEF Prefix
<1>2. \A k \in 1..Len(a) : a[k] = b[k] BY DEF Prefix
<1> QED BY <1>1, <1>2, SeqEqual

\* A chunk does not go past the end.
LEMMA PieceFits ==
  ASSUME NEW b \in Seq(Byte), NEW o \in Nat, o < Len(b)
  PROVE  /\ Sql!Piece(b, o) \in Seq(Byte)
         /\ o + Len(Sql!Piece(b, o)) \in 0..Len(b)
<1> DEFINE to == IF Len(b) - o > chunk_size THEN o + chunk_size ELSE Len(b)
           p == SubSeq(b, o + 1, to)
<1>1. Len(b) \in Nat OBVIOUS
<1>2. to \in Nat /\ to <= Len(b) /\ o + 1 <= to BY <1>1, SqlAssumption
<1>3. Sql!Piece(b, o) = p BY DEF Sql!Piece
<1> HIDE DEF to
<1>4. p \in Seq(Byte) /\ Len(p) = to - (o + 1) + 1
  BY <1>1, <1>2, SubSeqProperties
<1>5. o + (to - (o + 1) + 1) = to BY <1>2
<1> QED BY <1>1, <1>2, <1>3, <1>4, <1>5

\* A chunk is what comes next.
LEMMA PieceGrows ==
  ASSUME NEW a, NEW b \in Seq(Byte), Prefix(a, b), Len(a) < Len(b)
  PROVE  /\ Prefix(a \o Sql!Piece(b, Len(a)), b)
         /\ Len(a \o Sql!Piece(b, Len(a))) = Len(a) + Len(Sql!Piece(b, Len(a)))
<1> DEFINE o == Len(a)
           to == IF Len(b) - o > chunk_size THEN o + chunk_size ELSE Len(b)
           p == SubSeq(b, o + 1, to)
<1>1. a \in Seq(Byte) /\ o \in Nat /\ Len(b) \in Nat /\ o < Len(b) BY DEF Prefix
<1>2. \A k \in 1..o : a[k] = b[k] BY DEF Prefix
<1>3. to \in Nat /\ to <= Len(b) /\ o + 1 <= to BY <1>1, SqlAssumption
<1>4. Sql!Piece(b, Len(a)) = p BY DEF Sql!Piece
<1> HIDE DEF o, to
<1>5. o + 1 \in 1..(Len(b) + 1) /\ to \in o..Len(b) BY <1>1, <1>3
<1>6. p \in Seq(Byte) /\ Len(p) = to - o /\ \A k \in 1..(to - o) : p[k] = b[o + k]
  <2>1. /\ p \in Seq(Byte)
        /\ Len(p) = to - (o + 1) + 1
        /\ \A k \in 1..(to - (o + 1) + 1) : p[k] = b[o + 1 + k - 1]
    BY <1>1, <1>3, SubSeqProperties
  <2>2. to - (o + 1) + 1 = to - o BY <1>1, <1>3
  <2>3. \A k \in 1..(to - o) : o + 1 + k - 1 = o + k BY <1>1, <1>3
  <2> QED BY <2>1, <2>2, <2>3
<1> HIDE DEF p
<1> DEFINE c == a \o p
<1>7. /\ c \in Seq(Byte) /\ Len(c) = Len(a) + Len(p)
      /\ \A k \in 1..Len(a) + Len(p) : c[k] = IF k <= Len(a) THEN a[k] ELSE p[k - Len(a)]
  BY <1>1, <1>6, ConcatProperties
<1> HIDE DEF c
<1>8. Len(c) = to /\ \A k \in 1..to : c[k] = IF k <= o THEN a[k] ELSE p[k - o]
  <2>1. Len(a) = o BY DEF o
  <2>2. o + (to - o) = to BY <1>1, <1>3
  <2>3. Len(a) + Len(p) = to BY <2>1, <2>2, <1>6
  <2> QED BY <1>7, <2>1, <2>3, Zenon
<1>9. ASSUME NEW k \in 1..to PROVE c[k] = b[k]
  <2>1. CASE k <= o BY <1>1, <1>2, <1>3, <1>8, <2>1
  <2>2. CASE k > o
    <3>1. k - o \in 1..(to - o) /\ o + (k - o) = k BY <1>1, <1>3, <2>2
    <3>2. c[k] = p[k - o] BY <1>1, <1>3, <1>8, <2>2
    <3> QED BY <3>1, <3>2, <1>6
  <2> QED BY <2>1, <2>2, <1>1, <1>3
<1>10. Prefix(c, b) BY <1>3, <1>7, <1>8, <1>9 DEF Prefix
<1> QED BY <1>4, <1>7, <1>10 DEF c

LEMMA Nexts ==
  /\ Sql!Then["acquire"] = "insert1" /\ Sql!Then["insert1"] = "insert2"
  /\ Sql!Then["insert2"] = "select1" /\ Sql!Then["select1"] = "delete"
  /\ Sql!Then["delete"] = "select2" /\ Sql!Then["select2"] = "read_img"
  /\ Sql!Then["read_img"] = "prepare_w" /\ Sql!Then["prepare_w"] = "bind_w"
  /\ Sql!Then["bind_w"] = "send" /\ Sql!Then["send"] = "execute_w"
  /\ Sql!Then["execute_w"] = "select3" /\ Sql!Then["select3"] = "prepare_r"
  /\ Sql!Then["prepare_r"] = "execute_r" /\ Sql!Then["execute_r"] = "bind_r"
  /\ Sql!Then["bind_r"] = "fetch" /\ Sql!Then["fetch"] = "column"
  /\ Sql!Then["column"] = "write_img" /\ Sql!Then["write_img"] = "release"
  /\ Sql!Then["release"] = "shutdown" /\ Sql!Then["shutdown"] = "end"
BY DEF Sql!Then

LEMMA ImageIs == ASSUME NEW n \in Nat, NEW run \in {"new", "old"}
                 PROVE  Sql!Image(run, n) \in Seq(Byte) /\ Len(Sql!Image(run, n)) = n
<1> DEFINE m == [i \in 1..n |-> <<run, i>>]
<1>1. m \in [1..n -> Byte] BY DEF Byte
<1>2. m \in Seq(Byte) /\ Len(m) = n
  <2> HIDE DEF m
  <2> QED BY <1>1
<1> QED BY <1>2 DEF Sql!Image

LEMMA SqlInitInv == ASSUME Sql!Init PROVE SqlInv
<1> USE DEF Sql!Init
<1>1. image \in Seq(Byte)
  <2>1. PICK n \in ImageSizes : image = Sql!Image("new", n) OBVIOUS
  <2> QED BY <2>1, SqlAssumption, ImageIs
<1>2. rows \in Seq(Seq(Byte)) /\ RowsInv
  <2>1. PICK n \in ImageSizes : rows = IF n = 0 THEN <<>> ELSE <<Sql!Image("old", n)>>
    OBVIOUS
  <2> DEFINE m == Sql!Image("old", n)
  <2>2. n \in Nat BY SqlAssumption
  <2>3. m \in Seq(Byte) /\ Len(m) = n BY <2>2, ImageIs
  <2>4. CASE n = 0 BY <2>1, <2>4 DEF RowsInv, WholeRow
  <2>5. CASE n # 0
    <3>1. rows = <<m>> BY <2>1, <2>5
    <3>2. m # <<>> /\ m = Sql!Image("old", Len(m)) BY <2>3, <2>5
    <3> HIDE DEF m
    <3>3. rows \in Seq(Seq(Byte)) /\ Len(rows) = 1 /\ rows[1] = m BY <3>1, <2>3
    <3>4. \A i \in 1..Len(rows) : rows[i] = m BY <3>3
    <3> QED BY <3>2, <3>3, <3>4 DEF RowsInv, WholeRow
  <2> QED BY <2>4, <2>5
<1>3. stmt \in BOOLEAN /\ closed \in BOOLEAN BY Zenon
<1>4. step \in Early BY DEF Early
<1>5. SqlTypes BY <1>1, <1>2, <1>3, <1>4 DEF SqlTypes
<1>6. WriteInv BY DEF WriteInv, Writing
<1>7. ReadInv BY DEF ReadInv
<1>8. FailInv BY DEF FailInv, Last
<1>9. ReleaseInv BY DEF ReleaseInv
<1>10. StmtInv BY DEF StmtInv, Last
<1> QED BY <1>2, <1>5, <1>6, <1>7, <1>8, <1>9, <1>10 DEF SqlInv

LEMMA SqlKept == ASSUME SqlInv, UNCHANGED sqlVars PROVE SqlInv'
<1>1. /\ step' = step /\ failed' = failed /\ rows' = rows /\ image' = image /\ buf_w' = buf_w
      /\ longData' = longData /\ row' = row /\ buf_r' = buf_r /\ download' = download
      /\ stmt' = stmt /\ released' = released /\ closed' = closed
      /\ offset_w' = offset_w /\ unnoticed' = unnoticed
  BY DEF sqlVars
<1>2. SqlTypes' <=> SqlTypes BY <1>1 DEF SqlTypes
<1>3. RowsInv' <=> RowsInv BY <1>1 DEF RowsInv, WholeRow
<1>4. WriteInv' <=> WriteInv BY <1>1 DEF WriteInv
<1>5. ReadInv' <=> ReadInv BY <1>1 DEF ReadInv
<1>6. FailInv' <=> FailInv BY <1>1 DEF FailInv
<1>7. ReleaseInv' <=> ReleaseInv BY <1>1 DEF ReleaseInv
<1>8. StmtInv' <=> StmtInv BY <1>1 DEF StmtInv
<1> QED BY <1>2, <1>3, <1>4, <1>5, <1>6, <1>7, <1>8 DEF SqlInv

\* The rows, while what the server received and what went unnoticed stay.
LEMMA RowsKept ==
  ASSUME SqlInv, rows' = rows, image' = image, longData' = longData, unnoticed' = unnoticed,
         step \in Reading \cup Last => step' \in Reading \cup Last
  PROVE  RowsInv'
BY DEF SqlInv, RowsInv, WholeRow, Sql!Image

\* Where a call that succeeds or fails leads.
LEMMA DoesStep ==
  ASSUME NEW call, Sql!Does(call)
  PROVE  step = call /\ step' = Sql!Then[call] /\ failed' = failed
BY DEF Sql!Does

LEMMA FailsStep ==
  ASSUME NEW call, Sql!FailsAt(call)
  PROVE  /\ step = call /\ failed' = call
         /\ step' = IF call = "acquire" THEN "shutdown" ELSE "release"
BY DEF Sql!FailsAt

\* A call that fails and leaves the rows and what was given back alone.
LEMMA FailureKeeps ==
  ASSUME SqlInv, NEW call \in Early \cup Writing \cup Reading, Sql!FailsAt(call),
         UNCHANGED <<rows, image, longData, unnoticed, released, closed>>, stmt' \in BOOLEAN,
         stmt' => call \in {"bind_w", "execute_w"}
  PROVE  SqlInv'
<1>1. /\ step = call /\ failed' = call
      /\ step' = IF call = "acquire" THEN "shutdown" ELSE "release"
  BY FailsStep
<1>2. /\ rows' = rows /\ image' = image /\ longData' = longData /\ unnoticed' = unnoticed
      /\ released' = released /\ closed' = closed
  OBVIOUS
<1>3. step' \in {"release", "shutdown"} BY <1>1
<1>4. call # Sql!NoCall /\ call \notin Last BY DEF Early, Writing, Reading, Last, Sql!NoCall
<1>5. SqlTypes' BY <1>2, <1>3 DEF SqlInv, SqlTypes, Last
<1>6. RowsInv' BY <1>2, <1>3, RowsKept DEF Last
<1>7. WriteInv' BY <1>3 DEF WriteInv, Early, Writing
<1>8. ReadInv' BY <1>3 DEF ReadInv, Early, Writing, Reading
<1>9. FailInv' BY <1>1, <1>3, <1>4 DEF FailInv, Last
<1>10. released = 0 BY <1>1, <1>4 DEF SqlInv, ReleaseInv, Last
<1>11. ReleaseInv'
  <2>1. CASE call = "acquire" BY <1>1, <1>2, <1>10, <2>1 DEF ReleaseInv
  <2>2. CASE call # "acquire" BY <1>1, <1>2, <1>10, <2>2 DEF ReleaseInv
  <2> QED BY <2>1, <2>2
<1>12. StmtInv' BY <1>1, <1>3 DEF StmtInv, Early
<1> QED BY <1>5, <1>6, <1>7, <1>8, <1>9, <1>11, <1>12 DEF SqlInv

LEMMA QueryKeeps == ASSUME SqlInv, Sql!Query PROVE SqlInv'
<1> DEFINE Calls == {"acquire", "insert1", "insert2", "select1", "delete", "select2", "select3"}
<1>1. /\ UNCHANGED <<rows, image, buf_w, longData, row, buf_r>>
      /\ UNCHANGED <<download, stmt, released, closed, offset_w, unnoticed>>
  BY DEF Sql!Query
<1>2. PICK call \in Calls : Sql!Does(call) \/ Sql!FailsAt(call) BY DEF Sql!Query
<1>3. call \in Early \cup Reading BY DEF Early, Reading
<1>4. stmt \in BOOLEAN BY DEF SqlInv, SqlTypes
<1>5. step = call BY <1>2, DoesStep, FailsStep
<1>6. ~stmt BY <1>5 DEF SqlInv, StmtInv, Early
<1>7. CASE Sql!FailsAt(call)
  <2>1. stmt' = stmt BY <1>1
  <2>2. stmt' \in BOOLEAN /\ ~stmt' BY <2>1, <1>4, <1>6, Zenon
  <2>3. UNCHANGED <<rows, image, longData, unnoticed, released, closed>> BY <1>1
  <2> QED BY <1>3, <1>7, <2>2, <2>3, FailureKeeps
<1>8. CASE Sql!Does(call)
  <2>1. step' = Sql!Then[call] /\ failed' = failed BY <1>8, DoesStep
  <2>2. \/ call \in Early \ {"read_img"} /\ step' \in Early
        \/ call = "select3" /\ step' = "prepare_r"
    BY <2>1, Nexts DEF Early
  <2>3. /\ rows' = rows /\ image' = image /\ buf_w' = buf_w /\ longData' = longData
        /\ row' = row /\ buf_r' = buf_r /\ download' = download /\ stmt' = stmt
        /\ released' = released /\ closed' = closed /\ offset_w' = offset_w
        /\ unnoticed' = unnoticed
    BY <1>1
  <2>4. SqlTypes' BY <2>2, <2>3 DEF SqlInv, SqlTypes, Reading
  <2>5. RowsInv' BY <1>5, <2>2, <2>3, RowsKept DEF Early, Reading, Last
  <2>6. WriteInv' BY <1>5, <2>2, <2>3 DEF SqlInv, WriteInv, Early, Writing
  <2>7. ReadInv' BY <1>5, <2>2, <2>3 DEF SqlInv, ReadInv, Early, Writing, Reading
  <2>8. FailInv' BY <1>5, <2>1, <2>2 DEF SqlInv, FailInv, Early, Last
  <2>9. ReleaseInv' BY <1>5, <2>2, <2>3 DEF SqlInv, ReleaseInv, Early
  <2>10. StmtInv' BY <1>5, <2>2, <2>3 DEF SqlInv, StmtInv, Early, Last
  <2> QED BY <2>4, <2>5, <2>6, <2>7, <2>8, <2>9, <2>10 DEF SqlInv
<1> QED BY <1>2, <1>7, <1>8

LEMMA ReadImgKeeps == ASSUME SqlInv, Sql!read_img PROVE SqlInv'
<1>1. /\ rows' = rows /\ image' = image /\ longData' = longData
      /\ row' = row /\ buf_r' = buf_r /\ download' = download /\ stmt' = stmt
      /\ released' = released /\ closed' = closed /\ offset_w' = offset_w
      /\ unnoticed' = unnoticed
  BY DEF Sql!read_img
<1>2. step = "read_img" BY DoesStep, FailsStep DEF Sql!read_img
<1>3. stmt \in BOOLEAN /\ ~stmt BY <1>2 DEF SqlInv, SqlTypes, StmtInv, Early
<1>4. CASE Sql!FailsAt("read_img")
  <2>1. stmt' \in BOOLEAN /\ ~stmt' BY <1>1, <1>3, Zenon
  <2>2. UNCHANGED <<rows, image, longData, unnoticed, released, closed>> BY <1>1
  <2>3. "read_img" \in Early \cup Writing \cup Reading BY DEF Early
  <2> QED BY <1>4, <2>1, <2>2, <2>3, FailureKeeps
<1>5. CASE Sql!Does("read_img") /\ image # <<>> /\ buf_w' = image
  <2>1. step' = "prepare_w" /\ failed' = failed BY <1>5, DoesStep, Nexts
  <2>2. SqlTypes' BY <1>1, <2>1 DEF SqlInv, SqlTypes, Writing
  <2>3. RowsInv' BY <1>1, <1>2, RowsKept DEF Reading, Last
  <2>4. WriteInv' BY <1>1, <1>2, <1>5, <2>1 DEF SqlInv, WriteInv, Early
  <2>5. ReadInv' BY <1>1, <1>2, <2>1 DEF SqlInv, ReadInv, Early
  <2>6. FailInv' BY <1>2, <2>1 DEF SqlInv, FailInv, Last
  <2>7. ReleaseInv' BY <1>1, <1>2, <2>1 DEF SqlInv, ReleaseInv
  <2>8. StmtInv' BY <1>1, <1>3, <2>1 DEF StmtInv, Last
  <2> QED BY <2>2, <2>3, <2>4, <2>5, <2>6, <2>7, <2>8 DEF SqlInv
<1> QED BY <1>4, <1>5 DEF Sql!read_img

LEMMA PrepareKeeps == ASSUME SqlInv, Sql!Prepare PROVE SqlInv'
<1>1. /\ rows' = rows /\ image' = image /\ buf_w' = buf_w /\ longData' = longData
      /\ row' = row /\ buf_r' = buf_r /\ download' = download
      /\ released' = released /\ closed' = closed /\ offset_w' = offset_w
      /\ unnoticed' = unnoticed
  BY DEF Sql!Prepare
<1>2. UNCHANGED <<rows, image, longData, unnoticed, released, closed>> BY <1>1
<1>3. stmt \in BOOLEAN BY DEF SqlInv, SqlTypes
<1>4. stmt' \in BOOLEAN BY <1>3, Zenon DEF Sql!Prepare
<1>5. ASSUME NEW call \in {"prepare_w", "prepare_r", "bind_w", "execute_r", "bind_r"},
             Sql!Does(call)
      PROVE  SqlInv'
  <2>1. step = call /\ step' = Sql!Then[call] /\ failed' = failed BY <1>5, DoesStep
  <2>2. \/ step = "prepare_w" /\ step' = "bind_w"
        \/ step = "bind_w" /\ step' = "send"
        \/ step = "prepare_r" /\ step' = "execute_r"
        \/ step = "execute_r" /\ step' = "bind_r"
        \/ step = "bind_r" /\ step' = "fetch"
    BY <2>1, Nexts
  <2>3. SqlTypes' BY <1>1, <1>4, <2>2 DEF SqlInv, SqlTypes, Writing, Reading
  <2>4. RowsInv' BY <1>1, <2>2, RowsKept DEF Reading, Last
  <2>5. WriteInv'
    <3>1. CASE step = "bind_w"
      <4>1. longData' = <<>> /\ offset_w' = 0 /\ step' = "send"
        BY <1>1, <2>2, <3>1 DEF SqlInv, WriteInv
      <4>2. Prefix(longData', image') /\ longData' \in Seq(Byte) /\ Len(longData') = 0
        BY <1>1, <4>1, EmptyPrefix DEF SqlInv, SqlTypes
      <4>3. offset_w' \in 0..Len(image')
        <5>1. Len(image') \in Nat BY <1>1 DEF SqlInv, SqlTypes
        <5> QED BY <4>1, <5>1
      <4> QED BY <1>1, <3>1, <4>1, <4>2, <4>3 DEF SqlInv, WriteInv, Early, Writing
    <3>2. CASE step # "bind_w" BY <1>1, <2>2, <3>2 DEF SqlInv, WriteInv, Early, Writing
    <3> QED BY <3>1, <3>2
  <2>6. ReadInv' BY <1>1, <2>2 DEF SqlInv, ReadInv, Early, Writing, Reading
  <2>7. FailInv' BY <2>1, <2>2 DEF SqlInv, FailInv, Last
  <2>8. ReleaseInv' BY <1>1, <2>2 DEF SqlInv, ReleaseInv
  <2>9. StmtInv' BY <2>2 DEF StmtInv, Early, Last
  <2> QED BY <2>3, <2>4, <2>5, <2>6, <2>7, <2>8, <2>9 DEF SqlInv
<1>6. ASSUME NEW call \in {"prepare_w", "prepare_r", "execute_r", "bind_r", "bind_w"},
             Sql!FailsAt(call), stmt' => call = "bind_w"
      PROVE  SqlInv'
  <2>1. call \in Early \cup Writing \cup Reading BY DEF Writing, Reading
  <2>2. stmt' => call \in {"bind_w", "execute_w"} BY <1>6
  <2> QED BY <1>2, <1>4, <1>6, <2>1, <2>2, FailureKeeps
<1>7. \/ \E call \in {"prepare_w", "prepare_r", "bind_w", "execute_r", "bind_r"} : Sql!Does(call)
      \/ \E call \in {"prepare_w", "prepare_r", "execute_r", "bind_r", "bind_w"} :
           Sql!FailsAt(call) /\ (stmt' => call = "bind_w")
  <2>1. CASE \E call \in {"prepare_w", "prepare_r"} : Sql!Does(call) BY <2>1
  <2>2. CASE \E call \in {"bind_w", "execute_r", "bind_r"} : Sql!Does(call) BY <2>2
  <2>3. CASE /\ \E call \in {"prepare_w", "prepare_r", "execute_r", "bind_r"} : Sql!FailsAt(call)
             /\ stmt' = FALSE
    BY <2>3
  <2>4. CASE Sql!FailsAt("bind_w") BY <2>4
  <2> QED BY <2>1, <2>2, <2>3, <2>4 DEF Sql!Prepare
<1> QED BY <1>5, <1>6, <1>7

LEMMA SendKeeps == ASSUME SqlInv, Sql!send_long_data PROVE SqlInv'
<1>1. /\ rows' = rows /\ image' = image /\ buf_w' = buf_w
      /\ row' = row /\ buf_r' = buf_r /\ download' = download /\ stmt' = stmt
      /\ released' = released /\ closed' = closed
  BY DEF Sql!send_long_data
<1>2. step = "send" /\ failed' = failed BY DoesStep DEF Sql!send_long_data
<1>3. /\ longData \in Seq(Byte) /\ offset_w \in 0..Len(image)
      /\ buf_w = image /\ image # <<>> /\ image \in Seq(Byte) /\ Len(image) \in Nat
  BY <1>2 DEF SqlInv, SqlTypes, WriteInv, Writing
<1>4. "send" \notin unnoticed => Prefix(longData, image) /\ offset_w = Len(longData)
  BY <1>2 DEF SqlInv, WriteInv
<1> DEFINE piece == Sql!Piece(image, offset_w)
<1>5. /\ longData' \in Seq(Byte)
      /\ \/ /\ step' = "send" /\ offset_w' \in 0..Len(image)
            /\ "send" \notin unnoticed' => Prefix(longData', image) /\ offset_w' = Len(longData')
         \/ step' = "execute_w" /\ ("send" \notin unnoticed' => longData' = image)
  <2>1. CASE /\ offset_w < Len(buf_w) /\ UNCHANGED <<step, failed>>
             /\ offset_w' = offset_w + Len(Sql!Piece(buf_w, offset_w))
             /\ \/ longData' = longData \o Sql!Piece(buf_w, offset_w) /\ UNCHANGED unnoticed
                \/ unnoticed' = unnoticed \cup {"send"} /\ UNCHANGED longData
    <3>1. offset_w \in Nat /\ offset_w < Len(image) /\ offset_w' = offset_w + Len(piece)
      BY <2>1, <1>3
    <3>2. piece \in Seq(Byte) /\ offset_w' \in 0..Len(image) BY <3>1, <1>3, PieceFits
    <3>3. CASE longData' = longData \o piece /\ UNCHANGED unnoticed
      <4>1. longData' \in Seq(Byte) BY <3>2, <3>3, <1>3
      <4>2. ASSUME "send" \notin unnoticed'
            PROVE  Prefix(longData', image) /\ offset_w' = Len(longData')
        <5>1. Prefix(longData, image) /\ offset_w = Len(longData) BY <4>2, <3>3, <1>4
        <5> QED BY <5>1, <3>1, <3>3, <1>3, PieceGrows
      <4> QED BY <4>1, <4>2, <3>2, <2>1, <1>2
    <3>4. CASE unnoticed' = unnoticed \cup {"send"} /\ UNCHANGED longData
      BY <3>2, <3>4, <2>1, <1>2, <1>3
    <3> QED BY <3>3, <3>4, <2>1, <1>3
  <2>2. CASE /\ Sql!Does("send") /\ offset_w >= Len(buf_w)
             /\ UNCHANGED <<longData, offset_w, unnoticed>>
    <3>1. offset_w = Len(image) BY <2>2, <1>3
    <3>2. "send" \notin unnoticed => longData = image BY <3>1, <1>3, <1>4, PrefixWhole
    <3> QED BY <3>2, <2>2, <1>3, DoesStep, Nexts
  <2> QED BY <2>1, <2>2 DEF Sql!send_long_data
<1>6. SqlTypes' BY <1>1, <1>5 DEF SqlInv, SqlTypes, Writing
<1>7. RowsInv'
  <2>1. \A i \in 1..Len(rows) : WholeRow(i) BY <1>2 DEF SqlInv, RowsInv, Reading, Last
  <2> QED BY <2>1, <1>1 DEF RowsInv, WholeRow, Sql!Image
<1>8. WriteInv' BY <1>1, <1>3, <1>5 DEF WriteInv, Early, Writing
<1>9. ReadInv' BY <1>1, <1>2, <1>5 DEF SqlInv, ReadInv, Early, Writing, Reading
<1>10. FailInv' BY <1>2, <1>5 DEF SqlInv, FailInv, Last
<1>11. ReleaseInv' BY <1>1, <1>2, <1>5 DEF SqlInv, ReleaseInv
<1>12. StmtInv' BY <1>5 DEF StmtInv, Early, Last
<1> QED BY <1>6, <1>7, <1>8, <1>9, <1>10, <1>11, <1>12 DEF SqlInv

LEMMA ExecuteKeeps == ASSUME SqlInv, Sql!Execute PROVE SqlInv'
<1>1. /\ image' = image /\ buf_w' = buf_w /\ longData' = longData
      /\ row' = row /\ buf_r' = buf_r /\ download' = download
      /\ released' = released /\ closed' = closed /\ unnoticed' = unnoticed
  BY DEF Sql!Execute
<1>2. step = "execute_w" BY DoesStep, FailsStep DEF Sql!Execute
<1>3. /\ longData \in Seq(Byte) /\ ("send" \notin unnoticed => longData = image)
      /\ image # <<>> /\ image \in Seq(Byte) /\ rows \in Seq(Seq(Byte))
  BY <1>2 DEF SqlInv, SqlTypes, WriteInv, Writing
<1>4. CASE Sql!FailsAt("execute_w") /\ UNCHANGED <<rows, stmt>>
  <2>1. stmt' \in BOOLEAN
    <3>1. stmt' = stmt BY <1>4
    <3>2. stmt \in BOOLEAN BY DEF SqlInv, SqlTypes
    <3> QED BY <3>1, <3>2, Zenon
  <2>2. "execute_w" \in Early \cup Writing \cup Reading BY DEF Writing
  <2>3. UNCHANGED <<rows, image, longData, unnoticed, released, closed>> BY <1>1, <1>4
  <2> QED BY <1>4, <2>1, <2>2, <2>3, FailureKeeps
<1>5. CASE Sql!Does("execute_w") /\ rows' = Append(rows, longData) /\ stmt' = FALSE
  <2>1. step' = "select3" /\ failed' = failed BY <1>5, DoesStep, Nexts
  <2>2. /\ rows' \in Seq(Seq(Byte)) /\ Len(rows') = Len(rows) + 1 /\ Len(rows) \in Nat
        /\ rows'[Len(rows) + 1] = longData /\ \A i \in 1..Len(rows) : rows'[i] = rows[i]
    BY <1>3, <1>5
  <2>3. stmt' \in BOOLEAN /\ ~stmt' BY <1>5, Zenon
  <2>4. SqlTypes' BY <1>1, <2>1, <2>2, <2>3 DEF SqlInv, SqlTypes, Reading
  <2>5. RowsInv'
    <3>1. ASSUME NEW i \in 1..Len(rows')
          PROVE  WholeRow(i)' \/ ("send" \in unnoticed' /\ rows'[i] = longData')
      <4>1. CASE i \in 1..Len(rows)
        <5>1. WholeRow(i) BY <1>2, <4>1 DEF SqlInv, RowsInv, Reading, Last
        <5> QED BY <1>1, <2>2, <4>1, <5>1 DEF WholeRow, Sql!Image
      <4>2. CASE i = Len(rows) + 1
        <5>1. "send" \notin unnoticed => WholeRow(i)' BY <1>1, <1>3, <2>2, <4>2 DEF WholeRow
        <5> QED BY <1>1, <2>2, <4>2, <5>1
      <4> QED BY <4>1, <4>2, <2>2
    <3> QED BY <2>1, <3>1 DEF RowsInv, Reading
  <2>6. WriteInv' BY <2>1 DEF WriteInv, Early, Writing
  <2>7. ReadInv' BY <1>1, <1>2, <2>1 DEF SqlInv, ReadInv, Writing
  <2>8. FailInv' BY <1>2, <2>1 DEF SqlInv, FailInv, Last
  <2>9. ReleaseInv' BY <1>1, <1>2, <2>1 DEF SqlInv, ReleaseInv
  <2>10. StmtInv' BY <2>1, <2>3 DEF StmtInv, Last
  <2> QED BY <2>4, <2>5, <2>6, <2>7, <2>8, <2>9, <2>10 DEF SqlInv
<1> QED BY <1>4, <1>5 DEF Sql!Execute

LEMMA FetchKeeps == ASSUME SqlInv, Sql!Fetch PROVE SqlInv'
<1>1. /\ rows' = rows /\ image' = image /\ buf_w' = buf_w /\ longData' = longData
      /\ buf_r' = buf_r /\ download' = download /\ released' = released /\ closed' = closed
      /\ unnoticed' = unnoticed
  BY DEF Sql!Fetch
<1>2. step = "fetch" BY DoesStep, FailsStep DEF Sql!Fetch
<1>3. stmt \in BOOLEAN /\ rows \in Seq(Seq(Byte)) BY DEF SqlInv, SqlTypes
<1>4. CASE Sql!FailsAt("fetch") /\ stmt' = FALSE
  <2>1. stmt' \in BOOLEAN /\ ~stmt' BY <1>4, Zenon
  <2>2. "fetch" \in Early \cup Writing \cup Reading BY DEF Reading
  <2>3. UNCHANGED <<rows, image, longData, unnoticed, released, closed>> BY <1>1
  <2> QED BY <1>4, <2>1, <2>2, <2>3, FailureKeeps
<1>5. CASE Sql!Does("fetch") /\ UNCHANGED stmt /\ \E i \in 1..Len(rows) : row' = rows[i]
  <2>1. step' = "column" /\ failed' = failed BY <1>5, DoesStep, Nexts
  <2>2. PICK i \in 1..Len(rows) : row' = rows[i] BY <1>5
  <2>3. row' \in Seq(Byte) BY <1>3, <2>2
  <2>4. stmt' \in BOOLEAN
    <3>1. stmt' = stmt BY <1>5
    <3> QED BY <3>1, <1>3, Zenon
  <2>5. buf_r' = <<>> BY <1>1, <1>2 DEF SqlInv, ReadInv, Reading
  <2>6. Prefix(buf_r', row') BY <2>3, <2>5, EmptyPrefix
  <2>7. SqlTypes' BY <1>1, <2>1, <2>4 DEF SqlInv, SqlTypes, Reading
  <2>8. RowsInv' BY <1>1, <2>1, RowsKept DEF Reading
  <2>9. WriteInv' BY <2>1 DEF WriteInv, Early, Writing
  <2>10. ReadInv' BY <1>1, <2>1, <2>2, <2>6 DEF ReadInv, Early, Writing, Reading
  <2>11. FailInv' BY <1>2, <2>1 DEF SqlInv, FailInv, Last
  <2>12. ReleaseInv' BY <1>1, <1>2, <2>1 DEF SqlInv, ReleaseInv
  <2>13. StmtInv' BY <2>1 DEF StmtInv, Early, Last
  <2> QED BY <2>7, <2>8, <2>9, <2>10, <2>11, <2>12, <2>13 DEF SqlInv
<1> QED BY <1>4, <1>5 DEF Sql!Fetch

LEMMA ColumnKeeps == ASSUME SqlInv, Sql!fetch_column PROVE SqlInv'
<1>1. /\ rows' = rows /\ image' = image /\ buf_w' = buf_w /\ longData' = longData
      /\ row' = row /\ download' = download /\ released' = released /\ closed' = closed
  BY DEF Sql!fetch_column
<1>2. step = "column" /\ failed' = failed BY DoesStep DEF Sql!fetch_column
<1>3. stmt \in BOOLEAN /\ rows \in Seq(Seq(Byte)) BY DEF SqlInv, SqlTypes
<1>4. stmt' \in BOOLEAN BY <1>3, Zenon DEF Sql!fetch_column
<1>5. PICK i \in 1..Len(rows) : row = rows[i] BY <1>2 DEF SqlInv, ReadInv
<1>6. row \in Seq(Byte) BY <1>3, <1>5
<1>7. "column" \notin unnoticed => Prefix(buf_r, row) BY <1>2 DEF SqlInv, ReadInv
<1>8. /\ unnoticed' \in {unnoticed, unnoticed \cup {"column"}}
      /\ \/ step' = "column" /\ ("column" \notin unnoticed' => Prefix(buf_r', row))
         \/ step' = "write_img" /\ ("column" \notin unnoticed' => buf_r' = row) /\ ~stmt'
  <2>1. CASE /\ Len(buf_r) < Len(row) /\ UNCHANGED <<step, failed, stmt>>
             /\ buf_r' = buf_r \o Sql!Piece(row, Len(buf_r)) /\ UNCHANGED unnoticed
    <3>1. "column" \notin unnoticed => Prefix(buf_r', row) BY <2>1, <1>6, <1>7, PieceGrows
    <3> QED BY <3>1, <2>1, <1>2
  <2>2. CASE unnoticed' = unnoticed \cup {"column"} /\ UNCHANGED <<step, failed, stmt>>
    BY <2>2, <1>2
  <2>3. CASE /\ Sql!Does("column") /\ Len(buf_r) >= Len(row) /\ stmt' = FALSE
             /\ UNCHANGED <<buf_r, unnoticed>>
    <3>1. ASSUME "column" \notin unnoticed PROVE buf_r = row
      <4>1. Len(buf_r) = Len(row)
        <5>1. buf_r \in Seq(Byte) /\ Len(buf_r) <= Len(row) BY <1>7, <3>1 DEF Prefix
        <5> QED BY <5>1, <1>6, <2>3
      <4> QED BY <4>1, <3>1, <1>6, <1>7, PrefixWhole
    <3> QED BY <3>1, <2>3, DoesStep, Nexts
  <2> QED BY <2>1, <2>2, <2>3 DEF Sql!fetch_column
<1>9. SqlTypes' BY <1>1, <1>4, <1>8 DEF SqlInv, SqlTypes, Reading
<1>10. RowsInv'
  <2>1. "send" \in unnoticed' <=> "send" \in unnoticed BY <1>8
  <2>2. step' \in Reading \cup Last BY <1>8 DEF Reading
  <2> QED BY <1>1, <2>1, <2>2 DEF SqlInv, RowsInv, WholeRow, Sql!Image
<1>11. WriteInv' BY <1>8 DEF WriteInv, Early, Writing
<1>12. ReadInv' BY <1>1, <1>5, <1>8 DEF ReadInv, Early, Writing, Reading
<1>13. FailInv' BY <1>2, <1>8 DEF SqlInv, FailInv, Last
<1>14. ReleaseInv' BY <1>1, <1>2, <1>8 DEF SqlInv, ReleaseInv
<1>15. StmtInv' BY <1>8 DEF StmtInv, Early, Last
<1> QED BY <1>9, <1>10, <1>11, <1>12, <1>13, <1>14, <1>15 DEF SqlInv

LEMMA WriteImgKeeps == ASSUME SqlInv, Sql!write_img PROVE SqlInv'
<1>1. /\ rows' = rows /\ image' = image /\ buf_w' = buf_w /\ longData' = longData
      /\ row' = row /\ buf_r' = buf_r /\ stmt' = stmt /\ released' = released
      /\ closed' = closed
  BY DEF Sql!write_img
<1>2. step = "write_img" BY DoesStep, FailsStep DEF Sql!write_img
<1>3. stmt \in BOOLEAN /\ ~stmt BY <1>2 DEF SqlInv, SqlTypes, StmtInv
<1>4. stmt' \in BOOLEAN /\ ~stmt' BY <1>1, <1>3, Zenon
<1>5. CASE Sql!FailsAt("write_img") /\ UNCHANGED unnoticed
  <2>1. "write_img" \in Early \cup Writing \cup Reading BY DEF Reading
  <2>2. UNCHANGED <<rows, image, longData, unnoticed, released, closed>> BY <1>1, <1>5
  <2> QED BY <1>4, <1>5, <2>1, <2>2, FailureKeeps
<1>6. CASE /\ Sql!Does("write_img")
           /\ \/ download' = buf_r /\ UNCHANGED unnoticed
              \/ unnoticed' = unnoticed \cup {"close"}
  <2>1. step' = "release" /\ failed' = failed BY <1>6, DoesStep, Nexts
  <2>2. failed = Sql!NoCall BY <1>2 DEF SqlInv, FailInv, Last
  <2>3. PICK i \in 1..Len(rows) : row = rows[i] BY <1>2 DEF SqlInv, ReadInv
  <2>4. /\ {"column", "close"} \cap unnoticed' = {} => download' = rows'[i]
        /\ i \in 1..Len(rows') /\ ("send" \in unnoticed' <=> "send" \in unnoticed)
    BY <1>1, <1>2, <1>6, <2>3 DEF SqlInv, ReadInv
  <2>5. SqlTypes' BY <1>1, <1>4, <2>1 DEF SqlInv, SqlTypes, Last
  <2>6. RowsInv' BY <1>1, <2>1, <2>4 DEF SqlInv, RowsInv, WholeRow, Sql!Image, Last
  <2>7. WriteInv' BY <2>1 DEF WriteInv, Early, Writing
  <2>8. ReadInv' BY <2>1 DEF ReadInv, Early, Writing, Reading
  <2>9. FailInv' BY <2>1, <2>2, <2>4 DEF FailInv, Last, Sql!NoCall
  <2>10. ReleaseInv' BY <1>1, <1>2, <2>1 DEF SqlInv, ReleaseInv
  <2>11. StmtInv' BY <1>4 DEF StmtInv
  <2> QED BY <2>5, <2>6, <2>7, <2>8, <2>9, <2>10, <2>11 DEF SqlInv
<1> QED BY <1>5, <1>6 DEF Sql!write_img

LEMMA FinishKeeps == ASSUME SqlInv, Sql!Finish PROVE SqlInv'
<1>1. /\ rows' = rows /\ image' = image /\ buf_w' = buf_w /\ longData' = longData
      /\ row' = row /\ buf_r' = buf_r /\ download' = download /\ stmt' = stmt
      /\ unnoticed' = unnoticed
  BY DEF Sql!Finish
<1>2. stmt \in BOOLEAN /\ closed \in BOOLEAN BY DEF SqlInv, SqlTypes
<1>3. stmt' \in BOOLEAN BY <1>1, <1>2, Zenon
<1>4. closed' \in BOOLEAN BY <1>2, Zenon DEF Sql!Finish
<1>5. /\ failed' = failed
      /\ \/ step = "release" /\ step' = "shutdown" /\ released' = released + 1
         \/ step = "shutdown" /\ step' = "end" /\ released' = released /\ closed'
  BY DoesStep, Nexts DEF Sql!Finish
<1>6. SqlTypes' BY <1>1, <1>3, <1>4, <1>5 DEF SqlInv, SqlTypes, Last
<1>7. RowsInv' BY <1>1, <1>5, RowsKept DEF Last
<1>8. WriteInv' BY <1>5 DEF WriteInv, Early, Writing
<1>9. ReadInv' BY <1>5 DEF ReadInv, Early, Writing, Reading
<1>10. FailInv' BY <1>1, <1>5 DEF SqlInv, FailInv, Last
<1>11. ReleaseInv' BY <1>5 DEF SqlInv, ReleaseInv, FailInv
<1>12. StmtInv' BY <1>1, <1>5 DEF SqlInv, StmtInv, Early, Last
<1> QED BY <1>6, <1>7, <1>8, <1>9, <1>10, <1>11, <1>12 DEF SqlInv

LEMMA SqlStep == ASSUME SqlInv, Sql!Next PROVE SqlInv'
BY QueryKeeps, ReadImgKeeps, PrepareKeeps, SendKeeps, ExecuteKeeps, FetchKeeps, ColumnKeeps,
   WriteImgKeeps, FinishKeeps
   DEF Sql!Next

LEMMA SqlIsWhole == ASSUME SqlInv PROVE Sql!ImageWhole
BY DEF SqlInv, RowsInv, WholeRow, FailInv, ReleaseInv, StmtInv, Last, Sql!ImageWhole

-----------------------------------------------------------------------------
(* The clocks of KCP *)

M == ClockModulus
Half == ClockModulus \div 2
Stamp == 0..(M - 1)

\* ts is what the clock, which shows c at the real time e, shows at the real time at.
TracksAt(c, e, ts, at) ==
  \/ c - ts = e - at
  \/ c - ts = (e - at) + M
  \/ c - ts = (e - at) - M
Tracks(ts, at) == TracksAt(clock, elapsed, ts, at)

Timer(ts, due) == Tracks(ts, due) /\ due - elapsed < Half

ClockTypes ==
  /\ elapsed \in 0..MaxElapsed /\ calledAt = elapsed /\ interval \in MinInterval..MaxInterval
  /\ clock \in Stamp /\ current \in Stamp /\ ts_flush \in Stamp
  /\ rx.srtt \in Nat /\ rx.rttval \in Nat /\ rx.rto \in 0..RTO_MAX
  /\ seg.xmit \in Nat /\ seg.rto \in Nat /\ seg.due \in Nat
  /\ seg.resendts \in Stamp /\ seg.ts \in Stamp /\ seg.first \in Stamp
  /\ probe.wait \in 0..PROBE_LIMIT /\ probe.ts \in Stamp /\ probe.due \in Nat

ClockBools == clockSet \in BOOLEAN /\ updated \in BOOLEAN /\ rmt_wnd0 \in BOOLEAN

\* While nobody sets the clock, timestamps are real times.
SegTimes ==
  seg.xmit > 0 =>
    /\ current = clock /\ seg.rto <= seg.due /\ Timer(seg.resendts, seg.due)
    /\ \E at \in 0..elapsed : Tracks(seg.ts, at)
    /\ \E at \in 0..elapsed : Tracks(seg.first, at)

ProbeTimes == probe.wait > 0 => current = clock /\ Timer(probe.ts, probe.due)

TimesInv == ~clockSet => SegTimes /\ ProbeTimes /\ rx.srtt <= elapsed

FlushAhead == Clock!itimediff(ts_flush, current) \in 1..Clock!Larger(interval, Slack)
FlushInv == updated => FlushAhead

ClockInv == ClockTypes /\ ClockBools /\ TimesInv /\ FlushInv

LEMMA ModIs ==
  ASSUME NEW m \in Nat \ {0}, NEW x \in Int
  PROVE  /\ x % m \in 0..(m - 1)
         /\ (0 <= x /\ x < m) => x % m = x
         /\ (m <= x /\ x < 2 * m) => x % m = x - m
         /\ (0 - m <= x /\ x < 0) => x % m = x + m
<1>1. x % m \in 0..(m - 1) OBVIOUS
<1>2. (0 <= x /\ x < m) => x % m = x OBVIOUS
<1>3. (m <= x /\ x < 2 * m) => x % m = x - m OBVIOUS
<1>4. (0 - m <= x /\ x < 0) => x % m = x + m OBVIOUS
<1> QED BY <1>1, <1>2, <1>3, <1>4

\* The constants, as far as arithmetic needs them.
LEMMA ClockFacts ==
  /\ M \in Nat \ {0} /\ Half \in Nat /\ 2 * Half <= M /\ Half > 0 /\ Half < M
  /\ Slack \in Nat \ {0} /\ MinInterval \in Nat \ {0} /\ MaxInterval \in Nat
  /\ MaxInterval + Slack < Half
  /\ MaxElapsed \in Nat /\ 2 * MaxElapsed < Half
  /\ RTO_MAX \in Nat /\ MaxElapsed + 2 * RTO_MAX < Half
  /\ PROBE_INIT \in Nat \ {0} /\ PROBE_LIMIT \in Nat /\ PROBE_INIT <= PROBE_LIMIT
  /\ MaxElapsed + PROBE_LIMIT < Half
<1>1. M \in Nat \ {0} BY ClockAssumption DEF M
<1>2. Half \in Nat /\ 2 * Half <= M BY <1>1 DEF Half, M
<1>3. MaxInterval + Slack < Half /\ MaxInterval \in Nat /\ Slack \in Nat \ {0}
  BY ClockAssumption DEF Half
<1>4. Half > 0 /\ Half < M BY <1>1, <1>2, <1>3
<1> QED BY <1>1, <1>2, <1>3, <1>4, ClockAssumption DEF Half

\* Timestamps wrap at most once here.
LEMMA PlusIs ==
  ASSUME NEW t \in Stamp, NEW n \in Nat
  PROVE  /\ Clock!Plus(t, n) \in Stamp
         /\ n < M => Clock!Plus(t, n) = IF t + n < M THEN t + n ELSE t + n - M
<1>1. M \in Nat \ {0} /\ t \in Int /\ 0 <= t /\ t < M BY ClockFacts DEF Stamp
<1> DEFINE x == t + n
<1>2. Clock!Plus(t, n) = x % M BY DEF Clock!Plus, M
<1>3. x \in Int /\ 0 <= x BY <1>1
<1>4. n < M => x < 2 * M BY <1>1
<1> HIDE DEF x
<1>5. x % M \in 0..(M - 1) BY <1>1, <1>3, ModIs
<1>6. x < M => x % M = x BY <1>1, <1>3, ModIs
<1>7. (M <= x /\ x < 2 * M) => x % M = x - M BY <1>1, <1>3, ModIs
<1>8. ~(x < M) => M <= x BY <1>1, <1>3
<1>9. n < M => x % M = IF x < M THEN x ELSE x - M BY <1>4, <1>6, <1>7, <1>8
<1>10. Clock!Plus(t, n) \in Stamp BY <1>2, <1>5 DEF Stamp
<1>11. ASSUME n < M PROVE Clock!Plus(t, n) = IF x < M THEN x ELSE x - M BY <1>2, <1>9, <1>11
<1>12. x = t + n BY DEF x
<1> QED BY <1>1, <1>3, <1>10, <1>11, <1>12

LEMMA DiffIs ==
  ASSUME NEW a \in Stamp, NEW b \in Stamp
  PROVE  Clock!itimediff(a, b) =
           IF a >= b THEN (IF a - b < Half THEN a - b ELSE a - b - M)
           ELSE (IF a - b + M < Half THEN a - b + M ELSE a - b)
<1> DEFINE d == (a - b) % M
<1>1. /\ M \in Nat \ {0} /\ a \in Int /\ 0 <= a /\ a < M /\ b \in Int /\ 0 <= b /\ b < M
      /\ Half \in Nat
  BY ClockFacts DEF Stamp
<1>2. Clock!itimediff(a, b) = IF d < Half THEN d ELSE d - M BY DEF Clock!itimediff, M, Half
<1>3. a - b \in Int /\ a - b < M /\ 0 - M <= a - b BY <1>1
<1>4. CASE a >= b
  <2>1. 0 <= a - b BY <1>1, <1>4
  <2>2. d = a - b BY <1>1, <1>3, <2>1, ModIs
  <2> HIDE DEF d
  <2> QED BY <1>2, <1>4, <2>2
<1>5. CASE ~(a >= b)
  <2>1. a - b < 0 BY <1>1, <1>5
  <2>2. d = a - b + M BY <1>1, <1>3, <2>1, ModIs
  <2> HIDE DEF d
  <2>3. d - M = a - b BY <1>1, <2>2
  <2>4. CASE d < Half BY <1>2, <1>5, <2>2, <2>4
  <2>5. CASE ~(d < Half) BY <1>2, <1>5, <2>2, <2>3, <2>5
  <2> QED BY <2>4, <2>5
<1> QED BY <1>4, <1>5

LEMMA DiffInt ==
  ASSUME NEW a \in Stamp, NEW b \in Stamp
  PROVE  /\ Clock!itimediff(a, b) \in Int
         /\ (Clock!itimediff(a, b) < Half /\ 0 - Half < Clock!itimediff(a, b)) =>
              Clock!itimediff(b, a) = 0 - Clock!itimediff(a, b)
<1>1. /\ M \in Nat \ {0} /\ a \in Int /\ 0 <= a /\ a < M /\ b \in Int /\ 0 <= b /\ b < M
      /\ Half \in Nat /\ 2 * Half <= M
  BY ClockFacts DEF Stamp
<1>2. Clock!itimediff(a, b) =
           IF a >= b THEN (IF a - b < Half THEN a - b ELSE a - b - M)
           ELSE (IF a - b + M < Half THEN a - b + M ELSE a - b)
  BY DiffIs
<1>3. Clock!itimediff(b, a) =
           IF b >= a THEN (IF b - a < Half THEN b - a ELSE b - a - M)
           ELSE (IF b - a + M < Half THEN b - a + M ELSE b - a)
  BY DiffIs
<1> QED BY <1>1, <1>2, <1>3

\* A time tracked is told apart rightly.
LEMMA TrackedDiff ==
  ASSUME NEW c \in Stamp, NEW e \in 0..MaxElapsed, NEW ts \in Stamp, NEW at \in Nat,
         TracksAt(c, e, ts, at), at - e < Half
  PROVE  Clock!itimediff(c, ts) = e - at
<1>1. /\ M \in Nat \ {0} /\ Half \in Nat /\ 2 * Half <= M /\ MaxElapsed \in Nat
      /\ 2 * MaxElapsed < Half
  BY ClockFacts
<1>2. c \in Int /\ 0 <= c /\ c < M /\ ts \in Int /\ 0 <= ts /\ ts < M
  BY <1>1 DEF Stamp
<1>3. e \in Nat /\ e < Half BY <1>1
<1>4. e - at < Half /\ 0 - Half < e - at BY <1>1, <1>3
<1>5. Clock!itimediff(c, ts) =
        IF c >= ts THEN (IF c - ts < Half THEN c - ts ELSE c - ts - M)
        ELSE (IF c - ts + M < Half THEN c - ts + M ELSE c - ts)
  BY DiffIs
<1>6. CASE c - ts = e - at BY <1>1, <1>2, <1>3, <1>4, <1>5, <1>6
<1>7. CASE c - ts = (e - at) + M BY <1>1, <1>2, <1>3, <1>4, <1>5, <1>7
<1>8. CASE c - ts = (e - at) - M BY <1>1, <1>2, <1>3, <1>4, <1>5, <1>8
<1> QED BY <1>6, <1>7, <1>8 DEF TracksAt

LEMMA TimersAreTrue == ASSUME ClockInv PROVE Clock!TimersTrue
<1>1. SUFFICES ASSUME ~clockSet PROVE
        /\ seg.xmit > 0 =>
             (Clock!itimediff(current, seg.resendts) >= 0 <=> calledAt >= seg.due)
        /\ probe.wait > 0 =>
             (Clock!itimediff(current, probe.ts) >= 0 <=> calledAt >= probe.due)
        /\ rx.srtt <= elapsed
  BY DEF Clock!TimersTrue
<1>2. SegTimes /\ ProbeTimes /\ rx.srtt <= elapsed BY <1>1 DEF ClockInv, TimesInv
<1>3. /\ calledAt = elapsed /\ elapsed \in 0..MaxElapsed /\ elapsed \in Nat /\ clock \in Stamp
      /\ seg.due \in Nat /\ probe.due \in Nat /\ seg.resendts \in Stamp /\ probe.ts \in Stamp
  BY ClockFacts DEF ClockInv, ClockTypes
<1>4. ASSUME seg.xmit > 0
      PROVE  Clock!itimediff(current, seg.resendts) >= 0 <=> calledAt >= seg.due
  <2>1. current = clock /\ Tracks(seg.resendts, seg.due) /\ seg.due - elapsed < Half
    BY <1>2, <1>4 DEF SegTimes, Timer
  <2>2. Clock!itimediff(clock, seg.resendts) = elapsed - seg.due BY <2>1, <1>3, TrackedDiff DEF Tracks
  <2> QED BY <2>1, <2>2, <1>3
<1>5. ASSUME probe.wait > 0
      PROVE  Clock!itimediff(current, probe.ts) >= 0 <=> calledAt >= probe.due
  <2>1. current = clock /\ Tracks(probe.ts, probe.due) /\ probe.due - elapsed < Half
    BY <1>2, <1>5 DEF ProbeTimes, Timer
  <2>2. Clock!itimediff(clock, probe.ts) = elapsed - probe.due BY <2>1, <1>3, TrackedDiff DEF Tracks
  <2> QED BY <2>1, <2>2, <1>3
<1> QED BY <1>2, <1>4, <1>5

LEMMA DiffPlus ==
  ASSUME NEW t \in Stamp, NEW n \in Nat, n < Half
  PROVE  Clock!itimediff(Clock!Plus(t, n), t) = n
<1>1. M \in Nat \ {0} /\ Half \in Nat /\ 2 * Half <= M BY ClockFacts
<1>2. t \in Int /\ 0 <= t /\ t < M BY <1>1 DEF Stamp
<1> DEFINE p == Clock!Plus(t, n)
<1>3. p \in Stamp /\ p = IF t + n < M THEN t + n ELSE t + n - M BY <1>1, PlusIs
<1> HIDE DEF p
<1>4. Clock!itimediff(p, t) =
           IF p >= t THEN (IF p - t < Half THEN p - t ELSE p - t - M)
           ELSE (IF p - t + M < Half THEN p - t + M ELSE p - t)
  BY <1>3, DiffIs
<1>5. Clock!itimediff(p, t) = n
  <2>1. CASE t + n < M
    <3>1. p = t + n BY <1>3, <2>1
    <3> QED BY <1>1, <1>2, <1>4, <3>1
  <2>2. CASE ~(t + n < M)
    <3>1. p = t + n - M BY <1>3, <2>2
    <3>2. ~(p >= t) /\ p - t + M = n BY <1>1, <1>2, <3>1
    <3> QED BY <1>4, <3>2
  <2> QED BY <2>1, <2>2
<1> QED BY <1>5 DEF p

LEMMA FlushesInTime == ASSUME ClockInv PROVE Clock!FlushInTime
<1>1. SUFFICES ASSUME updated PROVE
        /\ Clock!itimediff(ts_flush, current) \in 1..Clock!Larger(interval, Slack)
        /\ LET wake == Clock!itimediff(Clock!ikcp_check(clock), clock) IN
           /\ wake \in 0..interval
           /\ wake > 0 => /\ wake <= Clock!itimediff(ts_flush, clock)
                          /\ seg.xmit > 0 => wake <= Clock!itimediff(seg.resendts, clock)
  BY DEF Clock!FlushInTime
<1> DEFINE flush == Clock!Corrected(ts_flush, clock)
           tm_packet == Clock!itimediff(seg.resendts, clock)
           tm_flush == Clock!itimediff(flush, clock)
           minimal == IF seg.xmit > 0 THEN Clock!Smaller(tm_packet, tm_flush) ELSE tm_flush
           wait == Clock!Smaller(minimal, interval)
           now == Clock!itimediff(clock, flush) >= 0 \/ (seg.xmit > 0 /\ tm_packet <= 0)
           wake == Clock!itimediff(Clock!ikcp_check(clock), clock)
<1>2. /\ clock \in Stamp /\ ts_flush \in Stamp /\ seg.resendts \in Stamp
      /\ interval \in Nat \ {0} /\ interval <= MaxInterval
  BY ClockFacts DEF ClockInv, ClockTypes
<1>3. M \in Nat \ {0} /\ Half \in Nat /\ 2 * Half <= M /\ interval < Half /\ Half < M
  BY <1>2, ClockFacts
<1>4. Clock!ikcp_check(clock) = IF now THEN clock ELSE Clock!Plus(clock, wait)
  BY <1>1 DEF Clock!ikcp_check
<1>5. flush \in Stamp /\ (flush = ts_flush \/ flush = clock) BY <1>2 DEF Clock!Corrected
<1>6. tm_packet \in Int BY <1>2, DiffInt
<1>7. Clock!itimediff(clock, clock) = 0 BY <1>2, <1>3, DiffIs DEF Stamp
<1> HIDE DEF flush, tm_packet, wake
<1>8. CASE now
  <2>1. wake = 0 BY <1>4, <1>7, <1>8 DEF wake
  <2> QED BY <2>1, <1>1, <1>2 DEF wake, ClockInv, FlushInv, FlushAhead
<1>9. CASE ~now
  <2>1. flush = ts_flush BY <1>5, <1>7, <1>9
  <2>2. tm_flush \in Nat \ {0}
    <3>1. Clock!itimediff(clock, ts_flush) \in Int /\ Clock!itimediff(ts_flush, clock) \in Int
      BY <1>2, DiffInt
    <3>2. Clock!itimediff(clock, ts_flush) < 0 BY <3>1, <1>9, <2>1
    <3>3. ~(Clock!itimediff(clock, ts_flush) < -Slack) BY <2>1, <1>7, <1>9 DEF flush, Clock!Corrected
    <3>4. /\ Clock!itimediff(clock, ts_flush) < Half
          /\ 0 - Half < Clock!itimediff(clock, ts_flush)
      BY <3>1, <3>2, <3>3, <1>3, ClockFacts
    <3>5. Clock!itimediff(ts_flush, clock) = 0 - Clock!itimediff(clock, ts_flush)
      BY <3>4, <1>2, DiffInt
    <3> QED BY <3>1, <3>2, <3>5, <2>1
  <2> HIDE DEF tm_flush
  <2>3. seg.xmit > 0 => tm_packet > 0 BY <1>6, <1>9
  <2>4. wait \in 1..interval /\ wait <= tm_flush /\ (seg.xmit > 0 => wait <= tm_packet)
    BY <1>2, <1>6, <2>2, <2>3 DEF Clock!Smaller
  <2> HIDE DEF wait
  <2>5. wake = wait
    <3>1. wait \in Nat /\ wait < Half BY <2>4, <1>2, <1>3
    <3> QED BY <3>1, <1>2, <1>4, <1>9, DiffPlus DEF wake
  <2>6. tm_flush = Clock!itimediff(ts_flush, clock) BY <2>1 DEF tm_flush
  <2> QED BY <1>1, <1>2, <2>4, <2>5, <2>6 DEF wake, tm_packet, ClockInv, FlushInv, FlushAhead
<1> QED BY <1>8, <1>9

-----------------------------------------------------------------------------
(* Steps of the clocks *)

LEMMA ClampedIs == ASSUME NEW i \in Int PROVE Clock!Clamped(i) \in MinInterval..MaxInterval
BY ClockAssumption DEF Clock!Clamped, Clock!Smaller, Clock!Larger

LEMMA ClockInitInv == ASSUME Clock!Init PROVE ClockInv
<1> USE DEF Clock!Init
<1>1. interval \in MinInterval..MaxInterval
  <2>1. PICK i \in Intervals : interval = Clock!Clamped(i) OBVIOUS
  <2> QED BY <2>1, ClampedIs, ClockAssumption
<1>2. clock \in Stamp /\ 0 \in Stamp BY ClockAssumption, ClockFacts DEF Stamp, M
<1>3. IKCP_INTERVAL \in Stamp
  <2>1. IKCP_INTERVAL \in Nat /\ IKCP_INTERVAL <= MaxInterval BY ClockAssumption
  <2> QED BY <2>1, ClockFacts DEF Stamp
<1>4. /\ rx.srtt = 0 /\ rx.rttval = 0 /\ rx.rto = RTO_DEF /\ seg.xmit = 0 /\ seg.rto = 0
      /\ seg.due = 0 /\ seg.resendts = 0 /\ seg.ts = 0 /\ seg.first = 0
      /\ probe.wait = 0 /\ probe.ts = 0 /\ probe.due = 0
  BY DEF Clock!NoSegment, Clock!NoProbe
<1>5. RTO_DEF \in 0..RTO_MAX /\ 0 \in 0..PROBE_LIMIT /\ 0 \in 0..MaxElapsed BY ClockAssumption
<1>6. ClockTypes BY <1>1, <1>2, <1>3, <1>4, <1>5 DEF ClockTypes
<1>7. ClockBools BY Zenon DEF ClockBools
<1>8. TimesInv BY <1>4 DEF TimesInv, SegTimes, ProbeTimes
<1>9. FlushInv BY DEF FlushInv
<1> QED BY <1>6, <1>7, <1>8, <1>9 DEF ClockInv

LEMMA ClockKept == ASSUME ClockInv, UNCHANGED clockVars PROVE ClockInv'
BY DEF clockVars, ClockInv, ClockTypes, ClockBools, TimesInv, SegTimes, ProbeTimes, Timer,
       Tracks, TracksAt, FlushInv, FlushAhead, Clock!itimediff, Clock!Larger

LEMMA WindowKeeps == ASSUME ClockInv, Clock!Window PROVE ClockInv'
<1>1. /\ elapsed' = elapsed /\ clock' = clock /\ clockSet' = clockSet /\ updated' = updated
      /\ current' = current /\ ts_flush' = ts_flush /\ interval' = interval /\ rx' = rx
      /\ seg' = seg /\ probe' = probe /\ calledAt' = calledAt
  BY DEF Clock!Window
<1>2. ClockTypes' BY <1>1 DEF ClockInv, ClockTypes
<1>3. ClockBools'
  <2>1. rmt_wnd0' = ~rmt_wnd0 BY DEF Clock!Window
  <2>2. (~rmt_wnd0) \in BOOLEAN OBVIOUS
  <2>3. clockSet \in BOOLEAN /\ updated \in BOOLEAN BY DEF ClockInv, ClockBools
  <2> QED BY <1>1, <2>1, <2>2, <2>3, Zenon DEF ClockBools
<1>4. TimesInv'
  BY <1>1 DEF ClockInv, TimesInv, SegTimes, ProbeTimes, Timer, Tracks
<1>5. FlushInv' BY <1>1 DEF ClockInv, FlushInv, FlushAhead, Clock!itimediff, Clock!Larger
<1> QED BY <1>2, <1>3, <1>4, <1>5 DEF ClockInv

LEMMA SetClockKeeps ==
  ASSUME ClockInv, NEW dt \in ClockSteps, Clock!SetClock(dt)
  PROVE  ClockInv'
<1>1. /\ elapsed' = elapsed /\ updated' = updated /\ clockSet'
      /\ current' = current /\ ts_flush' = ts_flush /\ interval' = interval /\ rx' = rx
      /\ seg' = seg /\ probe' = probe /\ calledAt' = calledAt
  BY DEF Clock!SetClock
<1>2. clock' \in Stamp
  <2>1. clock' = (clock + dt) % M BY DEF Clock!SetClock, Clock!Plus, M
  <2>2. clock + dt \in Int /\ M \in Nat \ {0}
    BY ClockAssumption, ClockFacts DEF ClockInv, ClockTypes, Stamp
  <2> QED BY <2>1, <2>2, ModIs DEF Stamp
<1>3. ClockTypes' BY <1>1, <1>2 DEF ClockInv, ClockTypes, Stamp, M
<1>4. ClockBools'
  <2>1. clockSet' = TRUE /\ updated' = updated /\ rmt_wnd0' = rmt_wnd0 BY DEF Clock!SetClock
  <2>2. updated \in BOOLEAN /\ rmt_wnd0 \in BOOLEAN BY DEF ClockInv, ClockBools
  <2> QED BY <2>1, <2>2, Zenon DEF ClockBools
<1>5. TimesInv' BY <1>1 DEF TimesInv
<1>6. FlushInv' BY <1>1 DEF ClockInv, FlushInv, FlushAhead, Clock!itimediff, Clock!Larger
<1> QED BY <1>3, <1>4, <1>5, <1>6 DEF ClockInv

\* A smoothed round-trip time is no longer than the longest it is made of.
LEMMA AckIs ==
  ASSUME NEW r, r.srtt \in Nat, r.rttval \in Nat, interval \in Nat, NEW rtt \in Nat
  PROVE  LET u == Clock!ikcp_update_ack(r, rtt) IN
         /\ u.srtt \in Nat /\ u.rttval \in Nat /\ u.rto \in 0..RTO_MAX
         /\ u.srtt <= Clock!Larger(r.srtt, rtt)
<1> DEFINE x == r.srtt
           y == r.rttval
           rttval == IF x = 0 THEN rtt \div 2 ELSE (3 * y + Clock!Abs(rtt - x)) \div 4
           srtt == IF x = 0 THEN rtt ELSE Clock!Larger((7 * x + rtt) \div 8, 1)
           rto == srtt + Clock!Larger(interval, 4 * rttval)
           u == [srtt |-> srtt, rttval |-> rttval,
                 rto |-> Clock!Smaller(Clock!Larger(RTO_MIN, rto), RTO_MAX)]
<1>1. Clock!ikcp_update_ack(r, rtt) = u BY DEF Clock!ikcp_update_ack
<1>2. x \in Nat /\ y \in Nat OBVIOUS
<1> HIDE DEF x, y
<1>3. Clock!Abs(rtt - x) \in Nat BY <1>2 DEF Clock!Abs
<1>4. rttval \in Nat BY <1>2, <1>3
<1>5. srtt \in Nat /\ srtt <= Clock!Larger(x, rtt) BY <1>2 DEF Clock!Larger
<1> HIDE DEF rttval, srtt
<1>6. rto \in Nat BY <1>4, <1>5 DEF Clock!Larger
<1> HIDE DEF rto
<1>7. Clock!Smaller(Clock!Larger(RTO_MIN, rto), RTO_MAX) \in 0..RTO_MAX
  BY <1>6, ClockAssumption DEF Clock!Larger, Clock!Smaller
<1> QED BY <1>1, <1>4, <1>5, <1>7 DEF x

LEMMA AckKeeps == ASSUME ClockInv, Clock!Ack PROVE ClockInv'
<1>1. /\ elapsed' = elapsed /\ clock' = clock /\ clockSet' = clockSet /\ updated' = updated
      /\ current' = current /\ ts_flush' = ts_flush /\ interval' = interval
      /\ rmt_wnd0' = rmt_wnd0 /\ probe' = probe /\ calledAt' = calledAt
      /\ seg' = Clock!NoSegment /\ seg.xmit > 0
  BY DEF Clock!Ack
<1>2. PICK ts \in {seg.first, seg.ts} :
        rx' = IF Clock!itimediff(current, ts) >= 0
                THEN Clock!ikcp_update_ack(rx, Clock!itimediff(current, ts)) ELSE rx
  BY DEF Clock!Ack
<1> DEFINE rtt == Clock!itimediff(current, ts)
<1>3. /\ ts \in Stamp /\ current \in Stamp /\ clock \in Stamp /\ interval \in Nat
      /\ rx.srtt \in Nat /\ rx.rttval \in Nat /\ rx.rto \in 0..RTO_MAX
      /\ elapsed \in Nat /\ elapsed \in 0..MaxElapsed
  BY ClockFacts DEF ClockInv, ClockTypes
<1>4. rtt \in Int BY <1>3, DiffInt
<1>5. ASSUME ~clockSet PROVE rtt <= elapsed /\ rx.srtt <= elapsed
  <2>1. SegTimes /\ rx.srtt <= elapsed BY <1>5 DEF ClockInv, TimesInv
  <2>2. current = clock /\ \E at \in 0..elapsed : Tracks(ts, at) BY <1>1, <2>1 DEF SegTimes
  <2>3. PICK at \in 0..elapsed : Tracks(ts, at) BY <2>2
  <2>4. at \in Nat /\ at - elapsed < Half BY <1>3, ClockFacts
  <2>5. rtt = elapsed - at BY <2>2, <2>3, <2>4, <1>3, TrackedDiff DEF Tracks
  <2> QED BY <2>1, <2>4, <2>5, <1>3
<1> HIDE DEF rtt
<1>6. /\ rx'.srtt \in Nat /\ rx'.rttval \in Nat /\ rx'.rto \in 0..RTO_MAX
      /\ ~clockSet => rx'.srtt <= elapsed
  <2>1. CASE rtt >= 0
    <3>1. rtt \in Nat BY <1>4, <2>1
    <3>2. rx' = Clock!ikcp_update_ack(rx, rtt) BY <1>2, <2>1 DEF rtt
    <3>3. /\ rx'.srtt \in Nat /\ rx'.rttval \in Nat /\ rx'.rto \in 0..RTO_MAX
          /\ rx'.srtt <= Clock!Larger(rx.srtt, rtt)
      BY <3>1, <3>2, <1>3, AckIs
    <3> QED BY <3>1, <3>3, <1>3, <1>5 DEF Clock!Larger
  <2>2. CASE ~(rtt >= 0)
    <3>1. rx' = rx BY <1>2, <2>2 DEF rtt
    <3> QED BY <3>1, <1>3, <1>5
  <2> QED BY <2>1, <2>2
<1>7. /\ seg'.xmit = 0 /\ seg'.rto = 0 /\ seg'.due = 0 /\ seg'.resendts = 0
      /\ seg'.ts = 0 /\ seg'.first = 0 /\ 0 \in Stamp
  BY <1>1, ClockFacts DEF Clock!NoSegment, Stamp
<1>8. ClockTypes' BY <1>1, <1>6, <1>7 DEF ClockInv, ClockTypes, Stamp, M
<1>9. ClockBools' BY <1>1, Zenon DEF ClockInv, ClockBools
<1>10. TimesInv'
  BY <1>1, <1>6, <1>7 DEF ClockInv, TimesInv, SegTimes, ProbeTimes, Timer, Tracks
<1>11. FlushInv' BY <1>1 DEF ClockInv, FlushInv, FlushAhead, Clock!itimediff, Clock!Larger
<1> QED BY <1>8, <1>9, <1>10, <1>11 DEF ClockInv

\* A timestamp goes on tracking its time as the clock runs ...
LEMMA TracksOn ==
  ASSUME NEW c \in Stamp, NEW e \in Nat, NEW c2 \in Stamp, NEW gap \in Nat,
         c2 = IF c + gap < M THEN c + gap ELSE c + gap - M,
         NEW ts \in Stamp, NEW at \in Nat, at - e < Half, TracksAt(c, e, ts, at)
  PROVE  e + gap < Half => TracksAt(c2, e + gap, ts, at)
<1>1. M \in Nat \ {0} /\ Half \in Nat /\ 2 * Half <= M BY ClockFacts
<1>2. /\ c \in Int /\ 0 <= c /\ c < M /\ c2 \in Int /\ 0 <= c2 /\ c2 < M
      /\ ts \in Int /\ 0 <= ts /\ ts < M
  BY <1>1 DEF Stamp
<1>3. SUFFICES ASSUME e + gap < Half PROVE TracksAt(c2, e + gap, ts, at)
  OBVIOUS
<1>4. CASE c - ts = e - at BY <1>1, <1>2, <1>3, <1>4 DEF TracksAt
<1>5. CASE c - ts = (e - at) + M BY <1>1, <1>2, <1>3, <1>5 DEF TracksAt
<1>6. CASE c - ts = (e - at) - M BY <1>1, <1>2, <1>3, <1>6 DEF TracksAt
<1> QED BY <1>4, <1>5, <1>6 DEF TracksAt

\* ... and one that is set to a time to come tracks that.
LEMMA TracksNew ==
  ASSUME NEW c \in Stamp, NEW e \in Nat, NEW n \in Nat, n < M
  PROVE  TracksAt(c, e, Clock!Plus(c, n), e + n) /\ TracksAt(c, e, c, e)
<1>1. M \in Nat \ {0} BY ClockFacts
<1>2. c \in Int BY <1>1 DEF Stamp
<1> DEFINE p == Clock!Plus(c, n)
<1>3. p = IF c + n < M THEN c + n ELSE c + n - M BY PlusIs
<1> HIDE DEF p
<1>4. TracksAt(c, e, p, e + n) BY <1>1, <1>2, <1>3 DEF TracksAt
<1>5. TracksAt(c, e, c, e) BY <1>2 DEF TracksAt
<1> QED BY <1>4, <1>5 DEF p

\* The difference to a timestamp that is put off.
LEMMA DiffShift ==
  ASSUME NEW t \in Stamp, NEW f \in Stamp, NEW n \in Nat, n < M,
         Clock!itimediff(t, f) < Half, 0 - Half < Clock!itimediff(t, f) - n
  PROVE  Clock!itimediff(t, Clock!Plus(f, n)) = Clock!itimediff(t, f) - n
<1>1. M \in Nat \ {0} /\ Half \in Nat /\ 2 * Half <= M BY ClockFacts
<1>2. t \in Int /\ 0 <= t /\ t < M /\ f \in Int /\ 0 <= f /\ f < M BY <1>1 DEF Stamp
<1> DEFINE p == Clock!Plus(f, n)
           d == Clock!itimediff(t, f)
<1>3. p \in Stamp /\ p = IF f + n < M THEN f + n ELSE f + n - M BY PlusIs
<1>4. p \in Int /\ 0 <= p /\ p < M BY <1>1, <1>3 DEF Stamp
<1>5. d = IF t >= f THEN (IF t - f < Half THEN t - f ELSE t - f - M)
          ELSE (IF t - f + M < Half THEN t - f + M ELSE t - f)
  BY DiffIs
<1>6. d \in Int /\ d < Half /\ 0 - Half < d - n BY DiffInt
<1> HIDE DEF p, d
<1>7. Clock!itimediff(t, p) =
        IF t >= p THEN (IF t - p < Half THEN t - p ELSE t - p - M)
        ELSE (IF t - p + M < Half THEN t - p + M ELSE t - p)
  BY <1>3, DiffIs
<1>8. t - f = d \/ t - f = d + M \/ t - f = d - M BY <1>1, <1>2, <1>5
<1>9. p = f + n \/ p = f + n - M BY <1>3
<1>10. t - p = d - n \/ t - p = d - n + M \/ t - p = d - n - M
  BY <1>1, <1>2, <1>4, <1>6, <1>8, <1>9
<1>11. ASSUME t - p = d - n PROVE Clock!itimediff(t, p) = d - n
  BY <1>1, <1>2, <1>4, <1>6, <1>7, <1>11
<1>12. ASSUME t - p = d - n + M PROVE Clock!itimediff(t, p) = d - n
  BY <1>1, <1>2, <1>4, <1>6, <1>7, <1>12
<1>13. ASSUME t - p = d - n - M PROVE Clock!itimediff(t, p) = d - n
  BY <1>1, <1>2, <1>4, <1>6, <1>7, <1>13
<1>14. Clock!itimediff(t, p) = d - n BY <1>10, <1>11, <1>12, <1>13
<1> QED BY <1>14 DEF p, d

\* What ikcp_update leaves in ts_flush is ahead, but not far.
LEMMA NextFlushAhead ==
  ASSUME interval \in Nat \ {0}, interval <= MaxInterval,
         NEW t \in Stamp, NEW f0 \in Stamp
  PROVE  LET f == Clock!Corrected(f0, t)
             g == IF Clock!itimediff(t, f) >= 0 THEN Clock!NextFlush(f, t) ELSE f
         IN  f \in Stamp /\ g \in Stamp
             /\ Clock!itimediff(g, t) \in 1..Clock!Larger(interval, Slack)
<1> DEFINE f == Clock!Corrected(f0, t)
           d == Clock!itimediff(t, f)
           g == IF d >= 0 THEN Clock!NextFlush(f, t) ELSE f
<1>1. /\ M \in Nat \ {0} /\ Half \in Nat /\ 2 * Half <= M /\ Half < M /\ Slack \in Nat \ {0}
      /\ MaxInterval \in Nat /\ MaxInterval + Slack < Half
  BY ClockFacts
<1>2. Clock!itimediff(t, t) = 0 BY <1>1, DiffIs DEF Stamp
<1>3. f \in Stamp /\ (f = t \/ ~(Clock!itimediff(t, f) >= Slack \/ Clock!itimediff(t, f) < -Slack))
  BY DEF Clock!Corrected
<1>4. d \in Int BY <1>3, DiffInt
<1>5. d < Slack /\ -Slack <= d BY <1>1, <1>2, <1>3, <1>4
<1> HIDE DEF f
<1>6. interval < M /\ interval < Half /\ 0 - Half < d - interval /\ d < Half
  BY <1>1, <1>4, <1>5
<1>7. 1..interval \subseteq 1..Clock!Larger(interval, Slack) BY <1>1 DEF Clock!Larger
<1>8. CASE d >= 0
  <2> DEFINE p == Clock!Plus(f, interval)
             q == Clock!Plus(t, interval)
  <2>1. p \in Stamp /\ q \in Stamp BY <1>3, PlusIs
  <2>2. Clock!itimediff(t, p) = d - interval BY <1>3, <1>6, DiffShift
  <2>3. g = IF Clock!itimediff(t, p) >= 0 THEN q ELSE p BY <1>8 DEF Clock!NextFlush
  <2>4. Clock!itimediff(q, t) = interval BY <1>6, DiffPlus
  <2> HIDE DEF p, q, d, g
  <2>5. CASE d - interval >= 0
    <3>1. g = q BY <2>2, <2>3, <2>5
    <3> QED BY <3>1, <2>1, <2>4, <1>3, <1>7 DEF d, g, f
  <2>6. CASE ~(d - interval >= 0)
    <3>1. g = p BY <2>2, <2>3, <2>6
    <3>2. Clock!itimediff(t, p) < Half /\ 0 - Half < Clock!itimediff(t, p)
      BY <2>2, <1>1, <1>4, <1>6
    <3>3. Clock!itimediff(p, t) = 0 - Clock!itimediff(t, p) BY <2>1, <3>2, DiffInt
    <3>4. Clock!itimediff(p, t) \in 1..interval BY <3>3, <2>2, <2>6, <1>4, <1>8
    <3> QED BY <3>1, <3>4, <2>1, <1>3, <1>7 DEF d, g, f
  <2> QED BY <2>5, <2>6
<1>9. CASE ~(d >= 0)
  <2>1. g = f BY <1>9
  <2>2. d < Half /\ 0 - Half < d BY <1>1, <1>4, <1>5
  <2>3. Clock!itimediff(f, t) = 0 - d BY <2>2, <1>3, DiffInt
  <2> HIDE DEF d, g
  <2>4. 0 - d \in 1..Clock!Larger(interval, Slack)
    BY <1>1, <1>4, <1>5, <1>9 DEF Clock!Larger
  <2> QED BY <2>1, <2>3, <2>4, <1>3 DEF d, g, f
<1> QED BY <1>8, <1>9

\* The probe after a flush: none, the one that was there, or one that is set anew.
LEMMA ProbeFlushed ==
  ASSUME ClockTypes, NEW t \in Stamp, NEW e \in 0..MaxElapsed
  PROVE  LET p == Clock!FlushProbe(t, e) IN
         /\ p.wait \in 0..PROBE_LIMIT /\ p.ts \in Stamp /\ p.due \in Nat
         /\ \/ p.wait = 0
            \/ p = probe
            \/ p.ts = Clock!Plus(t, p.wait) /\ p.due = e + p.wait
<1> DEFINE base == Clock!Larger(probe.wait, PROBE_INIT)
           wait == Clock!Smaller(base + base \div 2, PROBE_LIMIT)
           New(w) == [wait |-> w, ts |-> Clock!Plus(t, w), due |-> e + w]
           p == Clock!FlushProbe(t, e)
<1>1. /\ PROBE_INIT \in Nat \ {0} /\ PROBE_LIMIT \in Nat /\ PROBE_INIT <= PROBE_LIMIT
      /\ MaxElapsed \in Nat /\ e \in Nat /\ 0 \in Stamp
  BY ClockFacts DEF Stamp
<1>2. /\ probe.wait \in Nat /\ probe.wait \in 0..PROBE_LIMIT /\ probe.ts \in Stamp
      /\ probe.due \in Nat
  BY <1>1 DEF ClockTypes
<1>3. base \in Nat BY <1>1, <1>2 DEF Clock!Larger
<1>4. wait \in 0..PROBE_LIMIT
  <2> HIDE DEF base
  <2>1. base + base \div 2 \in Nat BY <1>3
  <2> QED BY <2>1, <1>1 DEF Clock!Smaller
<1>5. p \in {Clock!NoProbe, New(PROBE_INIT), New(wait), probe}
  BY DEF Clock!FlushProbe
<1> HIDE DEF p, wait
<1>6. ASSUME NEW w \in 0..PROBE_LIMIT, p = New(w)
      PROVE  /\ p.wait \in 0..PROBE_LIMIT /\ p.ts \in Stamp /\ p.due \in Nat
             /\ p.ts = Clock!Plus(t, p.wait) /\ p.due = e + p.wait
  <2>1. w \in Nat BY <1>1
  <2>2. p.wait = w /\ p.ts = Clock!Plus(t, w) /\ p.due = e + w BY <1>6
  <2> QED BY <2>1, <2>2, <1>1, PlusIs
<1>7. CASE p = Clock!NoProbe
  <2>1. p.wait = 0 /\ p.ts = 0 /\ p.due = 0 BY <1>7 DEF Clock!NoProbe
  <2> QED BY <2>1, <1>1 DEF p
<1>8. CASE p = New(PROBE_INIT)
  <2>1. PROBE_INIT \in 0..PROBE_LIMIT BY <1>1
  <2> QED BY <1>6, <1>8, <2>1 DEF p
<1>9. CASE p = New(wait) BY <1>4, <1>6, <1>9 DEF p
<1>10. CASE p = probe BY <1>2, <1>10 DEF p
<1> QED BY <1>5, <1>7, <1>8, <1>9, <1>10

\* The segment after a flush: as it was, sent for the first time, or resent.
LEMMA SegFlushed ==
  ASSUME ClockTypes, NEW t \in Stamp, NEW e \in 0..MaxElapsed
  PROVE  LET s == Clock!FlushSegment(seg, t, e) IN
         /\ s.xmit \in Nat /\ s.rto \in Nat /\ s.due \in Nat
         /\ s.resendts \in Stamp /\ s.ts \in Stamp /\ s.first \in Stamp
         /\ \/ s = seg
            \/ \E w \in Nat :
                 /\ s.resendts = Clock!Plus(t, w) /\ s.due = e + w /\ s.rto <= w /\ s.ts = t
                 /\ \/ s.first = t /\ w <= 2 * RTO_MAX
                    \/ /\ seg.xmit > 0 /\ Clock!itimediff(t, seg.resendts) >= 0
                       /\ s.first = seg.first
                       /\ w = seg.rto + Clock!Larger(seg.rto, rx.rto)
<1> DEFINE s == Clock!FlushSegment(seg, t, e)
           w1 == rx.rto + rx.rto \div 8
           w2 == seg.rto + Clock!Larger(seg.rto, rx.rto)
           s1 == [xmit |-> 1, rto |-> rx.rto, resendts |-> Clock!Plus(t, w1), ts |-> t,
                  first |-> t, due |-> e + w1]
           s2 == [xmit |-> seg.xmit + 1, rto |-> w2, resendts |-> Clock!Plus(t, w2), ts |-> t,
                  first |-> seg.first, due |-> e + w2]
<1>1. /\ seg.xmit \in Nat /\ seg.rto \in Nat /\ seg.due \in Nat
      /\ seg.resendts \in Stamp /\ seg.ts \in Stamp /\ seg.first \in Stamp
      /\ rx.rto \in Nat /\ rx.rto <= RTO_MAX /\ RTO_MAX \in Nat /\ e \in Nat
  BY ClockFacts DEF ClockTypes
<1>2. w1 \in Nat /\ rx.rto <= w1 /\ w1 <= 2 * RTO_MAX BY <1>1
<1>3. w2 \in Nat BY <1>1 DEF Clock!Larger
<1>4. \/ s = s1
      \/ s = s2 /\ seg.xmit > 0 /\ Clock!itimediff(t, seg.resendts) >= 0
      \/ s = seg
  BY <1>1 DEF Clock!FlushSegment
<1> HIDE DEF s, w1, w2
<1>5. CASE s = s1
  <2>1. /\ s.xmit = 1 /\ s.rto = rx.rto /\ s.resendts = Clock!Plus(t, w1) /\ s.ts = t
        /\ s.first = t /\ s.due = e + w1
    BY <1>5
  <2>2. Clock!Plus(t, w1) \in Stamp BY <1>2, PlusIs
  <2>3. e + w1 \in Nat BY <1>1, <1>2
  <2> QED BY <1>1, <1>2, <2>1, <2>2, <2>3 DEF s
<1>6. CASE s = s2 /\ seg.xmit > 0 /\ Clock!itimediff(t, seg.resendts) >= 0
  <2>1. /\ s.xmit = seg.xmit + 1 /\ s.rto = w2 /\ s.resendts = Clock!Plus(t, w2) /\ s.ts = t
        /\ s.first = seg.first /\ s.due = e + w2
    BY <1>6
  <2>2. Clock!Plus(t, w2) \in Stamp BY <1>3, PlusIs
  <2>3. e + w2 \in Nat /\ seg.xmit + 1 \in Nat /\ w2 <= w2 BY <1>1, <1>3
  <2>4. w2 = seg.rto + Clock!Larger(seg.rto, rx.rto) BY DEF w2
  <2> QED BY <1>1, <1>3, <1>6, <2>1, <2>2, <2>3, <2>4 DEF s
<1>7. CASE s = seg BY <1>1, <1>7 DEF s
<1> QED BY <1>4, <1>5, <1>6, <1>7

LEMMA UpdateKeeps == ASSUME ClockInv, NEW gap \in Gaps, Clock!ikcp_update(gap) PROVE ClockInv'
<1> DEFINE now == elapsed + gap
           t == Clock!Plus(clock, gap)
           f0 == IF updated THEN ts_flush ELSE t
           flush == Clock!Corrected(f0, t)
           g == IF Clock!itimediff(t, flush) >= 0 THEN Clock!NextFlush(flush, t) ELSE flush
<1>1. /\ elapsed' = now /\ clock' = t /\ calledAt' = now /\ current' = t /\ updated' = TRUE
      /\ now <= MaxElapsed /\ clockSet' = clockSet /\ interval' = interval /\ rx' = rx
      /\ rmt_wnd0' = rmt_wnd0
  BY DEF Clock!ikcp_update
<1>2. ts_flush' = g
  <2>1. CASE Clock!itimediff(t, flush) >= 0 BY <2>1 DEF Clock!ikcp_update
  <2>2. CASE ~(Clock!itimediff(t, flush) >= 0) BY <2>2 DEF Clock!ikcp_update
  <2> QED BY <2>1, <2>2
<1>3. /\ probe' = probe \/ probe' = Clock!FlushProbe(t, now)
      /\ seg' = seg \/ seg' = Clock!FlushSegment(seg, t, now)
  <2>1. CASE Clock!itimediff(t, flush) >= 0 BY <2>1 DEF Clock!ikcp_update
  <2>2. CASE ~(Clock!itimediff(t, flush) >= 0) BY <2>2 DEF Clock!ikcp_update
  <2> QED BY <2>1, <2>2
<1>4. /\ clock \in Stamp /\ ts_flush \in Stamp /\ elapsed \in Nat /\ gap \in Nat
      /\ interval \in Nat \ {0} /\ interval <= MaxInterval /\ ClockTypes
  BY ClockAssumption DEF ClockInv, ClockTypes
<1>5. /\ M \in Nat \ {0} /\ Half \in Nat /\ 2 * Half <= M /\ Half < M /\ MaxElapsed \in Nat
      /\ 2 * MaxElapsed < Half /\ RTO_MAX \in Nat /\ MaxElapsed + 2 * RTO_MAX < Half
      /\ PROBE_LIMIT \in Nat /\ MaxElapsed + PROBE_LIMIT < Half
  BY ClockFacts
<1>6. now \in Nat /\ now \in 0..MaxElapsed /\ now < Half /\ gap < M /\ elapsed <= now
  BY <1>1, <1>4, <1>5
<1>7. t \in Stamp /\ t = IF clock + gap < M THEN clock + gap ELSE clock + gap - M
  BY <1>4, <1>6, PlusIs
<1>8. f0 \in Stamp BY <1>4, <1>7
<1> HIDE DEF t, f0
<1>9. g \in Stamp /\ Clock!itimediff(g, t) \in 1..Clock!Larger(interval, Slack)
  BY <1>4, <1>7, <1>8, NextFlushAhead
<1> HIDE DEF now, flush, g
\* What was tracked is tracked on.
<1>10. ASSUME NEW ts \in Stamp, NEW at \in Nat, Tracks(ts, at), at - elapsed < Half
       PROVE  TracksAt(t, now, ts, at)
  <2>1. TracksAt(clock, elapsed, ts, at) BY <1>10 DEF Tracks
  <2>2. elapsed + gap < Half => TracksAt(t, elapsed + gap, ts, at)
    BY <2>1, <1>4, <1>7, <1>10, TracksOn
  <2> QED BY <2>2, <1>6 DEF now
<1>11. /\ probe'.wait \in 0..PROBE_LIMIT /\ probe'.ts \in Stamp /\ probe'.due \in Nat
       /\ ~clockSet /\ probe'.wait > 0 =>
            TracksAt(t, now, probe'.ts, probe'.due) /\ probe'.due - now < Half
  <2>1. CASE probe' = probe
    <3>1. /\ probe.wait \in 0..PROBE_LIMIT /\ probe.ts \in Stamp /\ probe.due \in Nat
      BY <1>4 DEF ClockTypes
    <3>2. ASSUME ~clockSet, probe.wait > 0
          PROVE  TracksAt(t, now, probe.ts, probe.due) /\ probe.due - now < Half
      <4>1. Tracks(probe.ts, probe.due) /\ probe.due - elapsed < Half
        BY <3>2 DEF ClockInv, TimesInv, ProbeTimes, Timer
      <4>2. probe.due - now < Half BY <4>1, <3>1, <1>4, <1>5, <1>6
      <4> QED BY <4>1, <4>2, <3>1, <1>10
    <3> QED BY <2>1, <3>1, <3>2
  <2>2. CASE probe' = Clock!FlushProbe(t, now) /\ probe' # probe
    <3> DEFINE p == probe'
    <3>1. /\ p.wait \in 0..PROBE_LIMIT /\ p.ts \in Stamp /\ p.due \in Nat
          /\ \/ p.wait = 0
             \/ p.ts = Clock!Plus(t, p.wait) /\ p.due = now + p.wait
      BY <2>2, <1>4, <1>6, <1>7, ProbeFlushed
    <3>2. ASSUME p.wait > 0 PROVE TracksAt(t, now, p.ts, p.due) /\ p.due - now < Half
      <4>1. p.ts = Clock!Plus(t, p.wait) /\ p.due = now + p.wait BY <3>1, <3>2
      <4>2. p.wait \in Nat /\ p.wait < M BY <3>1, <1>5
      <4>3. TracksAt(t, now, Clock!Plus(t, p.wait), now + p.wait)
        BY <4>2, <1>6, <1>7, TracksNew
      <4>4. p.due - now < Half BY <4>1, <3>1, <1>5, <1>6
      <4> QED BY <4>1, <4>3, <4>4
    <3> QED BY <3>1, <3>2
  <2> QED BY <2>1, <2>2, <1>3
<1>12. /\ seg'.xmit \in Nat /\ seg'.rto \in Nat /\ seg'.due \in Nat
       /\ seg'.resendts \in Stamp /\ seg'.ts \in Stamp /\ seg'.first \in Stamp
       /\ ~clockSet /\ seg'.xmit > 0 =>
            /\ seg'.rto <= seg'.due
            /\ TracksAt(t, now, seg'.resendts, seg'.due) /\ seg'.due - now < Half
            /\ \E at \in 0..now : TracksAt(t, now, seg'.ts, at)
            /\ \E at \in 0..now : TracksAt(t, now, seg'.first, at)
  <2>1. /\ seg.xmit \in Nat /\ seg.rto \in Nat /\ seg.due \in Nat
        /\ seg.resendts \in Stamp /\ seg.ts \in Stamp /\ seg.first \in Stamp
        /\ rx.rto \in 0..RTO_MAX /\ rx.rto \in Nat
    BY <1>4, <1>5 DEF ClockTypes
  <2>2. ASSUME NEW ts \in Stamp, \E at \in 0..elapsed : Tracks(ts, at)
        PROVE  \E at \in 0..now : TracksAt(t, now, ts, at)
    <3>1. PICK at \in 0..elapsed : Tracks(ts, at) BY <2>2
    <3>2. at \in Nat /\ at - elapsed < Half /\ at \in 0..now BY <1>4, <1>5, <1>6
    <3> QED BY <3>1, <3>2, <1>10
  <2>3. ASSUME ~clockSet, seg.xmit > 0
        PROVE  /\ seg.rto <= seg.due
               /\ TracksAt(t, now, seg.resendts, seg.due) /\ seg.due - now < Half
               /\ \E at \in 0..now : TracksAt(t, now, seg.ts, at)
               /\ \E at \in 0..now : TracksAt(t, now, seg.first, at)
    <3>1. /\ seg.rto <= seg.due
          /\ Tracks(seg.resendts, seg.due) /\ seg.due - elapsed < Half
          /\ \E at \in 0..elapsed : Tracks(seg.ts, at)
          /\ \E at \in 0..elapsed : Tracks(seg.first, at)
      BY <2>3 DEF ClockInv, TimesInv, SegTimes, Timer
    <3>2. seg.due - now < Half BY <3>1, <2>1, <1>4, <1>5, <1>6
    <3>3. TracksAt(t, now, seg.resendts, seg.due) BY <3>1, <2>1, <1>10
    <3> QED BY <3>1, <3>2, <3>3, <2>1, <2>2
  <2>4. CASE seg' = seg BY <2>1, <2>3, <2>4
  <2>5. CASE seg' = Clock!FlushSegment(seg, t, now) /\ seg' # seg
    <3> DEFINE s == seg'
    <3>1. /\ s.xmit \in Nat /\ s.rto \in Nat /\ s.due \in Nat
          /\ s.resendts \in Stamp /\ s.ts \in Stamp /\ s.first \in Stamp
      BY <2>5, <1>4, <1>6, <1>7, SegFlushed
    <3>2. PICK w \in Nat :
            /\ s.resendts = Clock!Plus(t, w) /\ s.due = now + w /\ s.rto <= w /\ s.ts = t
            /\ \/ s.first = t /\ w <= 2 * RTO_MAX
               \/ /\ seg.xmit > 0 /\ Clock!itimediff(t, seg.resendts) >= 0
                  /\ s.first = seg.first
                  /\ w = seg.rto + Clock!Larger(seg.rto, rx.rto)
      BY <2>5, <1>4, <1>6, <1>7, SegFlushed
    <3> HIDE DEF s
    <3>3. ASSUME ~clockSet
          PROVE  w < Half /\ \E at \in 0..now : TracksAt(t, now, s.first, at)
      <4>1. TracksAt(t, now, t, now) /\ now \in 0..now
        <5>1. TracksAt(t, now, t, now) BY <1>5, <1>6, <1>7, TracksNew
        <5> QED BY <5>1, <1>6
      <4>2. CASE s.first = t /\ w <= 2 * RTO_MAX
        <5>1. w < Half BY <4>2, <1>5
        <5> QED BY <5>1, <4>1, <4>2
      <4>3. CASE /\ seg.xmit > 0 /\ Clock!itimediff(t, seg.resendts) >= 0
                 /\ s.first = seg.first
                 /\ w = seg.rto + Clock!Larger(seg.rto, rx.rto)
        <5>1. /\ seg.rto <= seg.due
              /\ TracksAt(t, now, seg.resendts, seg.due) /\ seg.due - now < Half
              /\ \E at \in 0..now : TracksAt(t, now, seg.first, at)
          BY <2>3, <3>3, <4>3
        <5>2. Clock!itimediff(t, seg.resendts) = now - seg.due
          BY <5>1, <2>1, <1>6, <1>7, TrackedDiff, ZenonT(30)
        <5>3. seg.rto <= now BY <4>3, <5>1, <5>2, <2>1, <1>6
        <5>4. seg.rto <= MaxElapsed BY <5>3, <2>1, <1>5, <1>6
        <5>5. CASE seg.rto > rx.rto
          <6>1. w = seg.rto + seg.rto BY <4>3, <5>5 DEF Clock!Larger
          <6> QED BY <6>1, <5>1, <5>4, <4>3, <2>1, <1>5
        <5>6. CASE ~(seg.rto > rx.rto)
          <6>1. w = seg.rto + rx.rto BY <4>3, <5>6 DEF Clock!Larger
          <6> QED BY <6>1, <5>1, <5>4, <4>3, <2>1, <1>5
        <5> QED BY <5>5, <5>6
      <4> QED BY <4>2, <4>3, <3>2
    <3>4. ASSUME ~clockSet
          PROVE  /\ s.rto <= s.due
                 /\ TracksAt(t, now, s.resendts, s.due) /\ s.due - now < Half
                 /\ \E at \in 0..now : TracksAt(t, now, s.ts, at)
      <4>1. w < Half /\ w < M BY <3>3, <3>4, <1>5
      <4>2. TracksAt(t, now, Clock!Plus(t, w), now + w) /\ TracksAt(t, now, t, now)
        BY <4>1, <1>6, <1>7, TracksNew
      <4>3. s.rto <= s.due /\ s.due - now < Half BY <4>1, <3>1, <3>2, <1>5, <1>6
      <4>4. now \in 0..now BY <1>6
      <4> QED BY <4>2, <4>3, <4>4, <3>2
    <3> QED BY <3>1, <3>3, <3>4 DEF s
  <2> QED BY <2>4, <2>5, <1>3
<1>13. ClockTypes'
  BY <1>1, <1>2, <1>4, <1>6, <1>7, <1>9, <1>11, <1>12 DEF ClockTypes, Stamp, M
<1>14. ClockBools'
  <2>1. clockSet \in BOOLEAN /\ rmt_wnd0 \in BOOLEAN BY DEF ClockInv, ClockBools
  <2> QED BY <1>1, <2>1, Zenon DEF ClockBools
<1>15. TimesInv'
  <2>1. SUFFICES ASSUME ~clockSet PROVE SegTimes' /\ ProbeTimes' /\ rx'.srtt <= elapsed'
    BY <1>1 DEF TimesInv
  <2>2. rx.srtt <= elapsed /\ rx.srtt \in Nat BY <2>1, <1>4 DEF ClockInv, TimesInv, ClockTypes
  <2>3. rx'.srtt <= elapsed' BY <2>2, <1>1, <1>4, <1>6
  <2>4. SegTimes'
    BY <2>1, <1>1, <1>12 DEF SegTimes, Timer, Tracks, TracksAt, Half, M
  <2>5. ProbeTimes'
    BY <2>1, <1>1, <1>11 DEF ProbeTimes, Timer, Tracks, TracksAt, Half, M
  <2> QED BY <2>3, <2>4, <2>5
<1>16. FlushInv'
  BY <1>1, <1>2, <1>9 DEF FlushInv, FlushAhead, Clock!itimediff, Clock!Larger
<1> QED BY <1>13, <1>14, <1>15, <1>16 DEF ClockInv

LEMMA ClockStep == ASSUME ClockInv, Clock!Next PROVE ClockInv'
BY UpdateKeeps, AckKeeps, WindowKeeps, SetClockKeeps DEF Clock!Next

-----------------------------------------------------------------------------
(* The phone book *)

\* The i-th node of s, and nullptr before the first and behind the last.
NodeAt(s, i) == IF i \in 1..Len(s) THEN s[i] ELSE 0

Books ==
  [data : Node \cup {0}, count : Nat, heap : SUBSET Node,
   next : [Node -> Node \cup {0}], prev : [Node -> Node \cup {0}],
   person : [Node -> Person \cup {Book!Nobody}]]

\* b is the list of the nodes s, which hold the entries e.
Holds(b, s, e) ==
  /\ b \in Books /\ s \in Seq(Node) /\ e \in Seq(Person) /\ Len(s) = Len(e)
  /\ \A i, j \in 1..Len(s) : s[i] = s[j] => i = j
  /\ b.data = NodeAt(s, 1) /\ b.count = Len(s)
  /\ b.heap = {s[i] : i \in 1..Len(s)}
  /\ \A i \in 1..Len(s) : /\ b.next[s[i]] = NodeAt(s, i + 1)
                          /\ b.prev[s[i]] = NodeAt(s, i - 1)
                          /\ b.person[s[i]] = e[i]

LEMMA BookCardinality == \A S : Book!Cardinality(S) = Cardinality(S)
BY DEF Book!Cardinality, Cardinality

\* There are no more entries than nodes, and as many as are not free.
LEMMA HoldsCount ==
  ASSUME NEW b, NEW s, NEW e, Holds(b, s, e)
  PROVE  /\ Len(s) \in Nat /\ Cardinality(Node) \in Nat /\ Len(s) <= Cardinality(Node)
         /\ Cardinality(Book!Unallocated(b)) = Cardinality(Node) - Len(s)
<1>1. s \in Seq(Node) /\ Len(s) \in Nat BY DEF Holds
<1>2. IsFiniteSet(Node) /\ Cardinality(Node) \in Nat BY BookAssumption, FS_CardinalityType
<1> DEFINE R == {s[i] : i \in 1..Len(s)}
           f == [i \in 1..Len(s) |-> s[i]]
<1>3. R \subseteq Node BY <1>1, ElementOfSeq
<1>4. IsFiniteSet(1..Len(s)) /\ Cardinality(1..Len(s)) = Len(s)
  BY <1>1, FS_Interval
<1>5. f \in Bijection(1..Len(s), R)
  BY DEF Holds, Bijection, Injection, Surjection, IsInjective
<1>6. ExistsBijection(1..Len(s), R) BY <1>5 DEF ExistsBijection
<1>7. IsFiniteSet(R) /\ Cardinality(R) = Len(s) BY <1>4, <1>6, FS_Bijection
<1>8. Cardinality(R) <= Cardinality(Node) BY <1>2, <1>3, FS_Subset
<1>9. Cardinality(Node \ R) = Cardinality(Node) - Cardinality(Node \cap R)
  BY <1>2, FS_Difference
<1>10. Node \cap R = R BY <1>3
<1>11. Book!Unallocated(b) = Node \ R BY DEF Holds, Book!Unallocated
<1> QED BY <1>1, <1>2, <1>7, <1>8, <1>9, <1>10, <1>11

\* A walk along next meets the nodes in order.
LEMMA ListIs == ASSUME NEW b, NEW s, NEW e, Holds(b, s, e) PROVE Book!List(b) = s
<1> DEFINE N == Book!Cardinality(Node)
           F(g) == [i \in 0..N |-> IF i = 0 THEN b.data ELSE Book!Behind(b, g[i - 1])]
           walk == CHOOSE g : g = F(g)
           len == Book!Cardinality({i \in 0..N : walk[i] # Book!nullptr})
           w == [i \in 0..N |-> NodeAt(s, i + 1)]
<1>1. Len(s) \in Nat /\ N \in Nat /\ Len(s) <= N BY HoldsCount, BookCardinality
<1>2. s \in Seq(Node) BY DEF Holds
<1>3. ASSUME NEW i \in Nat, i # 0
      PROVE  Book!Behind(b, NodeAt(s, i)) = NodeAt(s, i + 1)
  <2>1. CASE i \in 1..Len(s)
    <3>1. NodeAt(s, i) = s[i] BY <2>1 DEF NodeAt
    <3>2. s[i] \in Node BY <1>2, <2>1, ElementOfSeq
    <3>3. s[i] # 0 BY <3>2, BookAssumption
    <3> QED BY <3>1, <3>3, <2>1 DEF Holds, Book!Behind, Book!nullptr
  <2>2. CASE i \notin 1..Len(s)
    <3>1. i + 1 \notin 1..Len(s) BY <2>2, <1>1, <1>3
    <3> QED BY <3>1, <2>2 DEF NodeAt, Book!Behind, Book!nullptr
  <2> QED BY <2>1, <2>2
<1>4. w = F(w)
  <2>1. ASSUME NEW i \in 0..N PROVE w[i] = F(w)[i]
    <3>1. CASE i = 0 BY <3>1, <1>1 DEF Holds
    <3>2. CASE i # 0
      <4>1. i \in Nat /\ i - 1 \in 0..N /\ (i - 1) + 1 = i BY <3>2, <1>1
      <4>2. w[i - 1] = NodeAt(s, i) BY <4>1
      <4>3. F(w)[i] = Book!Behind(b, w[i - 1]) BY <3>2
      <4> QED BY <4>1, <4>2, <4>3, <1>3, <3>2
    <3> QED BY <3>1, <3>2
  <2>2. w = [i \in 0..N |-> w[i]] /\ F(w) = [i \in 0..N |-> F(w)[i]] OBVIOUS
  <2> HIDE DEF w, F
  <2> QED BY <2>1, <2>2
<1>5. walk = F(walk)
  <2> HIDE DEF w, F
  <2> QED BY <1>4
<1> HIDE DEF walk
<1>6. \A i \in 0..N : walk[i] = w[i]
  <2> DEFINE Bad == {i \in 0..N : walk[i] # w[i]}
  <2>1. SUFFICES ASSUME Bad # {} PROVE FALSE
    OBVIOUS
  <2>2. Bad \in SUBSET Nat BY <1>1
  <2> HIDE DEF Bad
  <2>3. PICK i \in Bad : \A j \in Bad : i <= j BY <2>1, <2>2, LeastNat
  <2>4. i \in 0..N /\ walk[i] # w[i] BY <2>3 DEF Bad
  <2>5. walk[i] = F(walk)[i] /\ w[i] = F(w)[i] BY <1>4, <1>5
  <2>6. CASE i = 0 BY <2>4, <2>5, <2>6
  <2>7. CASE i # 0
    <3>1. i - 1 \in 0..N /\ ~(i <= i - 1) BY <2>4, <2>7, <1>1
    <3>2. i - 1 \notin Bad BY <2>3, <3>1
    <3>3. walk[i - 1] = w[i - 1] BY <3>1, <3>2 DEF Bad
    <3> HIDE DEF w
    <3> QED BY <3>3, <2>4, <2>5, <2>7
  <2> QED BY <2>6, <2>7
<1>7. {i \in 0..N : walk[i] # Book!nullptr} = 0..(Len(s) - 1)
  <2>1. ASSUME NEW i \in 0..N PROVE walk[i] # Book!nullptr <=> i \in 0..(Len(s) - 1)
    <3>1. walk[i] = NodeAt(s, i + 1) BY <1>6
    <3>2. i + 1 \in 1..Len(s) <=> i \in 0..(Len(s) - 1) BY <1>1
    <3>3. i + 1 \in 1..Len(s) => s[i + 1] # 0 BY <1>2, ElementOfSeq, BookAssumption
    <3> QED BY <3>1, <3>2, <3>3 DEF NodeAt, Book!nullptr
  <2>2. 0..(Len(s) - 1) \subseteq 0..N BY <1>1
  <2> QED BY <2>1, <2>2
<1>8. len = Len(s)
  <2> DEFINE k == Len(s) - 1
  <2>1. k \in Int /\ k >= 0 - 1 /\ k + 1 = Len(s) BY <1>1
  <2> HIDE DEF k
  <2>2. Cardinality(0..k) = IF 0 > k THEN 0 ELSE k - 0 + 1 BY <2>1, FS_Interval
  <2>3. Cardinality(0..k) = Len(s) BY <2>1, <2>2
  <2> QED BY <1>7, <2>3, BookCardinality DEF k
<1>9. Book!List(b) = [i \in 1..len |-> walk[i - 1]]
  BY Zenon DEF Book!List, walk
<1>10. ASSUME NEW i \in 1..Len(s) PROVE walk[i - 1] = s[i]
  <2>1. i - 1 \in 0..N /\ (i - 1) + 1 = i BY <1>1
  <2> QED BY <2>1, <1>6 DEF NodeAt
<1>11. s = [i \in 1..Len(s) |-> s[i]] BY <1>2
<1> HIDE DEF len
<1> QED BY <1>8, <1>9, <1>10, <1>11

LEMMA ConsIs ==
  ASSUME NEW S, NEW x \in S, NEW s \in Seq(S)
  PROVE  /\ <<x>> \o s \in Seq(S) /\ Len(<<x>> \o s) = Len(s) + 1 /\ Len(s) \in Nat
         /\ (<<x>> \o s)[1] = x
         /\ \A i \in 1..(Len(s) + 1) : i # 1 => (<<x>> \o s)[i] = s[i - 1]
OBVIOUS

LEMMA BookExcept ==
  ASSUME NEW b \in Books, NEW data \in Node \cup {0}, NEW count \in Nat, NEW heap \in SUBSET Node,
         NEW next \in [Node -> Node \cup {0}], NEW prev \in [Node -> Node \cup {0}],
         NEW person \in [Node -> Person \cup {Book!Nobody}]
  PROVE  [b EXCEPT !.data = data, !.count = count, !.heap = heap, !.next = next,
                   !.prev = prev, !.person = person] \in Books
BY DEF Books

\* Node::insert puts a free node before the first.
LEMMA InsertedIs ==
  ASSUME NEW b, NEW s, NEW e, Holds(b, s, e), NEW p \in Person, Book!Unallocated(b) # {}
  PROVE  LET item == Book!Min(Book!Unallocated(b)) IN
         Holds(Book!Inserted(b, p), <<item>> \o s, <<p>> \o e)
<1> DEFINE item == Book!Min(Book!Unallocated(b))
           c == Book!Inserted(b, p)
           t == <<item>> \o s
           d == <<p>> \o e
<1>1. item \in Book!Unallocated(b)
  <2>1. Book!Unallocated(b) \in SUBSET Nat BY BookAssumption DEF Book!Unallocated
  <2>2. \E x \in Book!Unallocated(b) : \A y \in Book!Unallocated(b) : x <= y
    BY <2>1, LeastNat
  <2> QED BY <2>2 DEF Book!Min
<1> HIDE DEF item
<1>2. item \in Node /\ item \notin b.heap /\ item # 0
  BY <1>1, BookAssumption DEF Book!Unallocated
<1>3. s \in Seq(Node) /\ e \in Seq(Person) /\ b \in Books /\ Len(s) = Len(e) BY DEF Holds
<1>4. /\ t \in Seq(Node) /\ Len(t) = Len(s) + 1 /\ t[1] = item /\ Len(s) \in Nat
      /\ \A i \in 1..(Len(s) + 1) : i # 1 => t[i] = s[i - 1]
  BY <1>2, <1>3, ConsIs
<1>5. /\ d \in Seq(Person) /\ Len(d) = Len(s) + 1 /\ d[1] = p
      /\ \A i \in 1..(Len(s) + 1) : i # 1 => d[i] = e[i - 1]
  BY <1>3, ConsIs
<1>6. /\ c.data = item /\ c.count = b.count + 1 /\ c.heap = b.heap \cup {item}
      /\ c.next = [b.next EXCEPT ![item] = b.data]
      /\ c.prev = [n \in Node |-> IF n = item THEN 0 ELSE IF n = b.data THEN item ELSE b.prev[n]]
      /\ c.person = [b.person EXCEPT ![item] = p]
  BY <1>3 DEF Books, Book!Inserted, item, Book!nullptr
<1>7. c \in Books
  <2>2. /\ b.data \in Node \cup {0} /\ b.count \in Nat /\ b.heap \in SUBSET Node
        /\ b.next \in [Node -> Node \cup {0}] /\ b.prev \in [Node -> Node \cup {0}]
        /\ b.person \in [Node -> Person \cup {Book!Nobody}]
    BY <1>3 DEF Books
  <2> DEFINE next == [b.next EXCEPT ![item] = b.data]
             prev == [n \in Node |-> IF n = item THEN 0 ELSE IF n = b.data THEN item ELSE b.prev[n]]
             person == [b.person EXCEPT ![item] = p]
  <2>3. c = [b EXCEPT !.data = item, !.count = b.count + 1, !.heap = b.heap \cup {item},
                      !.next = next, !.prev = prev, !.person = person]
    BY DEF Book!Inserted, item, Book!nullptr
  <2>4. /\ item \in Node \cup {0} /\ b.count + 1 \in Nat /\ b.heap \cup {item} \in SUBSET Node
        /\ next \in [Node -> Node \cup {0}] /\ prev \in [Node -> Node \cup {0}]
        /\ person \in [Node -> Person \cup {Book!Nobody}]
    BY <2>2, <1>2
  <2> HIDE DEF c, next, prev, person
  <2> QED BY <2>3, <2>4, <1>3, BookExcept
<1> HIDE DEF c, t, d
<1>8. \A i \in 1..Len(s) : s[i] \in Node /\ s[i] # item /\ s[i] # 0
  <2>1. \A i \in 1..Len(s) : s[i] \in b.heap /\ s[i] \in Node BY <1>3, ElementOfSeq DEF Holds
  <2> QED BY <2>1, <1>2, BookAssumption
<1>9. \A i, j \in 1..Len(t) : t[i] = t[j] => i = j
  <2>1. SUFFICES ASSUME NEW i \in 1..Len(t), NEW j \in 1..Len(t), t[i] = t[j] PROVE i = j
    OBVIOUS
  <2>2. CASE i = 1 /\ j # 1
    <3>1. j - 1 \in 1..Len(s) BY <1>4, <2>2
    <3> QED BY <3>1, <2>1, <2>2, <1>4, <1>8
  <2>3. CASE i # 1 /\ j = 1
    <3>1. i - 1 \in 1..Len(s) BY <1>4, <2>3
    <3> QED BY <3>1, <2>1, <2>3, <1>4, <1>8
  <2>4. CASE i # 1 /\ j # 1
    <3>1. i - 1 \in 1..Len(s) /\ j - 1 \in 1..Len(s) BY <1>4, <2>4
    <3>2. s[i - 1] = s[j - 1] BY <2>1, <2>4, <1>4
    <3>3. i - 1 = j - 1 BY <3>1, <3>2 DEF Holds
    <3> QED BY <3>3, <1>4
  <2> QED BY <2>2, <2>3, <2>4
<1>10. c.data = NodeAt(t, 1) /\ c.count = Len(t)
  BY <1>4, <1>6 DEF NodeAt, Holds
<1>11. c.heap = {t[i] : i \in 1..Len(t)}
  <2>1. ASSUME NEW n \in c.heap PROVE n \in {t[i] : i \in 1..Len(t)}
    <3>1. CASE n = item BY <3>1, <1>4
    <3>2. CASE n \in b.heap
      <4>1. PICK i \in 1..Len(s) : n = s[i] BY <3>2 DEF Holds
      <4>2. i + 1 \in 1..Len(t) /\ i + 1 # 1 /\ (i + 1) - 1 = i BY <1>4
      <4>3. t[i + 1] = n BY <4>1, <4>2, <1>4
      <4> QED BY <4>2, <4>3
    <3> QED BY <3>1, <3>2, <1>6
  <2>2. ASSUME NEW i \in 1..Len(t) PROVE t[i] \in c.heap
    <3>1. CASE i = 1 BY <3>1, <1>4, <1>6
    <3>2. CASE i # 1
      <4>1. i - 1 \in 1..Len(s) BY <3>2, <1>4
      <4> QED BY <4>1, <3>2, <1>4, <1>6 DEF Holds
    <3> QED BY <3>1, <3>2
  <2> QED BY <2>1, <2>2
<1>12. ASSUME NEW i \in 1..Len(t)
       PROVE  c.next[t[i]] = NodeAt(t, i + 1) /\ c.prev[t[i]] = NodeAt(t, i - 1)
              /\ c.person[t[i]] = d[i]
  <2>1. /\ b.next \in [Node -> Node \cup {0}] /\ b.prev \in [Node -> Node \cup {0}]
        /\ b.person \in [Node -> Person \cup {Book!Nobody}]
    BY <1>3 DEF Books
  <2>2. CASE i = 1
    <3>1. c.next[item] = b.data /\ c.prev[item] = 0 /\ c.person[item] = p BY <1>2, <1>6, <2>1
    <3>2. NodeAt(t, 0) = 0 BY DEF NodeAt
    <3>3. NodeAt(t, 2) = NodeAt(s, 1) BY <1>4 DEF NodeAt
    <3> QED BY <3>1, <3>2, <3>3, <2>2, <1>4, <1>5 DEF Holds
  <2>3. CASE i # 1
    <3>1. i - 1 \in 1..Len(s) /\ t[i] = s[i - 1] /\ d[i] = e[i - 1] BY <2>3, <1>4, <1>5
    <3> DEFINE j == i - 1
    <3>2. j \in 1..Len(s) /\ i = j + 1 /\ t[i] = s[j] /\ d[i] = e[j] BY <3>1, <1>4
    <3> HIDE DEF j
    <3>3. s[j] \in Node /\ s[j] # item BY <3>2, <1>8
    <3>4. /\ c.next[s[j]] = b.next[s[j]] /\ c.person[s[j]] = b.person[s[j]]
          /\ c.prev[s[j]] = IF s[j] = b.data THEN item ELSE b.prev[s[j]]
      BY <3>3, <1>6, <2>1
    <3>5. b.next[s[j]] = NodeAt(s, j + 1) /\ b.prev[s[j]] = NodeAt(s, j - 1)
          /\ b.person[s[j]] = e[j]
      BY <3>2 DEF Holds
    <3>6. NodeAt(s, j + 1) = NodeAt(t, i + 1)
      <4>1. CASE j + 1 \in 1..Len(s)
        <5>1. i + 1 \in 1..(Len(s) + 1) /\ i + 1 # 1 /\ (i + 1) - 1 = j + 1 BY <4>1, <3>2, <1>4
        <5>2. t[i + 1] = s[j + 1] BY <5>1, <1>4
        <5> QED BY <4>1, <5>1, <5>2, <1>4 DEF NodeAt
      <4>2. CASE j + 1 \notin 1..Len(s)
        <5>1. i + 1 \notin 1..Len(t) BY <4>2, <3>2, <1>4
        <5> QED BY <4>2, <5>1 DEF NodeAt
      <4> QED BY <4>1, <4>2
    <3>7. b.data = s[1] BY <3>2, <1>4 DEF NodeAt, Holds
    <3>8. c.prev[s[j]] = NodeAt(t, j)
      <4>1. CASE j = 1 BY <4>1, <3>4, <3>7, <1>4 DEF NodeAt
      <4>2. CASE j # 1
        <5>1. s[j] # s[1] BY <4>2, <3>2, <1>4 DEF Holds
        <5>2. NodeAt(s, j - 1) = NodeAt(t, j) BY <4>2, <3>2, <1>4 DEF NodeAt
        <5> QED BY <5>1, <5>2, <3>4, <3>5, <3>7
      <4> QED BY <4>1, <4>2
    <3>9. i - 1 = j BY <3>2
    <3> QED BY <3>2, <3>4, <3>5, <3>6, <3>8, <3>9
  <2> QED BY <2>2, <2>3
<1>13. Holds(c, t, d)
  BY <1>4, <1>5, <1>7, <1>9, <1>10, <1>11, <1>12 DEF Holds
<1> QED BY <1>13 DEF c, t, d, item

LEMMA RemoveAtIs ==
  ASSUME NEW S, NEW s \in Seq(S), NEW k \in 1..Len(s)
  PROVE  /\ Book!RemoveAt(s, k) \in Seq(S) /\ Len(Book!RemoveAt(s, k)) = Len(s) - 1
         /\ Len(s) \in Nat
         /\ \A i \in 1..(Len(s) - 1) :
              Book!RemoveAt(s, k)[i] = IF i < k THEN s[i] ELSE s[i + 1]
<1> DEFINE a == SubSeq(s, 1, k - 1)
           z == SubSeq(s, k + 1, Len(s))
<1>1. Len(s) \in Nat /\ k \in Nat /\ 1 <= k /\ k <= Len(s) OBVIOUS
<1>2. a \in Seq(S) /\ Len(a) = k - 1 /\ \A i \in 1..(k - 1) : a[i] = s[i]
  BY <1>1
<1>3. z \in Seq(S) /\ Len(z) = Len(s) - k /\ \A i \in 1..(Len(s) - k) : z[i] = s[k + i]
  BY <1>1
<1>4. Book!RemoveAt(s, k) = a \o z BY DEF Book!RemoveAt
<1> HIDE DEF a, z
<1>5. /\ a \o z \in Seq(S) /\ Len(a \o z) = Len(s) - 1
      /\ \A i \in 1..(Len(s) - 1) : (a \o z)[i] = IF i <= k - 1 THEN a[i] ELSE z[i - (k - 1)]
  BY <1>1, <1>2, <1>3
<1>6. ASSUME NEW i \in 1..(Len(s) - 1) PROVE (a \o z)[i] = IF i < k THEN s[i] ELSE s[i + 1]
  <2>1. CASE i < k BY <2>1, <1>1, <1>2, <1>5
  <2>2. CASE ~(i < k)
    <3>1. i - (k - 1) \in 1..(Len(s) - k) /\ k + (i - (k - 1)) = i + 1 BY <2>2, <1>1
    <3>2. z[i - (k - 1)] = s[i + 1] BY <3>1, <1>3
    <3> QED BY <3>2, <2>2, <1>1, <1>5
  <2> QED BY <2>1, <2>2
<1> QED BY <1>1, <1>4, <1>5, <1>6

\* Node::remove links the neighbours of the node to each other.
LEMMA RemovedIs ==
  ASSUME NEW b, NEW s, NEW e, Holds(b, s, e), NEW k \in 1..Len(s)
  PROVE  Holds(Book!Removed(b, s[k]), Book!RemoveAt(s, k), Book!RemoveAt(e, k))
<1> DEFINE item == s[k]
           c == Book!Removed(b, item)
           t == Book!RemoveAt(s, k)
           d == Book!RemoveAt(e, k)
           At(i) == IF i < k THEN i ELSE i + 1
<1>1. s \in Seq(Node) /\ e \in Seq(Person) /\ b \in Books /\ Len(s) = Len(e)
      /\ Len(s) \in Nat /\ k \in Nat /\ 1 <= k /\ k <= Len(s)
  BY DEF Holds
<1>2. /\ t \in Seq(Node) /\ Len(t) = Len(s) - 1
      /\ \A i \in 1..(Len(s) - 1) : t[i] = IF i < k THEN s[i] ELSE s[i + 1]
  BY <1>1, RemoveAtIs
<1>3. /\ d \in Seq(Person) /\ Len(d) = Len(s) - 1
      /\ \A i \in 1..(Len(s) - 1) : d[i] = IF i < k THEN e[i] ELSE e[i + 1]
  BY <1>1, RemoveAtIs
<1>4. /\ b.data \in Node \cup {0} /\ b.count \in Nat /\ b.heap \in SUBSET Node
      /\ b.next \in [Node -> Node \cup {0}] /\ b.prev \in [Node -> Node \cup {0}]
      /\ b.person \in [Node -> Person \cup {Book!Nobody}]
  BY <1>1 DEF Books
<1>5. item \in Node /\ b.next[item] = NodeAt(s, k + 1) /\ b.prev[item] = NodeAt(s, k - 1)
  BY <1>1, ElementOfSeq DEF Holds
<1>6. \A i \in 1..Len(s) : s[i] \in Node /\ s[i] # 0
  BY <1>1, ElementOfSeq, BookAssumption
<1>7. /\ c.data = IF item = b.data THEN b.next[item] ELSE b.data
      /\ c.count = b.count - 1 /\ c.heap = b.heap \ {item}
      /\ c.next = [n \in Node |-> IF n = item THEN 0
                                  ELSE IF n = b.prev[item] THEN b.next[item] ELSE b.next[n]]
      /\ c.prev = [n \in Node |-> IF n = item THEN 0
                                  ELSE IF n = b.next[item] THEN b.prev[item] ELSE b.prev[n]]
      /\ c.person = [b.person EXCEPT ![item] = Book!Nobody]
  BY <1>1 DEF Books, Book!Removed, Book!nullptr
<1>9. c \in Books
  <2> DEFINE data == IF item = b.data THEN b.next[item] ELSE b.data
             next == [n \in Node |-> IF n = item THEN 0
                                     ELSE IF n = b.prev[item] THEN b.next[item] ELSE b.next[n]]
             prev == [n \in Node |-> IF n = item THEN 0
                                     ELSE IF n = b.next[item] THEN b.prev[item] ELSE b.prev[n]]
             person == [b.person EXCEPT ![item] = Book!Nobody]
  <2>1. c = [b EXCEPT !.data = data, !.count = b.count - 1, !.heap = b.heap \ {item},
                      !.next = next, !.prev = prev, !.person = person]
    BY DEF Book!Removed, Book!nullptr
  <2>2. b.count - 1 \in Nat BY <1>1, <1>4 DEF Holds
  <2> HIDE DEF c, item
  <2>3. /\ data \in Node \cup {0} /\ b.heap \ {item} \in SUBSET Node
        /\ next \in [Node -> Node \cup {0}] /\ prev \in [Node -> Node \cup {0}]
        /\ person \in [Node -> Person \cup {Book!Nobody}]
    BY <1>4, <1>5
  <2> HIDE DEF data, next, prev, person
  <2> QED BY <2>1, <2>2, <2>3, <1>1, BookExcept
<1> HIDE DEF c, t, d, item
<1>10. ASSUME NEW i \in 1..Len(t)
       PROVE  At(i) \in 1..Len(s) /\ At(i) # k /\ t[i] = s[At(i)] /\ d[i] = e[At(i)]
  BY <1>1, <1>2, <1>3
<1>11. \A i, j \in 1..Len(s) : s[i] = s[j] => i = j BY DEF Holds
<1>12. \A i, j \in 1..Len(t) : t[i] = t[j] => i = j
  <2>1. SUFFICES ASSUME NEW i \in 1..Len(t), NEW j \in 1..Len(t), t[i] = t[j] PROVE i = j
    OBVIOUS
  <2>2. At(i) = At(j) BY <2>1, <1>10, <1>11
  <2> QED BY <2>2, <1>1
<1>13. c.data = NodeAt(t, 1)
  <2>1. b.data = s[1] BY <1>1 DEF Holds, NodeAt
  <2>2. CASE k = 1
    <3>1. c.data = NodeAt(s, 2) BY <2>1, <2>2, <1>5, <1>7 DEF item
    <3> QED BY <3>1, <2>2, <1>1, <1>2 DEF NodeAt
  <2>3. CASE k # 1
    <3>1. item # b.data BY <2>1, <2>3, <1>1, <1>11 DEF item
    <3>2. c.data = s[1] BY <2>1, <3>1, <1>7
    <3>3. 1 \in 1..Len(t) /\ t[1] = s[1] BY <2>3, <1>1, <1>2
    <3> QED BY <3>2, <3>3 DEF NodeAt
  <2> QED BY <2>2, <2>3
<1>14. c.count = Len(t) BY <1>2, <1>7 DEF Holds
<1>15. c.heap = {t[i] : i \in 1..Len(t)}
  <2>1. ASSUME NEW n \in c.heap PROVE n \in {t[i] : i \in 1..Len(t)}
    <3>1. n \in b.heap /\ n # item BY <1>7
    <3>2. PICK j \in 1..Len(s) : n = s[j] BY <3>1 DEF Holds
    <3>3. j # k BY <3>1, <3>2 DEF item
    <3> DEFINE i == IF j < k THEN j ELSE j - 1
    <3>4. i \in 1..Len(t) /\ At(i) = j BY <3>3, <1>1, <1>2
    <3> QED BY <3>2, <3>4, <1>10
  <2>2. ASSUME NEW i \in 1..Len(t) PROVE t[i] \in c.heap
    <3>1. t[i] \in b.heap
      <4>1. PICK j \in 1..Len(s) : t[i] = s[j] BY <1>10
      <4> QED BY <4>1 DEF Holds
    <3>2. t[i] # item BY <1>10, <1>11 DEF item
    <3> QED BY <3>1, <3>2, <1>7
  <2> QED BY <2>1, <2>2
<1>16. ASSUME NEW i \in 1..Len(t)
       PROVE  c.next[t[i]] = NodeAt(t, i + 1) /\ c.prev[t[i]] = NodeAt(t, i - 1)
              /\ c.person[t[i]] = d[i]
  <2> DEFINE j == At(i)
  <2>1. j \in 1..Len(s) /\ j # k /\ t[i] = s[j] /\ d[i] = e[j] BY <1>10
  <2>2. s[j] \in Node /\ s[j] # item /\ s[j] # 0 BY <2>1, <1>6, <1>11 DEF item
  <2>3. b.next[s[j]] = NodeAt(s, j + 1) /\ b.prev[s[j]] = NodeAt(s, j - 1)
        /\ b.person[s[j]] = e[j]
    BY <2>1 DEF Holds
  <2>4. c.person[s[j]] = e[j] BY <2>2, <2>3, <1>4, <1>7
  <2>5. s[j] = NodeAt(s, k - 1) <=> j = k - 1 BY <2>1, <2>2, <1>1, <1>11 DEF NodeAt
  <2>6. s[j] = NodeAt(s, k + 1) <=> j = k + 1 BY <2>1, <2>2, <1>1, <1>11 DEF NodeAt
  <2>7. c.next[s[j]] = IF j = k - 1 THEN NodeAt(s, k + 1) ELSE NodeAt(s, j + 1)
    BY <2>2, <2>3, <2>5, <1>5, <1>7
  <2>8. c.prev[s[j]] = IF j = k + 1 THEN NodeAt(s, k - 1) ELSE NodeAt(s, j - 1)
    BY <2>2, <2>3, <2>6, <1>5, <1>7
  <2>9. NodeAt(t, i + 1) = IF j = k - 1 THEN NodeAt(s, k + 1) ELSE NodeAt(s, j + 1)
    BY <1>1, <1>2 DEF NodeAt
  <2>10. NodeAt(t, i - 1) = IF j = k + 1 THEN NodeAt(s, k - 1) ELSE NodeAt(s, j - 1)
    BY <1>1, <1>2 DEF NodeAt
  <2> HIDE DEF j
  <2> QED BY <2>1, <2>4, <2>7, <2>8, <2>9, <2>10
<1>17. Holds(c, t, d)
  BY <1>2, <1>3, <1>9, <1>12, <1>13, <1>14, <1>15, <1>16 DEF Holds
<1> QED BY <1>17 DEF c, t, d, item

\* What the book is after each of the first R insertions of a block ...
Inserting(b, block, R) ==
  CHOOSE f : f[0] = b /\ \A i \in 1..R : f[i] = Book!Inserted(f[i - 1], block[i])

LEMMA InsertingIs ==
  ASSUME NEW b, NEW block, NEW R \in Nat
  PROVE  /\ Inserting(b, block, R)[0] = b
         /\ \A i \in 1..R : Inserting(b, block, R)[i] = Book!Inserted(Inserting(b, block, R)[i - 1], block[i])
<1> DEFINE Is(f, n) == f = [i \in 0..n |-> IF i = 0 THEN b ELSE Book!Inserted(f[i - 1], block[i])]
           Bad == {n \in Nat : ~\E f : Is(f, n)}
<1>0. SUFFICES \E f : Is(f, R)
  <2>1. ASSUME NEW f, Is(f, R)
        PROVE  /\ f[0] = b
               /\ \A i \in 1..R : f[i] = Book!Inserted(f[i - 1], block[i])
    <3>2. \A i \in 0..R : f[i] = IF i = 0 THEN b ELSE Book!Inserted(f[i - 1], block[i]) BY <2>1
    <3>3. 0 \in 0..R /\ \A i \in 1..R : i \in 0..R /\ i # 0 OBVIOUS
    <3> QED BY <3>2, <3>3
  <2> DEFINE P(f) == f[0] = b /\ \A i \in 1..R : f[i] = Book!Inserted(f[i - 1], block[i])
  <2>2. SUFFICES P(Inserting(b, block, R)) OBVIOUS
  <2>3. (\E f : Is(f, R)) => \E f : P(f) BY <2>1
  <2>4. Inserting(b, block, R) = CHOOSE f : P(f) BY DEF Inserting
  <2> HIDE DEF P, Is
  <2> QED BY <2>3, <2>4
<1>1. SUFFICES ASSUME Bad # {} PROVE FALSE
  OBVIOUS
<1>2. Bad \in SUBSET Nat OBVIOUS
<1> HIDE DEF Bad
<1>3. PICK n \in Bad : \A m \in Bad : n <= m BY <1>1, <1>2, LeastNat
<1>4. n \in Nat /\ ~\E f : Is(f, n) BY <1>3 DEF Bad
<1>5. CASE n = 0
  <2> DEFINE f == [i \in 0..n |-> b]
  <2>1. \A i \in 0..n : i = 0 BY <1>5
  <2>2. Is(f, n) BY <2>1
  <2> QED BY <2>2, <1>4
<1>6. CASE n # 0
  <2>1. n - 1 \in Nat /\ ~(n <= n - 1) BY <1>4, <1>6
  <2>2. n - 1 \notin Bad BY <1>3, <2>1
  <2>3. PICK g : Is(g, n - 1) BY <2>1, <2>2 DEF Bad
  <2> DEFINE f == [i \in 0..n |-> IF i = n THEN Book!Inserted(g[n - 1], block[n]) ELSE g[i]]
             h == [i \in 0..n |-> IF i = 0 THEN b ELSE Book!Inserted(f[i - 1], block[i])]
  <2>4. ASSUME NEW i \in 0..n PROVE f[i] = h[i]
    <3>1. CASE i = n
      <4>1. n - 1 \in 0..n /\ n - 1 # n BY <2>1, <1>4
      <4>2. f[n - 1] = g[n - 1] BY <4>1
      <4> QED BY <3>1, <4>2, <1>6, <1>4
    <3>2. CASE i # n
      <4>1. i \in 0..(n - 1) BY <3>2, <1>4
      <4>2. g[i] = IF i = 0 THEN b ELSE Book!Inserted(g[i - 1], block[i])
        BY <4>1, <2>3
      <4>3. f[i] = g[i] BY <3>2
      <4>4. CASE i = 0 BY <4>2, <4>3, <4>4
      <4>5. CASE i # 0
        <5>1. i - 1 \in 0..n /\ i - 1 # n BY <4>1, <4>5, <1>4
        <5>2. f[i - 1] = g[i - 1] BY <5>1
        <5> QED BY <4>2, <4>3, <4>5, <5>2
      <4> QED BY <4>4, <4>5
    <3> QED BY <3>1, <3>2
  <2>5. f = h
    <3>1. f = [i \in 0..n |-> f[i]] /\ h = [i \in 0..n |-> h[i]] OBVIOUS
    <3> HIDE DEF f, h
    <3> QED BY <3>1, <2>4
  <2>6. Is(f, n) BY <2>5
  <2> QED BY <2>6, <1>4
<1> QED BY <1>5, <1>6

\* ... and after each of the first R blocks of a file.
Loading(b, blocks, R) ==
  CHOOSE f : f[0] = b /\ \A i \in 1..R : f[i] = Book!BlockInserted(f[i - 1], blocks[i])

LEMMA LoadingIs ==
  ASSUME NEW b, NEW blocks, NEW R \in Nat
  PROVE  /\ Loading(b, blocks, R)[0] = b
         /\ \A i \in 1..R : Loading(b, blocks, R)[i] = Book!BlockInserted(Loading(b, blocks, R)[i - 1], blocks[i])
<1> DEFINE Is(f, n) == f = [i \in 0..n |-> IF i = 0 THEN b ELSE Book!BlockInserted(f[i - 1], blocks[i])]
           Bad == {n \in Nat : ~\E f : Is(f, n)}
<1>0. SUFFICES \E f : Is(f, R)
  <2>1. ASSUME NEW f, Is(f, R)
        PROVE  /\ f[0] = b
               /\ \A i \in 1..R : f[i] = Book!BlockInserted(f[i - 1], blocks[i])
    <3>2. \A i \in 0..R : f[i] = IF i = 0 THEN b ELSE Book!BlockInserted(f[i - 1], blocks[i]) BY <2>1
    <3>3. 0 \in 0..R /\ \A i \in 1..R : i \in 0..R /\ i # 0 OBVIOUS
    <3> QED BY <3>2, <3>3
  <2> DEFINE P(f) == f[0] = b /\ \A i \in 1..R : f[i] = Book!BlockInserted(f[i - 1], blocks[i])
  <2>2. SUFFICES P(Loading(b, blocks, R)) OBVIOUS
  <2>3. (\E f : Is(f, R)) => \E f : P(f) BY <2>1
  <2>4. Loading(b, blocks, R) = CHOOSE f : P(f) BY DEF Loading
  <2> HIDE DEF P, Is
  <2> QED BY <2>3, <2>4
<1>1. SUFFICES ASSUME Bad # {} PROVE FALSE
  OBVIOUS
<1>2. Bad \in SUBSET Nat OBVIOUS
<1> HIDE DEF Bad
<1>3. PICK n \in Bad : \A m \in Bad : n <= m BY <1>1, <1>2, LeastNat
<1>4. n \in Nat /\ ~\E f : Is(f, n) BY <1>3 DEF Bad
<1>5. CASE n = 0
  <2> DEFINE f == [i \in 0..n |-> b]
  <2>1. \A i \in 0..n : i = 0 BY <1>5
  <2>2. Is(f, n) BY <2>1
  <2> QED BY <2>2, <1>4
<1>6. CASE n # 0
  <2>1. n - 1 \in Nat /\ ~(n <= n - 1) BY <1>4, <1>6
  <2>2. n - 1 \notin Bad BY <1>3, <2>1
  <2>3. PICK g : Is(g, n - 1) BY <2>1, <2>2 DEF Bad
  <2> DEFINE f == [i \in 0..n |-> IF i = n THEN Book!BlockInserted(g[n - 1], blocks[n]) ELSE g[i]]
             h == [i \in 0..n |-> IF i = 0 THEN b ELSE Book!BlockInserted(f[i - 1], blocks[i])]
  <2>4. ASSUME NEW i \in 0..n PROVE f[i] = h[i]
    <3>1. CASE i = n
      <4>1. n - 1 \in 0..n /\ n - 1 # n BY <2>1, <1>4
      <4>2. f[n - 1] = g[n - 1] BY <4>1
      <4> QED BY <3>1, <4>2, <1>6, <1>4
    <3>2. CASE i # n
      <4>1. i \in 0..(n - 1) BY <3>2, <1>4
      <4>2. g[i] = IF i = 0 THEN b ELSE Book!BlockInserted(g[i - 1], blocks[i])
        BY <4>1, <2>3
      <4>3. f[i] = g[i] BY <3>2
      <4>4. CASE i = 0 BY <4>2, <4>3, <4>4
      <4>5. CASE i # 0
        <5>1. i - 1 \in 0..n /\ i - 1 # n BY <4>1, <4>5, <1>4
        <5>2. f[i - 1] = g[i - 1] BY <5>1
        <5> QED BY <4>2, <4>3, <4>5, <5>2
      <4> QED BY <4>4, <4>5
    <3> QED BY <3>1, <3>2
  <2>5. f = h
    <3>1. f = [i \in 0..n |-> f[i]] /\ h = [i \in 0..n |-> h[i]] OBVIOUS
    <3> HIDE DEF f, h
    <3> QED BY <3>1, <2>4
  <2>6. Is(f, n) BY <2>5
  <2> QED BY <2>6, <1>4
<1> QED BY <1>5, <1>6

\* The first n persons of a file, the last of them first, before the entries e.
Loaded(data, n, e) ==
  [j \in 1..(n + Len(e)) |-> IF j <= n THEN data[(n - j) + 1] ELSE e[j - n]]

LEMMA LoadedIs ==
  ASSUME NEW data \in Seq(Person), NEW e \in Seq(Person), NEW n \in 0..Len(data)
  PROVE  /\ Loaded(data, n, e) \in Seq(Person) /\ Len(Loaded(data, n, e)) = n + Len(e)
         /\ Loaded(data, 0, e) = e
         /\ Loaded(data, Len(data), e) = Book!Reverse(data) \o e
         /\ n < Len(data) =>
              Loaded(data, n + 1, e) = <<data[n + 1]>> \o Loaded(data, n, e)
<1>1. Len(data) \in Nat /\ Len(e) \in Nat /\ n \in Nat /\ n <= Len(data) OBVIOUS
<1>2. \A m \in 0..Len(data) :
        Loaded(data, m, e) \in Seq(Person) /\ Len(Loaded(data, m, e)) = m + Len(e)
  <2>1. SUFFICES ASSUME NEW m \in 0..Len(data)
                 PROVE  /\ Loaded(data, m, e) \in Seq(Person)
                        /\ Len(Loaded(data, m, e)) = m + Len(e)
    OBVIOUS
  <2>2. m + Len(e) \in Nat BY <1>1
  <2>3. ASSUME NEW j \in 1..(m + Len(e))
        PROVE  (IF j <= m THEN data[(m - j) + 1] ELSE e[j - m]) \in Person
    <3>1. CASE j <= m
      <4>1. (m - j) + 1 \in 1..Len(data) BY <3>1, <1>1
      <4>2. data[(m - j) + 1] \in Person BY <4>1, ElementOfSeq
      <4> QED BY <3>1, <4>2
    <3>2. CASE ~(j <= m)
      <4>1. j - m \in 1..Len(e) BY <3>2, <1>1
      <4>2. e[j - m] \in Person BY <4>1, ElementOfSeq
      <4> QED BY <3>2, <4>2
    <3> QED BY <3>1, <3>2
  <2> QED BY <2>2, <2>3, SMTT(30) DEF Loaded
<1>3. Loaded(data, 0, e) = e
  <2>1. \A j \in 1..Len(e) : ~(j <= 0) /\ j - 0 = j BY <1>1
  <2>2. 0 + Len(e) = Len(e) /\ e = [j \in 1..Len(e) |-> e[j]] BY <1>1
  <2> QED BY <2>1, <2>2 DEF Loaded
<1>4. Loaded(data, Len(data), e) = Book!Reverse(data) \o e
  <2> DEFINE r == Book!Reverse(data)
  <2>1. r \in Seq(Person) /\ Len(r) = Len(data)
        /\ \A j \in 1..Len(data) : r[j] = data[(Len(data) - j) + 1]
    <3>1. \A j \in 1..Len(data) : data[(Len(data) - j) + 1] \in Person
      <4>1. \A j \in 1..Len(data) : (Len(data) - j) + 1 \in 1..Len(data) BY <1>1
      <4> QED BY <4>1, ElementOfSeq
    <3> QED BY <3>1, <1>1 DEF Book!Reverse
  <2> HIDE DEF r
  <2>2. /\ Len(r \o e) = Len(data) + Len(e) /\ r \o e \in Seq(Person)
        /\ \A j \in 1..(Len(data) + Len(e)) :
             (r \o e)[j] = IF j <= Len(data) THEN r[j] ELSE e[j - Len(data)]
    BY <2>1, <1>1
  <2>3. r \o e = [j \in 1..(Len(data) + Len(e)) |-> (r \o e)[j]]
    <3> DEFINE x == r \o e
    <3>1. x \in Seq(Person) /\ Len(x) = Len(data) + Len(e) BY <2>2
    <3> HIDE DEF x
    <3>2. x = [j \in 1..(Len(data) + Len(e)) |-> x[j]] BY <3>1
    <3> QED BY <3>2 DEF x
  <2>4. ASSUME NEW j \in 1..(Len(data) + Len(e))
        PROVE  (r \o e)[j] = IF j <= Len(data) THEN data[(Len(data) - j) + 1] ELSE e[j - Len(data)]
    BY <2>1, <2>2, <1>1
  <2> QED BY <2>3, <2>4 DEF Loaded, r
<1>5. ASSUME n < Len(data)
      PROVE  Loaded(data, n + 1, e) = <<data[n + 1]>> \o Loaded(data, n, e)
  <2> DEFINE l == Loaded(data, n, e)
             r == <<data[n + 1]>> \o l
             m == Loaded(data, n + 1, e)
  <2>1. l \in Seq(Person) /\ Len(l) = n + Len(e)
        /\ \A j \in 1..(n + Len(e)) : l[j] = IF j <= n THEN data[(n - j) + 1] ELSE e[j - n]
    BY <1>2 DEF Loaded
  <2>2. n + 1 \in 0..Len(data) /\ n + 1 \in 1..Len(data) BY <1>1, <1>5
  <2>3. data[n + 1] \in Person BY <2>2, ElementOfSeq
  <2>4. m \in Seq(Person) /\ Len(m) = (n + 1) + Len(e)
        /\ \A j \in 1..((n + 1) + Len(e)) :
             m[j] = IF j <= n + 1 THEN data[((n + 1) - j) + 1] ELSE e[j - (n + 1)]
    BY <1>2, <2>2 DEF Loaded
  <2> HIDE DEF l, m
  <2>5. /\ r \in Seq(Person) /\ Len(r) = Len(l) + 1 /\ r[1] = data[n + 1]
        /\ \A j \in 1..(Len(l) + 1) : j # 1 => r[j] = l[j - 1]
    BY <2>1, <2>3, ConsIs
  <2> HIDE DEF r
  <2>6. ASSUME NEW j \in 1..Len(m) PROVE m[j] = r[j]
    <3>1. CASE j = 1 BY <3>1, <1>1, <2>1, <2>4, <2>5
    <3>2. CASE j # 1 /\ j <= n + 1
      <4>1. /\ j - 1 \in 1..(n + Len(e)) /\ j - 1 <= n /\ (n - (j - 1)) + 1 = ((n + 1) - j) + 1
            /\ j \in 1..(Len(l) + 1)
        BY <3>2, <1>1, <2>1, <2>4
      <4>2. r[j] = l[j - 1] BY <4>1, <3>2, <2>5
      <4>3. l[j - 1] = data[(n - (j - 1)) + 1] BY <4>1, <2>1
      <4>4. m[j] = data[((n + 1) - j) + 1] BY <3>2, <2>4
      <4> QED BY <4>1, <4>2, <4>3, <4>4
    <3>3. CASE ~(j <= n + 1)
      <4>1. /\ j - 1 \in 1..(n + Len(e)) /\ ~(j - 1 <= n) /\ j # 1
            /\ (j - 1) - n = j - (n + 1) /\ j \in 1..(Len(l) + 1)
        BY <3>3, <1>1, <2>1, <2>4
      <4>2. r[j] = l[j - 1] BY <4>1, <2>5
      <4>3. l[j - 1] = e[(j - 1) - n] BY <4>1, <2>1
      <4>4. m[j] = e[j - (n + 1)] BY <3>3, <2>4
      <4> QED BY <4>1, <4>2, <4>3, <4>4
    <3> QED BY <3>1, <3>2, <3>3
  <2>7. Len(m) = Len(r) BY <1>1, <2>1, <2>4, <2>5
  <2>8. m = r BY <2>4, <2>5, <2>6, <2>7, SeqEqual
  <2> QED BY <2>8 DEF l, m, r
<1> QED BY <1>1, <1>2, <1>3, <1>4, <1>5

\* A block of the file is inserted behind what was read before it.
LEMMA BlockIs ==
  ASSUME NEW data \in Seq(Person), NEW e \in Seq(Person), NEW n \in Nat, NEW block,
         Len(data) + Len(e) <= Cardinality(Node),
         Len(block) \in Nat, n + Len(block) <= Len(data),
         \A i \in 1..Len(block) : block[i] = data[n + i],
         NEW b, NEW s, Holds(b, s, Loaded(data, n, e))
  PROVE  \E t : Holds(Book!BlockInserted(b, block), t, Loaded(data, n + Len(block), e))
<1> DEFINE L == Len(block)
           F(g) == [i \in 0..L |-> IF i = 0 THEN b ELSE Book!Inserted(g[i - 1], block[i])]
           f == CHOOSE g : g = F(g)
           Good(i) == \E t : Holds(f[i], t, Loaded(data, n + i, e))
           Bad == {i \in 0..L : ~Good(i)}
<1>1. f = F(f)
  <2>1. L \in Nat OBVIOUS
  <2> HIDE DEF L
  <2> DEFINE g == Inserting(b, block, L)
  <2>2. g[0] = b /\ \A i \in 1..L : g[i] = Book!Inserted(g[i - 1], block[i])
    BY <2>1, InsertingIs
  <2> HIDE DEF g
  <2> DEFINE h == [i \in 0..L |-> g[i]]
  <2>3. ASSUME NEW i \in 0..L PROVE h[i] = F(h)[i]
    <3>1. CASE i = 0 BY <3>1, <2>2
    <3>2. CASE i # 0
      <4>1. i \in 1..L /\ i - 1 \in 0..L BY <3>2, <2>1
      <4> QED BY <4>1, <3>2, <2>2
    <3> QED BY <3>1, <3>2
  <2>4. h = F(h)
    <3>1. F(h) = [i \in 0..L |-> F(h)[i]] /\ h = [i \in 0..L |-> h[i]] OBVIOUS
    <3> HIDE DEF F, h
    <3> QED BY <3>1, <2>3
  <2> HIDE DEF F
  <2> QED BY <2>4
<1>2. Book!BlockInserted(b, block) = f[L] BY Zenon DEF Book!BlockInserted, f
<1> HIDE DEF f
<1>3. L \in Nat /\ Len(data) \in Nat /\ Len(e) \in Nat OBVIOUS
<1>4. Bad = {}
  <2>1. SUFFICES ASSUME Bad # {} PROVE FALSE
    OBVIOUS
  <2>2. Bad \in SUBSET Nat BY <1>3
  <2> HIDE DEF Bad
  <2>3. PICK i \in Bad : \A j \in Bad : i <= j BY <2>1, <2>2, LeastNat
  <2>4. i \in 0..L /\ ~Good(i) BY <2>3 DEF Bad
  <2>5. CASE i = 0
    <3>1. f[0] = b /\ n + 0 = n BY <1>1, <1>3
    <3> QED BY <3>1, <2>4, <2>5
  <2>6. CASE i # 0
    <3>1. i - 1 \in 0..L /\ ~(i <= i - 1) /\ i \in 1..L BY <2>4, <2>6, <1>3
    <3>2. i - 1 \notin Bad BY <2>3, <3>1
    <3>3. Good(i - 1) BY <3>1, <3>2 DEF Bad
    <3> DEFINE m == n + (i - 1)
    <3>4. PICK t : Holds(f[i - 1], t, Loaded(data, m, e)) BY <3>3
    <3>5. /\ m \in 0..Len(data) /\ m < Len(data) /\ m + 1 = n + i /\ m \in Nat
          /\ n + i \in 1..Len(data)
      BY <3>1, <1>3
    <3> HIDE DEF m
    <3>6. block[i] = data[m + 1] /\ data[m + 1] \in Person
      BY <3>1, <3>5, ElementOfSeq
    <3>7. Len(Loaded(data, m, e)) = m + Len(e) BY <3>5, LoadedIs
    <3>8. Len(t) = m + Len(e) BY <3>4, <3>7 DEF Holds
    <3>9. Book!Unallocated(f[i - 1]) # {}
      <4>1. Cardinality(Book!Unallocated(f[i - 1])) = Cardinality(Node) - Len(t)
            /\ Cardinality(Node) \in Nat
        BY <3>4, HoldsCount
      <4>2. Cardinality(Book!Unallocated(f[i - 1])) # 0 BY <4>1, <3>5, <3>8, <1>3
      <4> QED BY <4>2, FS_EmptySet
    <3>10. f[i] = Book!Inserted(f[i - 1], block[i]) BY <1>1, <2>4, <2>6
    <3>11. \E u : Holds(f[i], u, <<data[m + 1]>> \o Loaded(data, m, e))
      BY <3>4, <3>6, <3>9, <3>10, InsertedIs, ZenonT(30)
    <3>12. Loaded(data, m + 1, e) = <<data[m + 1]>> \o Loaded(data, m, e)
      BY <3>5, LoadedIs
    <3> QED BY <3>5, <3>11, <3>12, <2>4
  <2> QED BY <2>5, <2>6
<1>5. L \in 0..L BY <1>3
<1> QED BY <1>2, <1>4, <1>5

LEMMA MinOfTwo ==
  ASSUME NEW x \in Nat, NEW y \in Nat
  PROVE  Book!Min({x, y}) = IF x <= y THEN x ELSE y
<1> DEFINE m == IF x <= y THEN x ELSE y
<1>1. m \in {x, y} /\ \A z \in {x, y} : m <= z OBVIOUS
<1>2. \A w \in {x, y} : (\A z \in {x, y} : w <= z) => w = m OBVIOUS
<1> HIDE DEF m
<1>3. Book!Min({x, y}) = m BY <1>1, <1>2 DEF Book!Min
<1> QED BY <1>3 DEF m

\* As many blocks as it takes.
LEMMA BlockCount ==
  ASSUME NEW L \in Nat, NEW F \in Nat \ {0}
  PROVE  LET n == (L + F - 1) \div F IN
         n \in Nat /\ L <= n * F /\ \A k \in 1..n : (k - 1) * F < L /\ (k - 1) * F \in Nat
<1> DEFINE n == (L + F - 1) \div F
<1>1. n \in Nat /\ n * F <= L + F - 1 /\ L + F - 1 < n * F + F OBVIOUS
<1> HIDE DEF n
<1>2. n * F \in Nat BY <1>1
<1>3. ASSUME NEW k \in 1..n PROVE (k - 1) * F < L /\ (k - 1) * F \in Nat
  <2>1. k - 1 \in Nat /\ n - k \in Nat BY <1>1
  <2>2. n * F = (k - 1) * F + F + (n - k) * F BY <1>1, <2>1
  <2>3. (n - k) * F \in Nat /\ (k - 1) * F \in Nat BY <2>1
  <2> QED BY <1>1, <1>2, <2>2, <2>3
<1>4. L <= n * F BY <1>1, <1>2
<1> QED BY <1>1, <1>3, <1>4 DEF n

\* Block k of the file begins behind k - 1 whole blocks.
LEMMA BlocksAre ==
  ASSUME NEW data \in Seq(Person)
  PROVE  LET blocks == Book!Blocks(data)
             End(k) == IF k * FileBlock <= Len(data) THEN k * FileBlock ELSE Len(data) IN
         /\ Len(blocks) \in Nat /\ End(0) = 0 /\ End(Len(blocks)) = Len(data)
         /\ \A k \in 1..Len(blocks) :
              /\ End(k - 1) \in Nat /\ Len(blocks[k]) \in Nat
              /\ End(k - 1) + Len(blocks[k]) = End(k) /\ End(k) <= Len(data)
              /\ \A i \in 1..Len(blocks[k]) : blocks[k][i] = data[End(k - 1) + i]
<1> DEFINE blocks == Book!Blocks(data)
           End(k) == IF k * FileBlock <= Len(data) THEN k * FileBlock ELSE Len(data)
           n == (Len(data) + FileBlock - 1) \div FileBlock
<1>1. Len(data) \in Nat /\ FileBlock \in Nat \ {0} BY BookAssumption
<1>2. n \in Nat /\ Len(data) <= n * FileBlock
      /\ \A k \in 1..n : (k - 1) * FileBlock < Len(data) /\ (k - 1) * FileBlock \in Nat
  BY <1>1, BlockCount
<1>3. blocks = [k \in 1..n |-> SubSeq(data, (k - 1) * FileBlock + 1,
                                      Book!Min({k * FileBlock, Len(data)}))]
  BY DEF Book!Blocks
<1> HIDE DEF n, blocks
<1>4. Len(blocks) = n BY <1>2, <1>3
<1>5. End(0) = 0 /\ End(n) = Len(data) BY <1>1, <1>2
<1>6. ASSUME NEW k \in 1..n
      PROVE  /\ End(k - 1) \in Nat /\ Len(blocks[k]) \in Nat
             /\ End(k - 1) + Len(blocks[k]) = End(k) /\ End(k) <= Len(data)
             /\ \A i \in 1..Len(blocks[k]) : blocks[k][i] = data[End(k - 1) + i]
  <2> DEFINE o == (k - 1) * FileBlock
  <2>1. o < Len(data) /\ o \in Nat BY <1>2
  <2>2. k * FileBlock = o + FileBlock BY <1>1, <1>2
  <2> HIDE DEF o
  <2>3. End(k - 1) = o BY <2>1 DEF o
  <2>4. k * FileBlock \in Nat /\ o + FileBlock \in Nat BY <1>1, <2>1, <2>2
  <2>5. Book!Min({k * FileBlock, Len(data)}) = End(k)
    BY <2>4, <1>1, MinOfTwo
  <2>6. End(k) \in Nat /\ End(k) <= Len(data) /\ o < End(k)
    BY <2>1, <2>2, <2>4, <1>1
  <2>7. blocks[k] = SubSeq(data, o + 1, End(k)) BY <1>3, <2>5 DEF o
  <2> DEFINE z == End(k)
             s == SubSeq(data, o + 1, z)
  <2>8. z \in Nat /\ z <= Len(data) /\ o < z BY <2>6
  <2> HIDE DEF z
  <2>9. Len(s) = z - o /\ \A i \in 1..(z - o) : s[i] = data[o + i]
    BY <2>1, <2>8, <1>1
  <2> HIDE DEF s
  <2>10. blocks[k] = s BY <2>7 DEF s, z
  <2>11. Len(s) \in Nat /\ o + Len(s) = z /\ \A i \in 1..Len(s) : s[i] = data[o + i]
    BY <2>1, <2>8, <2>9
  <2> QED BY <2>1, <2>3, <2>6, <2>10, <2>11 DEF z
<1> HIDE DEF End
<1>7. /\ Len(blocks) \in Nat /\ End(0) = 0 /\ End(Len(blocks)) = Len(data)
      /\ \A k \in 1..Len(blocks) :
              /\ End(k - 1) \in Nat /\ Len(blocks[k]) \in Nat
              /\ End(k - 1) + Len(blocks[k]) = End(k) /\ End(k) <= Len(data)
              /\ \A i \in 1..Len(blocks[k]) : blocks[k][i] = data[End(k - 1) + i]
  BY <1>2, <1>4, <1>5, <1>6
<1> QED BY <1>7 DEF blocks, End

BookInv == file.data \in Seq(Person) /\ \E s : Holds(book, s, entries)

LEMMA LoadKeeps == ASSUME BookInv, Book!load_entry PROVE BookInv'
<1> DEFINE data == file.data
           blocks == Book!Blocks(data)
           L == Len(blocks)
           End(k) == IF k * FileBlock <= Len(data) THEN k * FileBlock ELSE Len(data)
           F(g) == [k \in 0..L |-> IF k = 0 THEN book ELSE Book!BlockInserted(g[k - 1], blocks[k])]
           f == CHOOSE g : g = F(g)
           Good(k) == \E t : Holds(f[k], t, Loaded(data, End(k), entries))
           Bad == {k \in 0..L : ~Good(k)}
<1>1. data \in Seq(Person) BY DEF BookInv
<1>2. PICK s : Holds(book, s, entries) BY DEF BookInv
<1>3. entries \in Seq(Person) /\ Len(entries) = Len(s) BY <1>2 DEF Holds
<1>4. /\ L \in Nat /\ End(0) = 0 /\ End(L) = Len(data)
      /\ \A k \in 1..L :
           /\ End(k - 1) \in Nat /\ Len(blocks[k]) \in Nat
           /\ End(k - 1) + Len(blocks[k]) = End(k) /\ End(k) <= Len(data)
           /\ \A i \in 1..Len(blocks[k]) : blocks[k][i] = data[End(k - 1) + i]
  BY <1>1, BlocksAre
<1>5. Len(data) + Len(entries) <= Cardinality(Node)
  <2>1. Len(data) <= Cardinality(Book!Unallocated(book))
    BY BookCardinality DEF Book!load_entry
  <2>2. Cardinality(Book!Unallocated(book)) = Cardinality(Node) - Len(s)
        /\ Len(s) \in Nat /\ Cardinality(Node) \in Nat
    BY <1>2, HoldsCount
  <2>3. Len(data) \in Nat BY <1>1
  <2> QED BY <2>1, <2>2, <2>3, <1>3
<1>6. f = F(f)
  <2>1. L \in Nat BY <1>4
  <2> HIDE DEF L, blocks
  <2> DEFINE g == Loading(book, blocks, L)
  <2>2. g[0] = book /\ \A k \in 1..L : g[k] = Book!BlockInserted(g[k - 1], blocks[k])
    BY <2>1, LoadingIs
  <2> HIDE DEF g
  <2> DEFINE h == [i \in 0..L |-> g[i]]
  <2>3. ASSUME NEW i \in 0..L PROVE h[i] = F(h)[i]
    <3>1. CASE i = 0 BY <3>1, <2>2
    <3>2. CASE i # 0
      <4>1. i \in 1..L /\ i - 1 \in 0..L BY <3>2, <2>1
      <4> QED BY <4>1, <3>2, <2>2
    <3> QED BY <3>1, <3>2
  <2>4. h = F(h)
    <3>1. F(h) = [i \in 0..L |-> F(h)[i]] /\ h = [i \in 0..L |-> h[i]] OBVIOUS
    <3> HIDE DEF F, h
    <3> QED BY <3>1, <2>3
  <2> HIDE DEF F
  <2> QED BY <2>4
<1>7. book' = f[L] BY Zenon DEF Book!load_entry, f
<1>8. entries' = Book!Reverse(data) \o entries /\ file' = file BY DEF Book!load_entry
<1> HIDE DEF f, End, blocks, data
<1>9. Bad = {}
  <2>1. SUFFICES ASSUME Bad # {} PROVE FALSE
    OBVIOUS
  <2>2. Bad \in SUBSET Nat BY <1>4
  <2> HIDE DEF Bad
  <2>3. PICK k \in Bad : \A j \in Bad : k <= j BY <2>1, <2>2, LeastNat
  <2>4. k \in 0..L /\ ~Good(k) BY <2>3 DEF Bad
  <2>5. CASE k = 0
    <3>1. f[0] = book BY <1>4, <1>6
    <3>2. 0 \in 0..Len(data) BY <1>1
    <3>3. Loaded(data, 0, entries) = entries BY <1>1, <1>3, <3>2, LoadedIs
    <3>4. Good(0) BY <1>2, <1>4, <3>1, <3>3
    <3> QED BY <3>4, <2>4, <2>5
  <2>6. CASE k # 0
    <3>1. k - 1 \in 0..L /\ ~(k <= k - 1) /\ k \in 1..L BY <2>4, <2>6, <1>4
    <3>2. k - 1 \notin Bad BY <2>3, <3>1
    <3>3. Good(k - 1) BY <3>1, <3>2 DEF Bad
    <3>4. PICK t : Holds(f[k - 1], t, Loaded(data, End(k - 1), entries)) BY <3>3
    <3>5. f[k] = Book!BlockInserted(f[k - 1], blocks[k]) BY <1>6, <2>4, <2>6
    <3> DEFINE n == End(k - 1)
               block == blocks[k]
    <3>6. /\ n \in Nat /\ Len(block) \in Nat /\ n + Len(block) = End(k) /\ n + Len(block) <= Len(data)
          /\ \A i \in 1..Len(block) : block[i] = data[n + i]
          /\ Holds(f[k - 1], t, Loaded(data, n, entries))
      BY <1>4, <3>1, <3>4
    <3>7. f[k] = Book!BlockInserted(f[k - 1], block) BY <3>5
    <3> HIDE DEF n, block
    <3>8. \E u : Holds(Book!BlockInserted(f[k - 1], block), u, Loaded(data, n + Len(block), entries))
      BY <3>6, <1>1, <1>3, <1>5, BlockIs
    <3> QED BY <3>6, <3>7, <3>8, <2>4
  <2> QED BY <2>5, <2>6
<1>10. \E t : Holds(f[L], t, Loaded(data, Len(data), entries))
  <2>1. L \in 0..L BY <1>4
  <2> QED BY <2>1, <1>4, <1>9
<1>11. Loaded(data, Len(data), entries) = Book!Reverse(data) \o entries
  <2>1. Len(data) \in 0..Len(data) BY <1>1
  <2> QED BY <2>1, <1>1, <1>3, LoadedIs
<1> QED BY <1>1, <1>7, <1>8, <1>10, <1>11 DEF BookInv, data

\* What save_file writes and person_name_search compares.
LEMMA StoredIs == ASSUME NEW b, NEW s, NEW e, Holds(b, s, e) PROVE Book!Stored(b) = e
<1>1. Book!List(b) = s BY ListIs
<1>2. e \in Seq(Person) /\ Len(s) = Len(e) BY DEF Holds
<1>3. e = [i \in 1..Len(s) |-> e[i]] BY <1>2
<1>4. \A i \in 1..Len(s) : b.person[s[i]] = e[i] BY DEF Holds
<1> QED BY <1>1, <1>3, <1>4 DEF Book!Stored

LEMMA InsertKeeps == ASSUME BookInv, NEW p \in Person, Book!insert_entry(p) PROVE BookInv'
<1>1. PICK s : Holds(book, s, entries) BY DEF BookInv
<1>2. /\ Book!Unallocated(book) # {} /\ book' = Book!Inserted(book, p)
      /\ entries' = <<p>> \o entries /\ file' = file
  BY DEF Book!insert_entry
<1>3. \E t : Holds(book', t, entries') BY <1>1, <1>2, InsertedIs
<1> QED BY <1>2, <1>3 DEF BookInv

LEMMA DeleteKeeps == ASSUME BookInv, NEW name, Book!delete_entry(name) PROVE BookInv'
<1> DEFINE S == Book!Found(book, name)
           i == Book!Min(S)
<1>1. PICK s : Holds(book, s, entries) BY DEF BookInv
<1>2. /\ S # {} /\ book' = Book!Removed(book, Book!List(book)[i])
      /\ entries' = Book!RemoveAt(entries, i) /\ file' = file
  BY DEF Book!delete_entry
<1>3. Book!List(book) = s /\ Book!Stored(book) = entries BY <1>1, ListIs, StoredIs
<1>4. Len(s) = Len(entries) /\ Len(s) \in Nat BY <1>1 DEF Holds
<1>5. S \in SUBSET (1..Len(s)) BY <1>3, <1>4 DEF Book!Found
<1> HIDE DEF S
<1>6. i \in S
  <2>1. S \in SUBSET Nat BY <1>4, <1>5
  <2>2. \E x \in S : \A y \in S : x <= y BY <2>1, <1>2, LeastNat
  <2> QED BY <2>2 DEF Book!Min
<1> HIDE DEF i
<1>7. i \in 1..Len(s) BY <1>5, <1>6
<1>8. Holds(book', Book!RemoveAt(s, i), entries') BY <1>1, <1>2, <1>3, <1>7, RemovedIs
<1> QED BY <1>2, <1>8 DEF BookInv

LEMMA SaveKeeps == ASSUME BookInv, Book!save_entry PROVE BookInv'
<1>1. PICK s : Holds(book, s, entries) BY DEF BookInv
<1>2. Book!Stored(book) = entries BY <1>1, StoredIs
<1>3. entries \in Seq(Person) BY <1>1 DEF Holds
<1>4. PICK n \in 0..Len(entries) : file' = [there |-> TRUE, data |-> SubSeq(entries, 1, n)]
  BY <1>2 DEF Book!save_entry
<1>5. SubSeq(entries, 1, n) \in Seq(Person) BY <1>3
<1>6. file'.data \in Seq(Person) BY <1>4, <1>5
<1> QED BY <1>1, <1>6 DEF BookInv, Book!save_entry

LEMMA EmptyHolds == Holds(Book!Empty, <<>>, <<>>)
<1>1. Book!Empty \in Books BY DEF Books, Book!Empty, Book!nullptr
<1>2. <<>> \in Seq(Node) /\ <<>> \in Seq(Person) /\ Len(<<>>) = 0 /\ 1..0 = {} OBVIOUS
<1>3. Book!Empty.data = 0 /\ Book!Empty.count = 0 /\ Book!Empty.heap = {}
  BY DEF Book!Empty, Book!nullptr
<1> QED BY <1>1, <1>2, <1>3 DEF Holds, NodeAt

LEMMA BookInitInv == ASSUME Book!Init PROVE BookInv
BY EmptyHolds DEF Book!Init, BookInv

LEMMA BookKept == ASSUME BookInv, UNCHANGED bookVars PROVE BookInv'
BY DEF BookInv, bookVars

LEMMA BookStep == ASSUME BookInv, Book!Next PROVE BookInv'
<1>1. CASE \E p \in Person : Book!insert_entry(p) BY <1>1, InsertKeeps
<1>2. CASE \E p \in Person : Book!delete_entry(p.name) BY <1>2, DeleteKeeps
<1>3. CASE Book!save_entry BY <1>3, SaveKeeps
<1>4. CASE Book!load_entry BY <1>4, LoadKeeps
<1>5. CASE Book!menu_exit BY <1>5, EmptyHolds DEF Book!menu_exit, BookInv
<1> QED BY <1>1, <1>2, <1>3, <1>4, <1>5 DEF Book!Next

LEMMA BookIsExact == ASSUME BookInv PROVE Book!ListExact
<1>1. PICK s : Holds(book, s, entries) BY DEF BookInv
<1>2. Book!List(book) = s /\ Book!Stored(book) = entries BY <1>1, ListIs, StoredIs
<1>3. book.count = Len(entries) BY <1>1 DEF Holds
<1>4. s \in Seq(Node) /\ Len(s) \in Nat BY <1>1 DEF Holds
<1>5. ASSUME NEW i \in 1..Len(s)
      PROVE  book.prev[s[i]] = IF i = 1 THEN Book!nullptr ELSE s[i - 1]
  <2>1. book.prev[s[i]] = NodeAt(s, i - 1) BY <1>1 DEF Holds
  <2>2. i = 1 \/ i - 1 \in 1..Len(s) BY <1>4
  <2>3. 1 - 1 \notin 1..Len(s) BY <1>4
  <2> QED BY <2>1, <2>2, <2>3 DEF NodeAt, Book!nullptr
<1>6. Book!Unallocated(book) = Node \ {s[i] : i \in 1..Len(s)}
  BY <1>1 DEF Holds, Book!Unallocated
<1> QED BY <1>2, <1>3, <1>5, <1>6 DEF Book!ListExact

-----------------------------------------------------------------------------
(* The messages of the DNS clients: loops *)

LEMMA UpTo ==
  ASSUME NEW n \in Nat, NEW Good \in SUBSET Nat, 0 \in Good,
         \A k \in 1..n : k - 1 \in Good => k \in Good
  PROVE  \A k \in 0..n : k \in Good
<1> DEFINE Bad == {k \in 0..n : k \notin Good}
<1>1. SUFFICES ASSUME Bad # {} PROVE FALSE
  OBVIOUS
<1>2. Bad \in SUBSET Nat OBVIOUS
<1> HIDE DEF Bad
<1>3. PICK m \in Bad : \A j \in Bad : m <= j BY <1>1, <1>2, LeastNat
<1>4. m \in 0..n /\ m \notin Good BY <1>3 DEF Bad
<1>5. m # 0 BY <1>4
<1>6. m \in 1..n /\ m - 1 \in 0..n /\ ~(m <= m - 1) BY <1>4, <1>5
<1>7. m - 1 \in Good BY <1>6, <1>3 DEF Bad
<1> QED BY <1>4, <1>6, <1>7

\* What a loop works on after each of n turns, where F says what each turn does.
Turns(S, x, F, n) ==
  CHOOSE f \in [0..n -> S] : f[0] = x /\ \A k \in 1..n : f[k] = F[k][f[k - 1]]

LEMMA TurnsAre ==
  ASSUME NEW S, NEW x \in S, NEW n \in Nat, NEW F \in [1..n -> [S -> S]]
  PROVE  /\ Turns(S, x, F, n) \in [0..n -> S] /\ Turns(S, x, F, n)[0] = x
         /\ \A k \in 1..n : Turns(S, x, F, n)[k] = F[k][Turns(S, x, F, n)[k - 1]]
<1> DEFINE Is(f, m) == f \in [0..m -> S] /\ f[0] = x /\ \A k \in 1..m : f[k] = F[k][f[k - 1]]
           Good == {m \in Nat : m \in 0..n => \E f : Is(f, m)}
<1>1. SUFFICES \E f : Is(f, n)
  <2>1. \E f \in [0..n -> S] : f[0] = x /\ \A k \in 1..n : f[k] = F[k][f[k - 1]] BY <1>1
  <2> QED BY <2>1 DEF Turns
<1>2. 0 \in Good
  <2> DEFINE f == [k \in 0..0 |-> x]
  <2>1. Is(f, 0) OBVIOUS
  <2> QED BY <2>1
<1>3. ASSUME NEW m \in 1..n, m - 1 \in Good PROVE m \in Good
  <2>1. m - 1 \in Nat /\ m \in Nat /\ m - 1 \in 0..n OBVIOUS
  <2>3. PICK g : Is(g, m - 1) BY <1>3, <2>1
  <2> DEFINE f == [k \in 0..m |-> IF k = m THEN F[m][g[m - 1]] ELSE g[k]]
  <2>4. \A k \in 0..(m - 1) : f[k] = g[k] /\ g[k] \in S BY <2>1, <2>3
  <2>5. f[m] = F[m][g[m - 1]] /\ f[m] \in S
    <3>1. m - 1 \in 0..(m - 1) /\ m \in 0..m BY <2>1
    <3>2. g[m - 1] \in S /\ F[m] \in [S -> S] BY <3>1, <2>4
    <3> QED BY <3>1, <3>2
  <2>6. \A k \in 0..m : k = m \/ k \in 0..(m - 1) BY <2>1
  <2>7. f \in [0..m -> S] BY <2>4, <2>5, <2>6
  <2>8. f[0] = x BY <2>1, <2>3, <2>4
  <2>9. ASSUME NEW k \in 1..m PROVE f[k] = F[k][f[k - 1]]
    <3>1. k - 1 \in 0..(m - 1) BY <2>1
    <3>2. CASE k = m BY <3>1, <3>2, <2>4, <2>5
    <3>3. CASE k # m
      <4>1. k \in 1..(m - 1) /\ k \in 0..(m - 1) BY <3>3, <2>1
      <4> QED BY <4>1, <3>1, <2>3, <2>4
    <3> QED BY <3>2, <3>3
  <2> HIDE DEF f
  <2>10. Is(f, m) BY <2>7, <2>8, <2>9
  <2> QED BY <2>10, <2>1
<1>4. Good \in SUBSET Nat OBVIOUS
<1> HIDE DEF Good
<1>5. \A k \in 0..n : k \in Good BY <1>2, <1>3, <1>4, UpTo
<1>6. n \in Good /\ n \in 0..n BY <1>5
<1> QED BY <1>6 DEF Good

LEMMA TurnIs ==
  ASSUME NEW S, NEW x \in S, NEW n \in Nat, NEW F \in [1..n -> [S -> S]], NEW k \in 1..n
  PROVE  Turns(S, x, F, n)[k] = F[k][Turns(S, x, F, n)[k - 1]]
<1>1. \A j \in 1..n : Turns(S, x, F, n)[j] = F[j][Turns(S, x, F, n)[j - 1]] BY TurnsAre
<1> QED BY <1>1

-----------------------------------------------------------------------------
(* Labels *)

Chars == 1..255

LEMMA LabelEndIs ==
  ASSUME NEW host \in Seq(Chars), NEW i \in 1..(Len(host) + 1)
  PROVE  LET e == Message!LabelEnd(host, i) IN
         /\ e \in i..(Len(host) + 1) /\ e \in Nat /\ (e = Len(host) + 1 \/ host[e] = 46)
         /\ \A k \in i..(e - 1) : host[k] # 46
<1> DEFINE N == Len(host)
           Ends == {e \in i..(N + 1) : e = N + 1 \/ host[e] = 46}
           P(e) == (e = N + 1 \/ host[e] = 46) /\ \A k \in i..(e - 1) : host[k] # 46
<1>1. N \in Nat /\ i \in Nat OBVIOUS
<1>2. N + 1 \in Ends BY <1>1
<1>3. Ends \in SUBSET Nat BY <1>1
<1>4. PICK e \in Ends : \A y \in Ends : e <= y
  <2> HIDE DEF Ends
  <2> QED BY <1>2, <1>3, LeastNat
<1>5. ASSUME NEW k \in i..(e - 1) PROVE host[k] # 46
  <2>1. k \in i..(N + 1) /\ ~(e <= k) BY <1>1, <1>4
  <2> QED BY <2>1, <1>4
<1>6. \E z \in i..(N + 1) : P(z) BY <1>4, <1>5
<1>7. Message!LabelEnd(host, i) = CHOOSE z \in i..(N + 1) : P(z)
  BY DEF Message!LabelEnd, Message!Dot
<1> HIDE DEF P
<1>8. Message!LabelEnd(host, i) \in i..(N + 1) /\ P(Message!LabelEnd(host, i)) BY <1>6, <1>7
<1>9. Message!LabelEnd(host, i) \in Nat BY <1>1, <1>8
<1> QED BY <1>8, <1>9 DEF P

\* The name of host in a message: the length of each label before it, and a zero.
Name(host) ==
  [x \in 1..(Len(host) + 2) |->
     IF x = Len(host) + 2 THEN 0
     ELSE IF Message!LabelStart(host, x) THEN Message!LabelEnd(host, x) - x ELSE host[x - 1]]

\* Where a label of host begins, or, behind the last, its name ends.
Stop(host, i) ==
  i = Len(host) + 2 \/ (i \in 1..Len(host) /\ Message!LabelStart(host, i))

LEMMA LabelIs ==
  ASSUME NEW host \in Seq(Chars), Message!Proper(host), NEW i \in 1..Len(host),
         Message!LabelStart(host, i)
  PROVE  LET e == Message!LabelEnd(host, i) IN
         /\ e \in Nat /\ i < e /\ e <= Len(host) + 1 /\ Stop(host, e + 1)
         /\ Name(host)[i] = e - i
         /\ \A t \in 1..(e - i) : i + t \in 1..(Len(host) + 2) /\ Name(host)[i + t] = host[i + t - 1]
         /\ e <= Len(host) => host[e] = 46
<1> DEFINE N == Len(host)
           e == Message!LabelEnd(host, i)
<1>1. N \in Nat /\ i \in Nat /\ i \in 1..(N + 1) /\ i # N + 2 /\ i \in 1..(N + 2) OBVIOUS
<1>2. /\ e \in i..(N + 1) /\ e \in Nat /\ (e = N + 1 \/ host[e] = 46)
      /\ \A k \in i..(e - 1) : host[k] # 46
  BY <1>1, LabelEndIs
<1>3. e # i /\ host[N] # 46 BY DEF Message!Proper, Message!Dot
<1>4. i < e /\ e <= N + 1 /\ e # N BY <1>1, <1>2, <1>3
<1>5. Name(host)[i] = e - i BY <1>1 DEF Name
<1>6. Stop(host, e + 1)
  <2>1. CASE e = N + 1 BY <2>1, <1>1 DEF Stop
  <2>2. CASE e # N + 1
    <3>1. e + 1 \in 1..N /\ host[e] = 46 /\ (e + 1) - 1 = e BY <2>2, <1>1, <1>2, <1>4
    <3> QED BY <3>1 DEF Stop, Message!LabelStart, Message!Dot
  <2> QED BY <2>1, <2>2
<1>7. ASSUME NEW t \in 1..(e - i)
      PROVE  i + t \in 1..(N + 2) /\ Name(host)[i + t] = host[i + t - 1]
  <2>1. i + t \in 1..(N + 2) /\ i + t # N + 2 /\ i + t # 1 /\ i + t - 1 \in i..(e - 1)
    BY <1>1, <1>2, <1>4
  <2>2. host[i + t - 1] # 46 BY <2>1, <1>2
  <2>3. ~Message!LabelStart(host, i + t) BY <2>1, <2>2 DEF Message!LabelStart, Message!Dot
  <2> QED BY <2>1, <2>3 DEF Name
<1>8. e <= N => host[e] = 46 BY <1>1, <1>2
<1> HIDE DEF e
<1> QED BY <1>2, <1>4, <1>5, <1>6, <1>7, <1>8 DEF e

LEMMA CharsAreNats == ASSUME NEW s \in Seq(Chars) PROVE s \in Seq(Nat)
<1>1. Len(s) \in Nat /\ s = [i \in 1..Len(s) |-> s[i]] OBVIOUS
<1>2. \A i \in 1..Len(s) : s[i] \in Chars BY ElementOfSeq
<1>3. \A x \in Chars : x \in Nat BY DEF Chars
<1> QED BY <1>1, <1>2, <1>3

LEMMA SameSeq ==
  ASSUME NEW a \in Seq(Nat), NEW b \in Seq(Nat), Len(a) = Len(b), \A x \in 1..Len(a) : a[x] = b[x]
  PROVE  a = b
<1>1. a = [x \in 1..Len(a) |-> a[x]] OBVIOUS
<1>2. b = [x \in 1..Len(b) |-> b[x]] OBVIOUS
<1> QED BY <1>1, <1>2

LEMMA ConcatIs ==
  ASSUME NEW a \in Seq(Nat), NEW b \in Seq(Nat)
  PROVE  /\ a \o b \in Seq(Nat) /\ Len(a \o b) = Len(a) + Len(b)
         /\ \A x \in 1..(Len(a) + Len(b)) :
              (a \o b)[x] = IF x <= Len(a) THEN a[x] ELSE b[x - Len(a)]
OBVIOUS
Cursors == [at : Nat \ {0}, out : Seq(Nat)]

\* A label as it is written.
LEMMA LabelBytes ==
  ASSUME NEW host \in Seq(Chars), NEW i \in 1..Len(host)
  PROVE  LET e == Message!LabelEnd(host, i)  l == Message!Label(host, i) IN
         /\ l \in Seq(Nat) /\ Len(l) = 1 + (e - i) /\ l[1] = e - i
         /\ \A t \in 1..(e - i) : l[1 + t] = host[i + t - 1]
<1> DEFINE N == Len(host)
           e == Message!LabelEnd(host, i)
           s == SubSeq(host, i, e - 1)
<1>1. N \in Nat /\ i \in Nat /\ i \in 1..(N + 1) OBVIOUS
<1>2. e \in i..(N + 1) /\ e \in Nat BY <1>1, LabelEndIs
<1> HIDE DEF e
<1>3. s \in Seq(Chars) /\ Len(s) = e - i /\ \A t \in 1..(e - i) : s[t] = host[i + t - 1]
  BY <1>1, <1>2
<1>4. Message!Label(host, i) = <<e - i>> \o s BY DEF Message!Label, e
<1> HIDE DEF s
<1>5. s \in Seq(Nat) BY <1>3, CharsAreNats
<1>6. e - i \in Nat BY <1>1, <1>2
<1> DEFINE l == <<e - i>> \o s
<1>7. /\ l \in Seq(Nat) /\ Len(l) = Len(s) + 1 /\ l[1] = e - i
      /\ \A x \in 1..(Len(s) + 1) : x # 1 => l[x] = s[x - 1]
  BY <1>5, <1>6
<1> HIDE DEF l
<1>8. ASSUME NEW t \in 1..(e - i) PROVE l[1 + t] = host[i + t - 1]
  <2>1. 1 + t \in 1..(Len(s) + 1) /\ 1 + t # 1 /\ (1 + t) - 1 = t BY <1>1, <1>2, <1>3
  <2> QED BY <2>1, <1>3, <1>7
<1>9. Len(l) = 1 + (e - i) BY <1>1, <1>2, <1>3, <1>7
<1> QED BY <1>4, <1>7, <1>8, <1>9 DEF l, e

\* What is written when the label at q.at is next: the name up to there.
Written(host, q) ==
  /\ q.at \in Nat /\ Stop(host, q.at) /\ q.out \in Seq(Nat) /\ Len(q.out) = q.at - 1
  /\ \A x \in 1..(q.at - 1) : q.out[x] = Name(host)[x]

LEMMA LabelWritten ==
  ASSUME NEW host \in Seq(Chars), Message!Proper(host), NEW q, Written(host, q), q.at <= Len(host)
  PROVE  LET p == [at |-> Message!LabelEnd(host, q.at) + 1, out |-> q.out \o Message!Label(host, q.at)]
         IN  Written(host, p) /\ p.at > q.at
<1> DEFINE N == Len(host)
           i == q.at
           e == Message!LabelEnd(host, i)
           l == Message!Label(host, i)
           o == q.out
           p == [at |-> e + 1, out |-> o \o l]
<1>1. /\ N \in Nat /\ i \in Nat /\ i \in 1..N /\ Message!LabelStart(host, i)
      /\ o \in Seq(Nat) /\ Len(o) = i - 1 /\ \A x \in 1..(i - 1) : o[x] = Name(host)[x]
  BY DEF Written, Stop
<1> HIDE DEF i, o
<1>2. /\ e \in Nat /\ i < e /\ e <= N + 1 /\ Stop(host, e + 1) /\ Name(host)[i] = e - i
      /\ \A t \in 1..(e - i) : Name(host)[i + t] = host[i + t - 1]
  BY <1>1, LabelIs
<1>3. /\ l \in Seq(Nat) /\ Len(l) = 1 + (e - i) /\ l[1] = e - i
      /\ \A t \in 1..(e - i) : l[1 + t] = host[i + t - 1]
  BY <1>1, LabelBytes
<1> HIDE DEF e, l
<1>4. p.at = e + 1 /\ p.out = o \o l OBVIOUS
<1>5. o \o l \in Seq(Nat) /\ Len(o \o l) = e
      /\ \A x \in 1..e : (o \o l)[x] = IF x <= i - 1 THEN o[x] ELSE l[x - (i - 1)]
  <2>1. Len(o) + Len(l) = e BY <1>1, <1>2, <1>3
  <2>2. /\ o \o l \in Seq(Nat) /\ Len(o \o l) = Len(o) + Len(l)
        /\ \A x \in 1..(Len(o) + Len(l)) :
             (o \o l)[x] = IF x <= Len(o) THEN o[x] ELSE l[x - Len(o)]
    BY <1>1, <1>3, ConcatIs
  <2> QED BY <2>1, <2>2, <1>1
<1>6. ASSUME NEW x \in 1..e PROVE (o \o l)[x] = Name(host)[x]
  <2>1. CASE x <= i - 1
    <3>1. x \in 1..(i - 1) BY <2>1, <1>1
    <3> QED BY <3>1, <2>1, <1>1, <1>5
  <2>2. CASE x = i
    <3>1. ~(x <= i - 1) /\ x - (i - 1) = 1 BY <2>2, <1>1
    <3> QED BY <3>1, <2>2, <1>2, <1>3, <1>5
  <2>3. CASE x > i
    <3> DEFINE t == x - i
    <3>1. t \in 1..(e - i) /\ ~(x <= i - 1) /\ x - (i - 1) = 1 + t /\ i + t = x
      BY <2>3, <1>1, <1>2
    <3> HIDE DEF t
    <3> QED BY <3>1, <1>2, <1>3, <1>5
  <2>4. x <= i - 1 \/ x = i \/ x > i BY <1>1, <1>2
  <2> QED BY <2>1, <2>2, <2>3, <2>4
<1>7. e + 1 \in Nat /\ (e + 1) - 1 = e /\ e + 1 > i BY <1>1, <1>2
<1> HIDE DEF p
<1>8. Written(host, p) /\ p.at > i BY <1>2, <1>4, <1>5, <1>6, <1>7 DEF Written
<1> QED BY <1>8 DEF p, e, l, i, o


\* The loop of dns_create_question ...
LEMMA TokensLoop ==
  ASSUME NEW host \in Seq(Chars)
  PROVE  \E f \in [0..Len(host) -> Cursors] :
           /\ f[0] = [at |-> 1, out |-> <<>>]
           /\ \A k \in 1..Len(host) : f[k] = Message!Token(host, f[k - 1])
           /\ Message!Tokens(host) = f[Len(host)].out
<1> DEFINE N == Len(host)
           start == [at |-> 1, out |-> <<>>]
           G(g) == [k \in 0..N |-> IF k = 0 THEN start ELSE Message!Token(host, g[k - 1])]
           F == [k \in 1..N |-> [q \in Cursors |-> Message!Token(host, q)]]
           h == Turns(Cursors, start, F, N)
           f == CHOOSE g : g = G(g)
<1>1. N \in Nat /\ start \in Cursors BY DEF Cursors
<1>2. ASSUME NEW k \in 1..N, NEW q \in Cursors PROVE Message!Token(host, q) \in Cursors
  <2>1. q.at \in Nat \ {0} /\ q.out \in Seq(Nat) BY DEF Cursors
  <2>2. CASE q.at > Len(host) BY <2>2 DEF Message!Token
  <2>3. CASE q.at <= Len(host)
    <3>1. q.at \in 1..Len(host) /\ q.at \in 1..(Len(host) + 1) BY <2>1, <2>3
    <3>2. Message!LabelEnd(host, q.at) + 1 \in Nat \ {0} BY <3>1, LabelEndIs
    <3>3. Message!Label(host, q.at) \in Seq(Nat) BY <3>1, LabelBytes
    <3>4. q.out \o Message!Label(host, q.at) \in Seq(Nat) BY <2>1, <3>3
    <3>5. [at |-> Message!LabelEnd(host, q.at) + 1, out |-> q.out \o Message!Label(host, q.at)] \in Cursors
          /\ [at |-> Message!LabelEnd(host, q.at) + 1, out |-> q.out] \in Cursors
      BY <2>1, <3>2, <3>4 DEF Cursors
    <3> QED BY <3>5 DEF Message!Token
  <2> QED BY <2>1, <2>2, <2>3
<1>3. F \in [1..N -> [Cursors -> Cursors]] BY <1>2
<1>4. Message!Tokens(host) = f[Len(host)].out BY Zenon DEF Message!Tokens, f
<1> HIDE DEF N, start
<1>5. h \in [0..N -> Cursors] /\ h[0] = start /\ \A k \in 1..N : h[k] = F[k][h[k - 1]]
  <2> HIDE DEF F
  <2>1. h \in [0..N -> Cursors] BY <1>1, <1>3, TurnsAre
  <2>2. h[0] = start BY <1>1, <1>3, TurnsAre
  <2>3. ASSUME NEW k \in 1..N PROVE h[k] = F[k][h[k - 1]] BY <1>1, <1>3, TurnIs
  <2> QED BY <2>1, <2>2, <2>3
<1> HIDE DEF h
<1>6. h = G(h)
  <2>1. ASSUME NEW k \in 0..N PROVE h[k] = G(h)[k]
    <3>1. CASE k = 0 BY <3>1, <1>5
    <3>2. CASE k # 0
      <4>1. k \in 1..N /\ k - 1 \in 0..N BY <3>2, <1>1
      <4>2. h[k] = F[k][h[k - 1]] /\ h[k - 1] \in Cursors BY <4>1, <1>5
      <4> QED BY <4>1, <4>2, <3>2
    <3> QED BY <3>1, <3>2
  <2>2. h = [k \in 0..N |-> h[k]] /\ G(h) = [k \in 0..N |-> G(h)[k]] BY <1>5
  <2> HIDE DEF G
  <2> QED BY <2>1, <2>2
<1>7. f = G(f)
  <2> HIDE DEF G
  <2> QED BY <1>6
<1> HIDE DEF f, F
<1>8. f[0] = start /\ \A k \in 1..N : f[k] = Message!Token(host, f[k - 1])
  <2>1. ASSUME NEW k \in 0..N
        PROVE  f[k] = IF k = 0 THEN start ELSE Message!Token(host, f[k - 1])
    BY <1>7
  <2>2. 0 \in 0..N /\ \A k \in 1..N : k \in 0..N /\ k # 0 BY <1>1
  <2> QED BY <2>1, <2>2
<1>9. f \in [0..N -> Cursors]
  <2> DEFINE Good == {k \in 0..N : f[k] \in Cursors}
  <2>1. 0 \in Good BY <1>1, <1>8
  <2>2. ASSUME NEW k \in 1..N, k - 1 \in Good PROVE k \in Good
    <3>1. f[k] = Message!Token(host, f[k - 1]) /\ f[k - 1] \in Cursors BY <1>8, <2>2
    <3>2. f[k] \in Cursors BY <3>1, <1>2
    <3> QED BY <3>2, <1>1
  <2>3. Good \in SUBSET Nat BY <1>1
  <2> HIDE DEF Good
  <2>4. \A k \in 0..N : k \in Good BY <1>1, <2>1, <2>2, <2>3, UpTo
  <2>5. \A k \in 0..N : f[k] \in Cursors BY <2>4 DEF Good
  <2>6. f = [k \in 0..N |-> f[k]] BY <1>7
  <2> QED BY <2>5, <2>6
<1> QED BY <1>4, <1>8, <1>9 DEF N, start

\* ... and that of encode_hostname
LEMMA EncodingLoop ==
  ASSUME NEW host \in Seq(Chars)
  PROVE  \E f \in [0..Len(host) -> Cursors] :
           /\ f[0] = [at |-> 1, out |-> <<>>]
           /\ \A k \in 1..Len(host) : f[k] = Message!EncodeLabel(host, f[k - 1])
           /\ Message!Encoding(host) = f[Len(host)]
<1> DEFINE N == Len(host)
           start == [at |-> 1, out |-> <<>>]
           G(g) == [k \in 0..N |-> IF k = 0 THEN start ELSE Message!EncodeLabel(host, g[k - 1])]
           F == [k \in 1..N |-> [q \in Cursors |-> Message!EncodeLabel(host, q)]]
           h == Turns(Cursors, start, F, N)
           f == CHOOSE g : g = G(g)
<1>1. N \in Nat /\ start \in Cursors BY DEF Cursors
<1>2. ASSUME NEW k \in 1..N, NEW q \in Cursors PROVE Message!EncodeLabel(host, q) \in Cursors
  <2>1. q.at \in Nat \ {0} /\ q.out \in Seq(Nat) BY DEF Cursors
  <2>2. CASE q.at > Len(host) BY <2>2 DEF Message!EncodeLabel
  <2>3. CASE q.at <= Len(host)
    <3>1. q.at \in 1..Len(host) /\ q.at \in 1..(Len(host) + 1) BY <2>1, <2>3
    <3>2. Message!LabelEnd(host, q.at) + 1 \in Nat \ {0} BY <3>1, LabelEndIs
    <3>3. Message!Label(host, q.at) \in Seq(Nat) BY <3>1, LabelBytes
    <3>4. q.out \o Message!Label(host, q.at) \in Seq(Nat) BY <2>1, <3>3
    <3>5. [at |-> Message!LabelEnd(host, q.at) + 1, out |-> q.out \o Message!Label(host, q.at)] \in Cursors
          /\ [at |-> Message!LabelEnd(host, q.at) + 1, out |-> q.out] \in Cursors
      BY <2>1, <3>2, <3>4 DEF Cursors
    <3> QED BY <3>5 DEF Message!EncodeLabel
  <2> QED BY <2>1, <2>2, <2>3
<1>3. F \in [1..N -> [Cursors -> Cursors]] BY <1>2
<1>4. Message!Encoding(host) = f[Len(host)] BY Zenon DEF Message!Encoding, f
<1> HIDE DEF N, start
<1>5. h \in [0..N -> Cursors] /\ h[0] = start /\ \A k \in 1..N : h[k] = F[k][h[k - 1]]
  <2> HIDE DEF F
  <2>1. h \in [0..N -> Cursors] BY <1>1, <1>3, TurnsAre
  <2>2. h[0] = start BY <1>1, <1>3, TurnsAre
  <2>3. ASSUME NEW k \in 1..N PROVE h[k] = F[k][h[k - 1]] BY <1>1, <1>3, TurnIs
  <2> QED BY <2>1, <2>2, <2>3
<1> HIDE DEF h
<1>6. h = G(h)
  <2>1. ASSUME NEW k \in 0..N PROVE h[k] = G(h)[k]
    <3>1. CASE k = 0 BY <3>1, <1>5
    <3>2. CASE k # 0
      <4>1. k \in 1..N /\ k - 1 \in 0..N BY <3>2, <1>1
      <4>2. h[k] = F[k][h[k - 1]] /\ h[k - 1] \in Cursors BY <4>1, <1>5
      <4> QED BY <4>1, <4>2, <3>2
    <3> QED BY <3>1, <3>2
  <2>2. h = [k \in 0..N |-> h[k]] /\ G(h) = [k \in 0..N |-> G(h)[k]] BY <1>5
  <2> HIDE DEF G
  <2> QED BY <2>1, <2>2
<1>7. f = G(f)
  <2> HIDE DEF G
  <2> QED BY <1>6
<1> HIDE DEF f, F
<1>8. f[0] = start /\ \A k \in 1..N : f[k] = Message!EncodeLabel(host, f[k - 1])
  <2>1. ASSUME NEW k \in 0..N
        PROVE  f[k] = IF k = 0 THEN start ELSE Message!EncodeLabel(host, f[k - 1])
    BY <1>7
  <2>2. 0 \in 0..N /\ \A k \in 1..N : k \in 0..N /\ k # 0 BY <1>1
  <2> QED BY <2>1, <2>2
<1>9. f \in [0..N -> Cursors]
  <2> DEFINE Good == {k \in 0..N : f[k] \in Cursors}
  <2>1. 0 \in Good BY <1>1, <1>8
  <2>2. ASSUME NEW k \in 1..N, k - 1 \in Good PROVE k \in Good
    <3>1. f[k] = Message!EncodeLabel(host, f[k - 1]) /\ f[k - 1] \in Cursors BY <1>8, <2>2
    <3>2. f[k] \in Cursors BY <3>1, <1>2
    <3> QED BY <3>2, <1>1
  <2>3. Good \in SUBSET Nat BY <1>1
  <2> HIDE DEF Good
  <2>4. \A k \in 0..N : k \in Good BY <1>1, <2>1, <2>2, <2>3, UpTo
  <2>5. \A k \in 0..N : f[k] \in Cursors BY <2>4 DEF Good
  <2>6. f = [k \in 0..N |-> f[k]] BY <1>7
  <2> QED BY <2>5, <2>6
<1> QED BY <1>4, <1>8, <1>9 DEF N, start

\* A loop that writes a label in each turn writes the name but for its last byte.
LEMMA NameWritten ==
  ASSUME NEW host \in Seq(Chars), Message!Proper(host), NEW f, f[0] = [at |-> 1, out |-> <<>>],
         \A k \in 1..Len(host) : Written(host, f[k - 1]) =>
           f[k] = IF f[k - 1].at > Len(host) THEN f[k - 1]
                  ELSE [at |-> Message!LabelEnd(host, f[k - 1].at) + 1,
                        out |-> f[k - 1].out \o Message!Label(host, f[k - 1].at)]
  PROVE  f[Len(host)].at = Len(host) + 2 /\ Written(host, f[Len(host)])
<1> DEFINE N == Len(host)
           Inv(k) == Written(host, f[k]) /\ (f[k].at > N \/ f[k].at > k)
           Good == {k \in 0..N : Inv(k)}
<1>1. N \in Nat /\ N # 0
  <2>1. host # <<>> BY DEF Message!Proper
  <2> QED BY <2>1
<1>2. Inv(0)
  <2>1. f[0].at = 1 /\ f[0].out = <<>> OBVIOUS
  <2>2. Stop(host, 1) BY <1>1 DEF Stop, Message!LabelStart
  <2> QED BY <2>1, <2>2 DEF Written
<1>3. ASSUME NEW k \in 1..N, Inv(k - 1) PROVE Inv(k)
  <2>1. CASE f[k - 1].at > N BY <2>1, <1>3
  <2>2. CASE ~(f[k - 1].at > N)
    <3> DEFINE q == f[k - 1]
               p == [at |-> Message!LabelEnd(host, q.at) + 1, out |-> q.out \o Message!Label(host, q.at)]
    <3>1. f[k] = p BY <2>2, <1>3
    <3>2. Written(host, q) /\ q.at > k - 1 /\ q.at \in Nat /\ q.at <= N BY <2>2, <1>3, <1>1 DEF Written
    <3>3. Written(host, p) /\ p.at > q.at
      <4> HIDE DEF q
      <4> QED BY <3>2, LabelWritten
    <3> HIDE DEF p, q
    <3>4. p.at \in Nat BY <3>3 DEF Written
    <3>5. p.at > k BY <3>2, <3>3, <3>4
    <3> QED BY <3>1, <3>3, <3>5
  <2> QED BY <2>1, <2>2
<1>4. 0 \in Good /\ Good \in SUBSET Nat BY <1>1, <1>2
<1>5. \A k \in 1..N : k - 1 \in Good => k \in Good BY <1>1, <1>3
<1> HIDE DEF Good
<1>6. \A k \in 0..N : k \in Good BY <1>1, <1>4, <1>5, UpTo
<1>7. Inv(N) BY <1>1, <1>6 DEF Good
<1>8. f[N].at \in Nat /\ Stop(host, f[N].at) /\ f[N].at > N BY <1>1, <1>7 DEF Written
<1>9. f[N].at = N + 2 BY <1>1, <1>8 DEF Stop
<1> QED BY <1>7, <1>9

\* A turn of either loop
LEMMA TurnWrites ==
  ASSUME NEW host \in Seq(Chars), Message!Proper(host), NEW q, Written(host, q)
  PROVE  LET p == IF q.at > Len(host) THEN q
                  ELSE [at |-> Message!LabelEnd(host, q.at) + 1,
                        out |-> q.out \o Message!Label(host, q.at)]
         IN  Message!Token(host, q) = p /\ (dns = "test5" => Message!EncodeLabel(host, q) = p)
<1>1. Len(host) \in Nat /\ q.at \in Nat /\ Stop(host, q.at) BY DEF Written
<1>2. CASE q.at > Len(host) BY <1>2 DEF Message!Token, Message!EncodeLabel
<1>3. CASE ~(q.at > Len(host))
  <2>1. q.at \in 1..Len(host) /\ Message!LabelStart(host, q.at) BY <1>1, <1>3 DEF Stop
  <2> DEFINE e == Message!LabelEnd(host, q.at)
  <2>2. e \in Nat /\ q.at < e BY <2>1, LabelIs
  <2>3. dns = "test5" => e - q.at < LabelLimit BY <2>1 DEF Message!Proper
  <2>4. dns = "test5" => ~(e - q.at >= LabelLimit)
    BY <2>2, <2>3, <1>1, MessageAssumption DEF MessageAssumption
  <2>5. e # q.at /\ ~(e - q.at < 1) BY <2>2, <1>1
  <2>6. Message!Token(host, q) = [at |-> e + 1, out |-> q.out \o Message!Label(host, q.at)]
    BY <1>3, <2>5 DEF Message!Token
  <2>7. dns = "test5" =>
        Message!EncodeLabel(host, q) = [at |-> e + 1, out |-> q.out \o Message!Label(host, q.at)]
    BY <1>3, <2>4, <2>5 DEF Message!EncodeLabel
  <2> QED BY <1>3, <2>6, <2>7
<1> QED BY <1>2, <1>3

\* dns_create_question and encode_hostname write the name.
LEMMA NamesWritten ==
  ASSUME NEW host \in Seq(Chars), Message!Proper(host), NEW junk
  PROVE  /\ Message!dns_create_question(host, junk) = Name(host)
         /\ dns = "test5" => ~Message!Rejected(host) /\ Message!encode_hostname(host) = Name(host)
<1> DEFINE N == Len(host)
<1>1. N \in Nat /\ host # <<>> /\ N # 0
  <2>1. host # <<>> BY DEF Message!Proper
  <2> QED BY <2>1
<1>2. ASSUME NEW o \in Seq(Nat), Len(o) = N + 1, \A x \in 1..(N + 1) : o[x] = Name(host)[x]
      PROVE  o \o <<0>> = Name(host)
  <2>1. /\ o \o <<0>> \in Seq(Nat) /\ Len(o \o <<0>>) = N + 2
        /\ \A x \in 1..(N + 2) : (o \o <<0>>)[x] = IF x = N + 2 THEN 0 ELSE o[x]
    BY <1>1, <1>2
  <2>2. ASSUME NEW x \in 1..(N + 2) PROVE (o \o <<0>>)[x] = Name(host)[x]
    <3>1. CASE x = N + 2 BY <3>1, <2>1, <1>1 DEF Name
    <3>2. CASE x # N + 2
      <4>1. x \in 1..(N + 1) BY <3>2, <1>1
      <4> QED BY <4>1, <3>2, <2>1, <1>2
    <3> QED BY <3>1, <3>2
  <2>3. Name(host) = [x \in 1..(N + 2) |-> Name(host)[x]] BY DEF Name
  <2>4. o \o <<0>> = [x \in 1..(N + 2) |-> (o \o <<0>>)[x]] BY <2>1
  <2> QED BY <2>2, <2>3, <2>4
<1>3. Message!dns_create_question(host, junk) = Name(host)
  <2>1. PICK f \in [0..Len(host) -> Cursors] :
          /\ f[0] = [at |-> 1, out |-> <<>>]
          /\ \A k \in 1..Len(host) : f[k] = Message!Token(host, f[k - 1])
          /\ Message!Tokens(host) = f[Len(host)].out
    BY TokensLoop
  <2>2. f[N].at = N + 2 /\ Written(host, f[N]) BY <2>1, TurnWrites, NameWritten
  <2> DEFINE o == Message!Tokens(host)
  <2>3. o \in Seq(Nat) /\ Len(o) = N + 1 /\ \A x \in 1..(N + 1) : o[x] = Name(host)[x]
    BY <2>1, <2>2, <1>1 DEF Written
  <2> DEFINE w == o \o <<0>>
             rest == [i \in 1..(N + 2 - Len(w)) |-> junk]
  <2> HIDE DEF o
  <2>4. o # <<>> BY <2>3, <1>1
  <2>5. Message!dns_create_question(host, junk) = w \o rest
    BY <2>4 DEF Message!dns_create_question, o
  <2>6. w = Name(host) BY <2>3, <1>2
  <2>7. w \in Seq(Nat) /\ Len(w) = N + 2 BY <2>3, <1>1
  <2>8. rest = <<>> BY <2>7, <1>1
  <2> HIDE DEF w, rest
  <2> QED BY <2>5, <2>6, <2>7, <2>8
<1>4. ASSUME dns = "test5"
      PROVE  ~Message!Rejected(host) /\ Message!encode_hostname(host) = Name(host)
  <2>1. PICK f \in [0..Len(host) -> Cursors] :
          /\ f[0] = [at |-> 1, out |-> <<>>]
          /\ \A k \in 1..Len(host) : f[k] = Message!EncodeLabel(host, f[k - 1])
          /\ Message!Encoding(host) = f[Len(host)]
    BY EncodingLoop
  <2>2. f[N].at = N + 2 /\ Written(host, f[N]) BY <1>4, <2>1, TurnWrites, NameWritten
  <2> DEFINE o == Message!Encoding(host).out
  <2>3. o \in Seq(Nat) /\ Len(o) = N + 1 /\ \A x \in 1..(N + 1) : o[x] = Name(host)[x]
    BY <2>1, <2>2, <1>1 DEF Written
  <2>4. ~Message!Rejected(host) BY <2>1, <2>2, <1>1 DEF Message!Rejected
  <2> HIDE DEF o
  <2>5. o \o <<0>> = Name(host) BY <2>3, <1>2
  <2> QED BY <2>4, <2>5 DEF Message!encode_hostname, o
<1> QED BY <1>3, <1>4

-----------------------------------------------------------------------------
(* The bytes of a message *)

LEMMA NameIs ==
  ASSUME NEW host \in Seq(Chars)
  PROVE  Name(host) \in Seq(Nat) /\ Len(Name(host)) = Len(host) + 2
<1> DEFINE N == Len(host)
<1>1. N \in Nat OBVIOUS
<1>2. ASSUME NEW x \in 1..(N + 2) PROVE Name(host)[x] \in Nat
  <2>1. CASE x = N + 2 BY <2>1 DEF Name
  <2>2. CASE x # N + 2
    <3>1. x \in 1..(N + 1) /\ x \in Nat BY <2>2, <1>1
    <3>2. Message!LabelEnd(host, x) \in x..(N + 1) BY <3>1, LabelEndIs
    <3>3. Message!LabelEnd(host, x) - x \in Nat BY <3>1, <3>2, <1>1
    <3>4. ~Message!LabelStart(host, x) => host[x - 1] \in Nat
      <4>1. ~Message!LabelStart(host, x) => x # 1 BY DEF Message!LabelStart
      <4>2. x # 1 => x - 1 \in 1..N BY <3>1, <1>1
      <4>3. \A i \in 1..N : host[i] \in Nat BY CharsAreNats, ElementOfSeq
      <4>4. x # 1 => host[x - 1] \in Nat BY <4>2, <4>3
      <4> QED BY <4>1, <4>4
    <3> QED BY <2>2, <3>3, <3>4 DEF Name
  <2> QED BY <2>1, <2>2
<1>3. Name(host) = [x \in 1..(N + 2) |-> Name(host)[x]] BY DEF Name
<1> DEFINE m == Name(host)
<1> HIDE DEF m
<1>4. m = [x \in 1..(N + 2) |-> m[x]] /\ \A x \in 1..(N + 2) : m[x] \in Nat BY <1>2, <1>3 DEF m
<1>5. m \in Seq(Nat) /\ Len(m) = N + 2 BY <1>1, <1>4
<1> QED BY <1>5 DEF m

LEMMA PutIs ==
  ASSUME NEW v \in Nat
  PROVE  /\ Message!PutU16(v) \in Seq(Nat) /\ Len(Message!PutU16(v)) = 2
         /\ Message!PutU16(v)[1] = v \div 256 /\ Message!PutU16(v)[2] = v % 256
         /\ 256 * (v \div 256) + (v % 256) = v
<1> DEFINE d == v \div 256
           r == v % 256
<1>1. d \in Nat /\ r \in Nat /\ 256 * d + r = v OBVIOUS
<1>2. Message!PutU16(v) = <<d, r>> BY DEF Message!PutU16
<1> HIDE DEF d, r
<1>3. <<d, r>> \in Seq(Nat) /\ Len(<<d, r>>) = 2 /\ <<d, r>>[1] = d /\ <<d, r>>[2] = r BY <1>1
<1>4. /\ Message!PutU16(v) \in Seq(Nat) /\ Len(Message!PutU16(v)) = 2
      /\ Message!PutU16(v)[1] = d /\ Message!PutU16(v)[2] = r
  BY <1>2, <1>3
<1> QED BY <1>1, <1>4 DEF d, r

LEMMA PairBehind ==
  ASSUME NEW s \in Seq(Nat), NEW t \in Seq(Nat), Len(t) = 2
  PROVE  /\ s \o t \in Seq(Nat) /\ Len(s \o t) = Len(s) + 2
         /\ \A x \in 1..Len(s) : (s \o t)[x] = s[x]
         /\ (s \o t)[Len(s) + 1] = t[1] /\ (s \o t)[Len(s) + 2] = t[2]
<1>1. Len(s) \in Nat OBVIOUS
<1>2. /\ s \o t \in Seq(Nat) /\ Len(s \o t) = Len(s) + Len(t)
      /\ \A x \in 1..(Len(s) + Len(t)) : (s \o t)[x] = IF x <= Len(s) THEN s[x] ELSE t[x - Len(s)]
  BY ConcatIs
<1>3. Len(s) + 1 \in 1..(Len(s) + Len(t)) /\ ~(Len(s) + 1 <= Len(s)) /\ Len(s) + 1 - Len(s) = 1 BY <1>1
<1>4. Len(s) + 2 \in 1..(Len(s) + Len(t)) /\ ~(Len(s) + 2 <= Len(s)) /\ Len(s) + 2 - Len(s) = 2 BY <1>1
<1>5. \A x \in 1..Len(s) : x \in 1..(Len(s) + Len(t)) /\ x <= Len(s) BY <1>1
<1>6. (s \o t)[Len(s) + 1] = t[1] BY <1>2, <1>3
<1>7. (s \o t)[Len(s) + 2] = t[2] BY <1>2, <1>4
<1> QED BY <1>2, <1>5, <1>6, <1>7

LEMMA HeaderSums ==
  ASSUME NEW q \in Nat, NEW a \in Nat
  PROVE  \E h \in Seq(Nat) : /\ h = Message!Header(q, a) /\ Len(h) = 12
                             /\ 256 * h[5] + h[6] = q /\ 256 * h[7] + h[8] = a
<1> DEFINE z == Message!PutU16(0)
           u == Message!PutU16(q)
           v == Message!PutU16(a)
<1>1. z \in Seq(Nat) /\ Len(z) = 2 BY PutIs
<1>2. u \in Seq(Nat) /\ Len(u) = 2 /\ 256 * u[1] + u[2] = q BY PutIs
<1>3. v \in Seq(Nat) /\ Len(v) = 2 /\ 256 * v[1] + v[2] = a BY PutIs
<1> DEFINE h4 == z \o z
           h6 == h4 \o u
           h8 == h6 \o v
           h10 == h8 \o z
           h == h10 \o z
<1>4. Message!Header(q, a) = h BY DEF Message!Header
<1> HIDE DEF z, u, v
<1>5. h4 \in Seq(Nat) /\ Len(h4) = 4 BY <1>1, PairBehind
<1> HIDE DEF h4
<1>6. h6 \in Seq(Nat) /\ Len(h6) = 6 /\ h6[5] = u[1] /\ h6[6] = u[2]
  <2>1. /\ h6 \in Seq(Nat) /\ Len(h6) = Len(h4) + 2
        /\ h6[Len(h4) + 1] = u[1] /\ h6[Len(h4) + 2] = u[2]
    BY <1>2, <1>5, PairBehind
  <2> HIDE DEF h6
  <2> QED BY <1>5, <2>1
<1> HIDE DEF h6
<1>7. h8 \in Seq(Nat) /\ Len(h8) = 8 /\ h8[7] = v[1] /\ h8[8] = v[2]
      /\ \A x \in 1..6 : h8[x] = h6[x]
  <2>1. /\ h8 \in Seq(Nat) /\ Len(h8) = Len(h6) + 2
        /\ h8[Len(h6) + 1] = v[1] /\ h8[Len(h6) + 2] = v[2]
        /\ \A x \in 1..Len(h6) : h8[x] = h6[x]
    BY <1>3, <1>6, PairBehind
  <2> HIDE DEF h8
  <2> QED BY <1>6, <2>1
<1> HIDE DEF h8
<1>8. h10 \in Seq(Nat) /\ Len(h10) = 10 /\ \A x \in 1..8 : h10[x] = h8[x]
  <2>1. /\ h10 \in Seq(Nat) /\ Len(h10) = Len(h8) + 2 /\ \A x \in 1..Len(h8) : h10[x] = h8[x]
    BY <1>1, <1>7, PairBehind
  <2> HIDE DEF h10
  <2> QED BY <1>7, <2>1
<1> HIDE DEF h10
<1>9. h \in Seq(Nat) /\ Len(h) = 12 /\ \A x \in 1..10 : h[x] = h10[x]
  <2>1. /\ h \in Seq(Nat) /\ Len(h) = Len(h10) + 2 /\ \A x \in 1..Len(h10) : h[x] = h10[x]
    BY <1>1, <1>8, PairBehind
  <2> HIDE DEF h
  <2> QED BY <1>8, <2>1
<1> HIDE DEF h
<1>10. h[5] = u[1] /\ h[6] = u[2] /\ h[7] = v[1] /\ h[8] = v[2] BY <1>6, <1>7, <1>8, <1>9
<1> QED BY <1>2, <1>3, <1>4, <1>9, <1>10

LEMMA HeaderIs ==
  ASSUME NEW q \in Nat, NEW a \in Nat
  PROVE  Message!Header(q, a) \in Seq(Nat) /\ Len(Message!Header(q, a)) = 12
BY HeaderSums

LEMMA HeaderCounts ==
  ASSUME NEW q \in Nat, NEW a \in Nat
  PROVE  Message!U16(Message!Header(q, a), 4) = q /\ Message!U16(Message!Header(q, a), 6) = a
<1>1. PICK h \in Seq(Nat) : /\ h = Message!Header(q, a) /\ Len(h) = 12
                            /\ 256 * h[5] + h[6] = q /\ 256 * h[7] + h[8] = a
  BY HeaderSums
<1>2. Message!At(h, 4) = h[5] /\ Message!At(h, 5) = h[6]
      /\ Message!At(h, 6) = h[7] /\ Message!At(h, 7) = h[8]
  BY <1>1 DEF Message!At
<1>3. Message!U16(h, 4) = q /\ Message!U16(h, 6) = a BY <1>1, <1>2 DEF Message!U16
<1> QED BY <1>1, <1>3

Ending == <<0, 1, 0, 1>>

\* A message up to its records, of which there are n.
Begin(host, n) ==
  [x \in 1..(Len(host) + 18) |->
     IF x <= 12 THEN Message!Header(1, n)[x]
     ELSE IF x <= Len(host) + 14 THEN Name(host)[x - 12] ELSE Ending[x - (Len(host) + 14)]]

LEMMA PartIs ==
  ASSUME NEW n \in Nat, NEW x \in 1..(n + 18)
  PROVE  /\ x <= 12 => x \in 1..12
         /\ ~(x <= 12) /\ x <= n + 14 => x - 12 \in 1..(n + 2) /\ 12 + (x - 12) = x
         /\ ~(x <= 12) /\ ~(x <= n + 14) =>
              x - (n + 14) \in 1..4 /\ n + 14 + (x - (n + 14)) = x
OBVIOUS

LEMMA BeginBytes ==
  ASSUME NEW host \in Seq(Chars), NEW n \in Nat
  PROVE  Begin(host, n) \in Seq(Nat) /\ Len(Begin(host, n)) = Len(host) + 18
<1> DEFINE N == Len(host)
           b == Begin(host, n)
           H == Message!Header(1, n)
           W == Name(host)
<1>1. N \in Nat OBVIOUS
<1>2. H \in Seq(Nat) /\ Len(H) = 12 BY HeaderIs
<1>3. W \in Seq(Nat) /\ Len(W) = N + 2 BY NameIs
<1>4. b = [x \in 1..(N + 18) |->
             IF x <= 12 THEN H[x] ELSE IF x <= N + 14 THEN W[x - 12] ELSE Ending[x - (N + 14)]]
  BY DEF Begin
<1> HIDE DEF b, H, W
<1>5. ASSUME NEW x \in 1..(N + 18) PROVE b[x] \in Nat
  <2>1. CASE x <= 12
    <3>1. x \in 1..12 BY <2>1, <1>1
    <3>2. H[x] \in Nat BY <3>1, <1>2, ElementOfSeq
    <3> QED BY <3>2, <2>1, <1>4
  <2>2. CASE ~(x <= 12) /\ x <= N + 14
    <3>1. x - 12 \in 1..(N + 2) BY <2>2, <1>1
    <3>2. W[x - 12] \in Nat BY <3>1, <1>3
    <3> QED BY <3>2, <2>2, <1>4
  <2>3. CASE ~(x <= 12) /\ ~(x <= N + 14)
    <3>1. x - (N + 14) \in 1..4 BY <2>3, <1>1
    <3>2. Ending[x - (N + 14)] \in Nat BY <3>1 DEF Ending
    <3> QED BY <3>2, <2>3, <1>4
  <2> QED BY <2>1, <2>2, <2>3
<1>6. b = [x \in 1..(N + 18) |-> b[x]] BY <1>4
<1>7. b \in Seq(Nat) /\ Len(b) = N + 18 BY <1>1, <1>5, <1>6
<1> QED BY <1>7 DEF b

\* Three parts make a message up to its records.
LEMMA BeginIs ==
  ASSUME NEW host \in Seq(Chars), NEW n \in Nat, NEW m \in Seq(Nat), Len(m) = Len(host) + 18,
         \A x \in 1..12 : m[x] = Message!Header(1, n)[x],
         \A x \in 1..(Len(host) + 2) : m[12 + x] = Name(host)[x],
         \A x \in 1..4 : m[Len(host) + 14 + x] = Ending[x]
  PROVE  m = Begin(host, n)
<1> DEFINE N == Len(host)
<1>1. N \in Nat OBVIOUS
<1> HIDE DEF N
<1>2. ASSUME NEW x \in 1..(N + 18) PROVE m[x] = Begin(host, n)[x]
  <2>1. CASE x <= 12
    <3>1. x \in 1..12 BY <2>1, <1>1, PartIs
    <3> QED BY <3>1, <2>1 DEF Begin, N
  <2>2. CASE ~(x <= 12) /\ x <= N + 14
    <3>1. x - 12 \in 1..(N + 2) /\ 12 + (x - 12) = x BY <2>2, <1>1, PartIs
    <3>2. m[12 + (x - 12)] = Name(host)[x - 12] BY <3>1 DEF N
    <3> QED BY <3>1, <3>2, <2>2 DEF Begin, N
  <2>3. CASE ~(x <= 12) /\ ~(x <= N + 14)
    <3>1. x - (N + 14) \in 1..4 BY <2>3, <1>1, PartIs
    <3>2. N + 14 + (x - (N + 14)) = x BY <2>3, <1>1, PartIs
    <3>3. m[N + 14 + (x - (N + 14))] = Ending[x - (N + 14)] BY <3>1 DEF N
    <3> QED BY <3>2, <3>3, <2>3 DEF Begin, N
  <2> QED BY <2>1, <2>2, <2>3
<1>3. Begin(host, n) = [x \in 1..(N + 18) |-> Begin(host, n)[x]] BY DEF Begin, N
<1>4. m = [x \in 1..(N + 18) |-> m[x]] BY DEF N
<1> QED BY <1>2, <1>3, <1>4

LEMMA Regrouped ==
  ASSUME NEW s \in Seq(Nat), NEW t \in Seq(Nat), NEW u \in Seq(Nat)
  PROVE  (s \o t) \o u = s \o (t \o u)
OBVIOUS

\* What both clients ask for a proper name
LEMMA RequestIs ==
  ASSUME NEW host \in Seq(Chars), Message!Proper(host), NEW junk
  PROVE  /\ Message!dns_build_request(host, junk) = Begin(host, 0)
         /\ dns = "test5" => Message!test5_build_request(host, junk) = Begin(host, 0)
<1> DEFINE N == Len(host)
           H == Message!Header(1, 0)
           W == Name(host)
           P == Message!PutU16(1)
           T == P \o P
           a == H \o W
           m == a \o T
<1>1. N \in Nat OBVIOUS
<1>2. H \in Seq(Nat) /\ Len(H) = 12 BY HeaderIs
<1>3. W \in Seq(Nat) /\ Len(W) = N + 2 BY NameIs
<1>4. P \in Seq(Nat) /\ Len(P) = 2 /\ P[1] = 0 /\ P[2] = 1
  <2>1. 1 \div 256 = 0 /\ 1 % 256 = 1 OBVIOUS
  <2> QED BY <2>1, PutIs
<1>5. Message!dns_build_request(host, junk) = (a \o P) \o P
  BY NamesWritten DEF Message!dns_build_request
<1>6. dns = "test5" => Message!test5_build_request(host, junk) = m
  BY NamesWritten DEF Message!test5_build_request
<1> HIDE DEF H, W, P
<1>7. T \in Seq(Nat) /\ Len(T) = 4 /\ \A x \in 1..4 : T[x] = Ending[x]
  <2>1. /\ T \in Seq(Nat) /\ Len(T) = Len(P) + 2 /\ T[Len(P) + 1] = P[1] /\ T[Len(P) + 2] = P[2]
        /\ \A x \in 1..Len(P) : T[x] = P[x]
    BY <1>4, PairBehind
  <2> HIDE DEF T
  <2>2. T[1] = 0 /\ T[2] = 1 /\ T[3] = 0 /\ T[4] = 1 BY <1>4, <2>1
  <2>3. Ending[1] = 0 /\ Ending[2] = 1 /\ Ending[3] = 0 /\ Ending[4] = 1 BY DEF Ending
  <2>4. \A x \in 1..4 : x = 1 \/ x = 2 \/ x = 3 \/ x = 4 OBVIOUS
  <2>5. \A x \in 1..4 : T[x] = Ending[x] BY <2>2, <2>3, <2>4
  <2> QED BY <1>4, <2>1, <2>5
<1>8. /\ a \in Seq(Nat) /\ Len(a) = N + 14
      /\ \A x \in 1..(N + 14) : a[x] = IF x <= 12 THEN H[x] ELSE W[x - 12]
  <2>1. /\ a \in Seq(Nat) /\ Len(a) = Len(H) + Len(W)
        /\ \A x \in 1..(Len(H) + Len(W)) : a[x] = IF x <= Len(H) THEN H[x] ELSE W[x - Len(H)]
    BY <1>2, <1>3, ConcatIs
  <2>2. Len(H) + Len(W) = N + 14 BY <1>1, <1>2, <1>3
  <2> HIDE DEF a
  <2> QED BY <1>2, <2>1, <2>2
<1>9. (a \o P) \o P = m
  <2> HIDE DEF a
  <2> QED BY <1>4, <1>8, Regrouped
<1> HIDE DEF a, T
<1>10. /\ m \in Seq(Nat) /\ Len(m) = N + 18
       /\ \A x \in 1..(N + 18) : m[x] = IF x <= N + 14 THEN a[x] ELSE T[x - (N + 14)]
  <2>1. /\ m \in Seq(Nat) /\ Len(m) = Len(a) + Len(T)
        /\ \A x \in 1..(Len(a) + Len(T)) : m[x] = IF x <= Len(a) THEN a[x] ELSE T[x - Len(a)]
    BY <1>7, <1>8, ConcatIs
  <2>2. Len(a) + Len(T) = N + 18 BY <1>1, <1>7, <1>8
  <2> HIDE DEF m
  <2> QED BY <1>8, <2>1, <2>2
<1> HIDE DEF m
<1>12. ASSUME NEW x \in 1..12 PROVE m[x] = H[x]
  <2>1. x \in 1..(N + 14) /\ x <= 12 /\ x <= N + 14 /\ x \in 1..(N + 18) BY <1>1
  <2> QED BY <2>1, <1>8, <1>10
<1>13. ASSUME NEW x \in 1..(N + 2) PROVE m[12 + x] = W[x]
  <2>1. /\ 12 + x \in 1..(N + 14) /\ ~(12 + x <= 12) /\ 12 + x <= N + 14
        /\ 12 + x \in 1..(N + 18) /\ 12 + x - 12 = x
    BY <1>1
  <2>2. m[12 + x] = a[12 + x] BY <2>1, <1>10
  <2>3. a[12 + x] = W[12 + x - 12] BY <2>1, <1>8
  <2> QED BY <2>1, <2>2, <2>3
<1>14. ASSUME NEW x \in 1..4 PROVE m[N + 14 + x] = Ending[x]
  <2>1. ~(N + 14 + x <= N + 14) /\ N + 14 + x \in 1..(N + 18) /\ N + 14 + x - (N + 14) = x
    BY <1>1
  <2>2. m[N + 14 + x] = T[N + 14 + x - (N + 14)] BY <2>1, <1>10
  <2> QED BY <2>1, <2>2, <1>7
<1>15. m = Begin(host, 0) BY <1>10, <1>12, <1>13, <1>14, BeginIs DEF H, W
<1> QED BY <1>5, <1>6, <1>9, <1>15

\* What the server sends before its records
LEMMA ResponseIs ==
  ASSUME NEW host \in Seq(Chars), NEW n \in Nat
  PROVE  Message!Header(1, n) \o Message!Question(Begin(host, 0)) = Begin(host, n)
<1> DEFINE N == Len(host)
           H == Message!Header(1, n)
           b == Begin(host, 0)
           s == SubSeq(b, 13, N + 18)
           m == H \o s
<1>1. N \in Nat OBVIOUS
<1>2. H \in Seq(Nat) /\ Len(H) = 12 BY HeaderIs
<1>3. b \in Seq(Nat) /\ Len(b) = N + 18 BY BeginBytes
<1>4. \A x \in 1..(N + 2) : b[12 + x] = Name(host)[x]
  <2>1. \A x \in 1..(N + 2) : 12 + x \in 1..(N + 18) /\ ~(12 + x <= 12) /\ 12 + x <= N + 14 /\ 12 + x - 12 = x
    BY <1>1
  <2> QED BY <2>1 DEF Begin
<1>5. \A x \in 1..4 : b[N + 14 + x] = Ending[x]
  <2>1. \A x \in 1..4 : /\ N + 14 + x \in 1..(N + 18) /\ ~(N + 14 + x <= 12)
                        /\ ~(N + 14 + x <= N + 14) /\ N + 14 + x - (N + 14) = x
    BY <1>1
  <2> QED BY <2>1 DEF Begin
<1>6. Message!Question(b) = s BY <1>3 DEF Message!Question, Message!HeaderSize
<1> HIDE DEF H, b
<1>7. s \in Seq(Nat) /\ Len(s) = N + 6 /\ \A x \in 1..(N + 6) : s[x] = b[12 + x]
  BY <1>1, <1>3
<1> HIDE DEF s
<1>8. /\ m \in Seq(Nat) /\ Len(m) = Len(H) + Len(s)
      /\ \A x \in 1..(Len(H) + Len(s)) : m[x] = IF x <= Len(H) THEN H[x] ELSE s[x - Len(H)]
  BY <1>2, <1>7, ConcatIs
<1> HIDE DEF m
<1>9. Len(m) = N + 18 BY <1>1, <1>2, <1>7, <1>8
<1>10. ASSUME NEW x \in 1..12 PROVE m[x] = H[x]
  <2>1. x \in 1..(Len(H) + Len(s)) /\ x <= Len(H) BY <1>1, <1>2, <1>7
  <2> QED BY <2>1, <1>8
<1>11. ASSUME NEW x \in 1..(N + 6) PROVE m[12 + x] = b[12 + x]
  <2>1. 12 + x \in 1..(Len(H) + Len(s)) /\ ~(12 + x <= Len(H)) /\ 12 + x - Len(H) = x BY <1>1, <1>2, <1>7
  <2> QED BY <2>1, <1>7, <1>8, SMTT(30)
<1>12. ASSUME NEW x \in 1..(N + 2) PROVE m[12 + x] = Name(host)[x]
  <2>1. x \in 1..(N + 6) BY <1>1
  <2> QED BY <2>1, <1>4, <1>11
<1>13. ASSUME NEW x \in 1..4 PROVE m[N + 14 + x] = Ending[x]
  <2>1. N + 2 + x \in 1..(N + 6) /\ 12 + (N + 2 + x) = N + 14 + x BY <1>1
  <2>2. m[12 + (N + 2 + x)] = b[12 + (N + 2 + x)] BY <2>1, <1>11
  <2> QED BY <2>1, <2>2, <1>5
<1>14. m = Begin(host, n) BY <1>8, <1>9, <1>10, <1>12, <1>13, BeginIs DEF H
<1> QED BY <1>6, <1>14 DEF m, H, b

\* A message about host with n records.
Starts(m, host, n) ==
  /\ m \in Seq(Nat) /\ Len(m) >= Len(host) + 18
  /\ Message!U16(m, 4) = 1 /\ Message!U16(m, 6) = n
  /\ \A x \in 1..(Len(host) + 2) : Message!At(m, 11 + x) = Name(host)[x]
  /\ Message!U16(m, Len(host) + 14) = 1 /\ Message!U16(m, Len(host) + 16) = 1

LEMMA AtIs ==
  ASSUME NEW m \in Seq(Nat), NEW p \in Nat
  PROVE  Message!At(m, p) \in Nat /\ (p < Len(m) => Message!At(m, p) = m[p + 1])
<1>1. p < Len(m) => p + 1 \in 1..Len(m) OBVIOUS
<1>2. p < Len(m) => m[p + 1] \in Nat BY <1>1, ElementOfSeq
<1> QED BY <1>2 DEF Message!At

LEMMA BeginStarts ==
  ASSUME NEW host \in Seq(Chars), NEW n \in Nat, NEW E \in Seq(Nat)
  PROVE  /\ Starts(Begin(host, n) \o E, host, n)
         /\ Len(Begin(host, n) \o E) = Len(host) + 18 + Len(E)
         /\ \A x \in 1..Len(E) : Message!At(Begin(host, n) \o E, Len(host) + 17 + x) = E[x]
<1> DEFINE N == Len(host)
           b == Begin(host, n)
           m == b \o E
<1>1. N \in Nat /\ Len(E) \in Nat OBVIOUS
<1>2. b \in Seq(Nat) /\ Len(b) = N + 18 BY BeginBytes
<1>3. /\ m \in Seq(Nat) /\ Len(m) = N + 18 + Len(E)
      /\ \A x \in 1..(N + 18 + Len(E)) : m[x] = IF x <= N + 18 THEN b[x] ELSE E[x - (N + 18)]
  <2>1. /\ m \in Seq(Nat) /\ Len(m) = Len(b) + Len(E)
        /\ \A x \in 1..(Len(b) + Len(E)) : m[x] = IF x <= Len(b) THEN b[x] ELSE E[x - Len(b)]
    BY <1>2, ConcatIs
  <2> HIDE DEF m, b
  <2> QED BY <1>2, <2>1
<1> HIDE DEF m, b
<1>4. ASSUME NEW p \in Nat, p < N + 18 PROVE Message!At(m, p) = b[p + 1]
  <2>1. p < Len(m) /\ p + 1 \in 1..(N + 18 + Len(E)) /\ p + 1 <= N + 18 BY <1>1, <1>3, <1>4
  <2>2. Message!At(m, p) = m[p + 1] BY <2>1, <1>3, AtIs
  <2> QED BY <2>1, <2>2, <1>3
<1>5. ASSUME NEW x \in 1..Len(E) PROVE Message!At(m, N + 17 + x) = E[x]
  <2>1. /\ N + 17 + x \in Nat /\ N + 17 + x < Len(m) /\ N + 17 + x + 1 \in 1..(N + 18 + Len(E))
        /\ ~(N + 17 + x + 1 <= N + 18) /\ N + 17 + x + 1 - (N + 18) = x
    BY <1>1, <1>3
  <2>2. Message!At(m, N + 17 + x) = m[N + 17 + x + 1] BY <2>1, <1>3, AtIs
  <2>3. m[N + 17 + x + 1] = E[N + 17 + x + 1 - (N + 18)] BY <2>1, <1>3, SMTT(30)
  <2> QED BY <2>1, <2>2, <2>3
<1> DEFINE H == Message!Header(1, n)
<1>6. ASSUME NEW p \in 0..11 PROVE Message!At(m, p) = H[p + 1]
  <2>1. p \in Nat /\ p < N + 18 /\ p + 1 \in 1..(N + 18) /\ p + 1 <= 12 BY <1>1
  <2>2. b[p + 1] = H[p + 1] BY <2>1 DEF b, Begin
  <2> QED BY <2>1, <2>2, <1>4
<1>7. Message!U16(m, 4) = 1 /\ Message!U16(m, 6) = n
  <2>1. Message!U16(H, 4) = 1 /\ Message!U16(H, 6) = n BY HeaderCounts
  <2>2. H \in Seq(Nat) /\ Len(H) = 12 BY HeaderIs
  <2> HIDE DEF H
  <2>3. ASSUME NEW p \in 0..11 PROVE Message!At(m, p) = Message!At(H, p)
    <3>1. p \in Nat /\ p < 12 OBVIOUS
    <3>2. Message!At(H, p) = H[p + 1] BY <2>2, <3>1, AtIs
    <3> QED BY <3>2, <1>6
  <2>4. 4 \in 0..11 /\ 4 + 1 \in 0..11 /\ 6 \in 0..11 /\ 6 + 1 \in 0..11 OBVIOUS
  <2>5. Message!At(m, 4) = Message!At(H, 4) /\ Message!At(m, 4 + 1) = Message!At(H, 4 + 1)
        /\ Message!At(m, 6) = Message!At(H, 6) /\ Message!At(m, 6 + 1) = Message!At(H, 6 + 1)
    BY <2>3, <2>4
  <2> QED BY <2>1, <2>5 DEF Message!U16
<1>8. ASSUME NEW x \in 1..(N + 2) PROVE Message!At(m, 11 + x) = Name(host)[x]
  <2>1. /\ 11 + x \in Nat /\ 11 + x < N + 18 /\ 11 + x + 1 \in 1..(N + 18) /\ ~(11 + x + 1 <= 12)
        /\ 11 + x + 1 <= N + 14 /\ 11 + x + 1 - 12 = x
    BY <1>1
  <2>2. b[11 + x + 1] = Name(host)[11 + x + 1 - 12] BY <2>1 DEF b, Begin
  <2> QED BY <2>1, <2>2, <1>4
<1>9. ASSUME NEW x \in 1..4 PROVE Message!At(m, N + 13 + x) = Ending[x]
  <2>1. /\ N + 13 + x \in Nat /\ N + 13 + x < N + 18 /\ N + 13 + x + 1 \in 1..(N + 18)
        /\ ~(N + 13 + x + 1 <= 12) /\ ~(N + 13 + x + 1 <= N + 14) /\ N + 13 + x + 1 - (N + 14) = x
    BY <1>1
  <2>2. b[N + 13 + x + 1] = Ending[N + 13 + x + 1 - (N + 14)] BY <2>1 DEF b, Begin
  <2> QED BY <2>1, <2>2, <1>4
<1>10. Message!U16(m, N + 14) = 1 /\ Message!U16(m, N + 16) = 1
  <2>1. N + 13 + 1 = N + 14 /\ N + 13 + 2 = N + 14 + 1 /\ N + 13 + 3 = N + 16 /\ N + 13 + 4 = N + 16 + 1
    BY <1>1
  <2>2. /\ Message!At(m, N + 13 + 1) = Ending[1] /\ Message!At(m, N + 13 + 2) = Ending[2]
        /\ Message!At(m, N + 13 + 3) = Ending[3] /\ Message!At(m, N + 13 + 4) = Ending[4]
    BY <1>9
  <2>3. /\ Message!At(m, N + 14) = 0 /\ Message!At(m, N + 14 + 1) = 1
        /\ Message!At(m, N + 16) = 0 /\ Message!At(m, N + 16 + 1) = 1
    BY <2>1, <2>2 DEF Ending
  <2> QED BY <2>3 DEF Message!U16
<1>11. Len(m) >= N + 18 BY <1>1, <1>3
<1> QED BY <1>3, <1>5, <1>7, <1>8, <1>10, <1>11 DEF Starts, m, b

LEMMA BeginIsWhole ==
  ASSUME NEW host \in Seq(Chars), NEW n \in Nat
  PROVE  Begin(host, n) \o <<>> = Begin(host, n) /\ Starts(Begin(host, n), host, n)
<1>1. Begin(host, n) \in Seq(Nat) BY BeginBytes
<1> DEFINE b == Begin(host, n)
<1>2. b \o <<>> = b
  <2> HIDE DEF b
  <2>1. b \in Seq(Nat) BY <1>1 DEF b
  <2> QED BY <2>1
<1>3. <<>> \in Seq(Nat) OBVIOUS
<1>4. Starts(b \o <<>>, host, n) BY <1>3, BeginStarts
<1> QED BY <1>2, <1>4

-----------------------------------------------------------------------------
(* Names in a message *)

Places == Nat

\* The loop that passes over the name of the question
LEMMA EnoughIs ==
  ASSUME NEW m \in Seq(Nat)
  PROVE  Message!Enough(m) \in Nat /\ 2 * Message!Enough(m) + 1 >= Len(m)
<1>1. Len(m) \in Nat OBVIOUS
<1> QED BY <1>1 DEF Message!Enough

LEMMA SkipLoop ==
  ASSUME NEW m \in Seq(Nat), NEW ptr \in Places
  PROVE  \E f \in [0..Message!Enough(m) -> Places] :
           /\ f[0] = ptr
           /\ \A k \in 1..Message!Enough(m) : f[k] = Message!SkipLabel(m, f[k - 1])
           /\ Message!SkipName(m, ptr) = f[Message!Enough(m)] + 1
<1> DEFINE N == Message!Enough(m)
           start == ptr
           G(g) == [k \in 0..N |-> IF k = 0 THEN start ELSE Message!SkipLabel(m, g[k - 1])]
           F == [k \in 1..N |-> [q \in Places |-> Message!SkipLabel(m, q)]]
           h == Turns(Places, start, F, N)
           f == CHOOSE g : g = G(g)
<1>1. N \in Nat /\ start \in Places BY EnoughIs
<1>2. ASSUME NEW k \in 1..N, NEW q \in Places PROVE Message!SkipLabel(m, q) \in Places
  <2>1. q \in Nat BY DEF Places
  <2>2. Message!At(m, q) \in Nat BY <2>1, AtIs
  <2> QED BY <2>1, <2>2 DEF Message!SkipLabel, Places
<1>3. F \in [1..N -> [Places -> Places]] BY <1>2
<1>4. Message!SkipName(m, ptr) = f[Message!Enough(m)] + 1 BY Zenon DEF Message!SkipName, f
<1> HIDE DEF N, start
<1>5. h \in [0..N -> Places] /\ h[0] = start /\ \A k \in 1..N : h[k] = F[k][h[k - 1]]
  <2> HIDE DEF F
  <2>1. h \in [0..N -> Places] BY <1>1, <1>3, TurnsAre
  <2>2. h[0] = start BY <1>1, <1>3, TurnsAre
  <2>3. ASSUME NEW k \in 1..N PROVE h[k] = F[k][h[k - 1]] BY <1>1, <1>3, TurnIs
  <2> QED BY <2>1, <2>2, <2>3
<1> HIDE DEF h
<1>6. h = G(h)
  <2>1. ASSUME NEW k \in 0..N PROVE h[k] = G(h)[k]
    <3>1. CASE k = 0 BY <3>1, <1>5
    <3>2. CASE k # 0
      <4>1. k \in 1..N /\ k - 1 \in 0..N BY <3>2, <1>1
      <4>2. h[k] = F[k][h[k - 1]] /\ h[k - 1] \in Places BY <4>1, <1>5
      <4> QED BY <4>1, <4>2, <3>2
    <3> QED BY <3>1, <3>2
  <2>2. h = [k \in 0..N |-> h[k]] /\ G(h) = [k \in 0..N |-> G(h)[k]] BY <1>5
  <2> HIDE DEF G
  <2> QED BY <2>1, <2>2
<1>7. f = G(f)
  <2> HIDE DEF G
  <2> QED BY <1>6
<1> HIDE DEF f, F
<1>8. f[0] = start /\ \A k \in 1..N : f[k] = Message!SkipLabel(m, f[k - 1])
  <2>1. ASSUME NEW k \in 0..N
        PROVE  f[k] = IF k = 0 THEN start ELSE Message!SkipLabel(m, f[k - 1])
    BY <1>7
  <2>2. 0 \in 0..N /\ \A k \in 1..N : k \in 0..N /\ k # 0 BY <1>1
  <2> QED BY <2>1, <2>2
<1>9. f \in [0..N -> Places]
  <2> DEFINE Good == {k \in 0..N : f[k] \in Places}
  <2>1. 0 \in Good BY <1>1, <1>8
  <2>2. ASSUME NEW k \in 1..N, k - 1 \in Good PROVE k \in Good
    <3>1. f[k] = Message!SkipLabel(m, f[k - 1]) /\ f[k - 1] \in Places BY <1>8, <2>2
    <3>2. f[k] \in Places BY <3>1, <1>2
    <3> QED BY <3>2, <1>1
  <2>3. Good \in SUBSET Nat BY <1>1
  <2> HIDE DEF Good
  <2>4. \A k \in 0..N : k \in Good BY <1>1, <2>1, <2>2, <2>3, UpTo
  <2>5. \A k \in 0..N : f[k] \in Places BY <2>4 DEF Good
  <2>6. f = [k \in 0..N |-> f[k]] BY <1>7
  <2> QED BY <2>5, <2>6
<1> QED BY <1>4, <1>8, <1>9 DEF N, start

\* A label in a message, from position 11 + i on
LabelIn(m, host, i) ==
  LET e == Message!LabelEnd(host, i) IN
  /\ i \in Nat /\ i > 0 /\ i <= Len(host) + 2 /\ 11 + i \in Nat
  /\ i = Len(host) + 2 => Message!At(m, 11 + i) = 0
  /\ i # Len(host) + 2 =>
       /\ i \in 1..Len(host) /\ e \in Nat /\ i < e /\ e <= Len(host) + 1 /\ Stop(host, e + 1)
       /\ Message!At(m, 11 + i) = e - i
       /\ \A t \in 1..(e - i) : Message!At(m, 11 + (i + t)) = host[i + t - 1]
       /\ e <= Len(host) => host[e] = 46

LEMMA LabelAt ==
  ASSUME NEW host \in Seq(Chars), Message!Proper(host), NEW m, NEW n, Starts(m, host, n),
         NEW i, Stop(host, i)
  PROVE  LabelIn(m, host, i)
<1> DEFINE N == Len(host)
           e == Message!LabelEnd(host, i)
<1>1. N \in Nat OBVIOUS
<1>2. \A x \in 1..(N + 2) : Message!At(m, 11 + x) = Name(host)[x] BY DEF Starts
<1>3. i = N + 2 \/ (i \in 1..N /\ Message!LabelStart(host, i)) BY DEF Stop
<1>4. i \in Nat /\ i > 0 /\ i <= N + 2 /\ i \in 1..(N + 2) /\ 11 + i \in Nat BY <1>1, <1>3
<1>5. i = N + 2 => Name(host)[i] = 0 BY <1>4 DEF Name
<1>6. ASSUME i # N + 2
      PROVE  /\ i \in 1..N /\ e \in Nat /\ i < e /\ e <= N + 1 /\ Stop(host, e + 1)
             /\ Message!At(m, 11 + i) = e - i
             /\ \A t \in 1..(e - i) : Message!At(m, 11 + (i + t)) = host[i + t - 1]
             /\ e <= N => host[e] = 46
  <2>1. i \in 1..N /\ Message!LabelStart(host, i) BY <1>3, <1>6
  <2>2. /\ e \in Nat /\ i < e /\ e <= N + 1 /\ Stop(host, e + 1)
        /\ Name(host)[i] = e - i
        /\ \A t \in 1..(e - i) : i + t \in 1..(N + 2) /\ Name(host)[i + t] = host[i + t - 1]
        /\ e <= N => host[e] = 46
    BY <2>1, LabelIs
  <2>3. Message!At(m, 11 + i) = e - i BY <1>2, <1>4, <2>2
  <2> HIDE DEF e
  <2>4. \A t \in 1..(e - i) : Message!At(m, 11 + (i + t)) = host[i + t - 1] BY <1>2, <2>2
  <2> QED BY <2>1, <2>2, <2>3, <2>4
<1> HIDE DEF e
<1>7. i = N + 2 => Message!At(m, 11 + i) = 0 BY <1>2, <1>4, <1>5
<1> QED BY <1>4, <1>6, <1>7 DEF e, LabelIn

LEMMA NameSkipped ==
  ASSUME NEW host \in Seq(Chars), Message!Proper(host), NEW m, NEW n, Starts(m, host, n)
  PROVE  Message!SkipName(m, 12) = Len(host) + 14
<1> DEFINE N == Len(host)
           E == Message!Enough(m)
<1>1. N \in Nat /\ N # 0
  <2>1. host # <<>> BY DEF Message!Proper
  <2> QED BY <2>1
<1>2. m \in Seq(Nat) /\ E \in Nat /\ 2 * E + 1 >= N + 18
  <2>1. m \in Seq(Nat) /\ Len(m) \in Nat /\ Len(m) >= N + 18 BY DEF Starts
  <2>2. E \in Nat /\ 2 * E + 1 >= Len(m) BY <2>1, EnoughIs
  <2> QED BY <1>1, <2>1, <2>2
<1> HIDE DEF E
<1>3. PICK f \in [0..E -> Places] :
        /\ f[0] = 12 /\ \A k \in 1..E : f[k] = Message!SkipLabel(m, f[k - 1])
        /\ Message!SkipName(m, 12) = f[E] + 1
  <2>1. 12 \in Places BY DEF Places
  <2> QED BY <1>2, <2>1, SkipLoop DEF E
<1> DEFINE Inv(k) == \E i \in Nat : f[k] = 11 + i /\ Stop(host, i) /\ (i = N + 2 \/ i > 2 * k)
           Good == {k \in 0..E : Inv(k)}
<1>4. Inv(0)
  <2>1. Stop(host, 1) BY <1>1 DEF Stop, Message!LabelStart
  <2> QED BY <2>1, <1>3
<1>5. ASSUME NEW k \in 1..E, Inv(k - 1) PROVE Inv(k)
  <2>1. PICK i \in Nat : f[k - 1] = 11 + i /\ Stop(host, i) /\ (i = N + 2 \/ i > 2 * (k - 1)) BY <1>5
  <2>2. f[k] = Message!SkipLabel(m, 11 + i)
    <3>1. f[k] = Message!SkipLabel(m, f[k - 1]) BY <1>3
    <3> QED BY <3>1, <2>1
  <2>5. LabelIn(m, host, i)
    <3>1. Stop(host, i) BY <2>1
    <3> QED BY <3>1, LabelAt
  <2>3. CASE i = N + 2
    <3>1. i = N + 2 => Message!At(m, 11 + i) = 0 BY <2>5 DEF LabelIn
    <3>2. f[k] = 11 + i BY <3>1, <2>2, <2>3 DEF Message!SkipLabel
    <3> QED BY <3>2, <2>1, <2>3
  <2>4. CASE i # N + 2
    <3> DEFINE e == Message!LabelEnd(host, i)
    <3>1. e \in Nat /\ i < e /\ Stop(host, e + 1) /\ Message!At(m, 11 + i) = e - i
      BY <2>4, <2>5 DEF LabelIn
    <3> HIDE DEF e
    <3>2. f[k] = 11 + i + (e - i) + 1 BY <3>1, <2>2 DEF Message!SkipLabel
    <3>3. f[k] = 11 + (e + 1) /\ e + 1 \in Nat /\ e + 1 > 2 * k BY <3>1, <3>2, <2>1, <2>4
    <3> QED BY <3>1, <3>3
  <2> QED BY <2>3, <2>4
<1> HIDE DEF Inv
<1>6. 0 \in Good /\ Good \in SUBSET Nat BY <1>2, <1>4
<1>7. \A k \in 1..E : k - 1 \in Good => k \in Good BY <1>2, <1>5
<1> HIDE DEF Good
<1>8. \A k \in 0..E : k \in Good BY <1>2, <1>6, <1>7, UpTo
<1>9. Inv(E) BY <1>2, <1>8 DEF Good
<1>10. PICK i \in Nat : f[E] = 11 + i /\ Stop(host, i) /\ (i = N + 2 \/ i > 2 * E)
  BY <1>9 DEF Inv
<1>11. i <= N + 2 BY <1>1, <1>10 DEF Stop
<1>12. i = N + 2 BY <1>1, <1>2, <1>10, <1>11
<1> QED BY <1>1, <1>3, <1>10, <1>12

\* The server accepts a proper name's question.
LEMMA BeginWellFormed ==
  ASSUME NEW host \in Seq(Chars), Message!Proper(host)
  PROVE  Message!WellFormed(Begin(host, 0))
<1> DEFINE N == Len(host)
           m == Begin(host, 0)
<1>1. N \in Nat /\ N # 0
  <2>1. host # <<>> BY DEF Message!Proper
  <2> QED BY <2>1
<1>2. Starts(m, host, 0) BY BeginIsWhole
<1>3. Len(m) = N + 18 BY BeginBytes
<1>4. Stop(host, 1) /\ 1 # N + 2 BY <1>1 DEF Stop, Message!LabelStart
<1>5. Message!At(m, 12) # 0
  <2>1. /\ Message!LabelEnd(host, 1) \in Nat /\ 1 < Message!LabelEnd(host, 1)
        /\ Message!At(m, 11 + 1) = Message!LabelEnd(host, 1) - 1
    <3>1. LabelIn(m, host, 1) BY <1>2, <1>4, LabelAt
    <3> QED BY <3>1, <1>4 DEF LabelIn
  <2> QED BY <2>1
<1>6. Message!SkipName(m, 12) = N + 14 BY <1>2, NameSkipped
<1>7. Message!U16(m, N + 14) = 1 /\ Message!U16(m, N + 16) = 1 BY <1>2 DEF Starts
<1> HIDE DEF m
<1>8. Len(m) - 4 = N + 14 /\ Len(m) - 2 = N + 16 /\ Message!SkipName(m, 12) + 4 = Len(m)
  BY <1>1, <1>3, <1>6
<1>9. Message!WellFormed(m) BY <1>5, <1>7, <1>8 DEF Message!WellFormed, Message!HeaderSize
<1> QED BY <1>9 DEF m

LEMMA FirstRecordIs ==
  ASSUME NEW host \in Seq(Chars), Message!Proper(host), NEW m, NEW n, Starts(m, host, n)
  PROVE  Message!FirstRecord(m) = Len(host) + 18
<1>1. Message!U16(m, 4) = 1 /\ Len(host) \in Nat BY DEF Starts
<1>2. Message!SkipName(m, 12) = Len(host) + 14 BY NameSkipped
<1> QED BY <1>1, <1>2 DEF Message!FirstRecord, Message!HeaderSize

LEMMA BytesAre ==
  ASSUME NEW m \in Seq(Nat), NEW p \in Nat, NEW n \in Nat
  PROVE  /\ Message!Bytes(m, p, n) \in Seq(Nat) /\ Len(Message!Bytes(m, p, n)) = n
         /\ \A i \in 1..n : Message!Bytes(m, p, n)[i] = Message!At(m, p + i - 1)
<1> DEFINE b == Message!Bytes(m, p, n)
<1>1. b = [i \in 1..n |-> Message!At(m, p + i - 1)] BY DEF Message!Bytes
<1>2. ASSUME NEW i \in 1..n PROVE Message!At(m, p + i - 1) \in Nat
  <2>1. p + i - 1 \in Nat OBVIOUS
  <2> QED BY <2>1, AtIs
<1> HIDE DEF b
<1>3. b \in [1..n -> Nat] BY <1>1, <1>2
<1>4. b \in Seq(Nat) /\ Len(b) = n BY <1>3
<1>5. \A i \in 1..n : b[i] = Message!At(m, p + i - 1) BY <1>1
<1> QED BY <1>4, <1>5 DEF b

Reads == [ptr : Nat, out : Seq(Nat)]

\* What a turn of dns_parse_name does
Parsed(m, q) ==
  LET flag == Message!At(m, q.ptr)  after == q.ptr + 1 + flag IN
  /\ flag = 0 => Message!ParseLabel(m, q) = q
  /\ flag >= 192 =>
       Message!ParseLabel(m, q) = [ptr |-> Message!At(m, q.ptr + 1), out |-> q.out]
  /\ flag # 0 /\ flag < 192 =>
       Message!ParseLabel(m, q) =
         [ptr |-> after,
          out |-> q.out \o Message!Bytes(m, q.ptr + 1, flag)
                        \o (IF Message!At(m, after) # 0 THEN <<46>> ELSE <<>>)]
  /\ flag \in Nat /\ after \in Nat /\ q.ptr \in Nat /\ q.ptr + 1 \in Nat
  /\ Message!ParseLabel(m, q) \in Reads

LEMMA ParseLabelIs == ASSUME NEW m \in Seq(Nat), NEW q \in Reads PROVE Parsed(m, q)
<1> DEFINE flag == Message!At(m, q.ptr)
           after == q.ptr + 1 + flag
           b == Message!Bytes(m, q.ptr + 1, flag)
           d == IF Message!At(m, after) # 0 THEN <<46>> ELSE <<>>
<1>1. q.ptr \in Nat /\ q.out \in Seq(Nat) /\ q.ptr + 1 \in Nat BY DEF Reads
<1>2. flag \in Nat BY <1>1, AtIs
<1>3. after \in Nat BY <1>1, <1>2
<1>4. Message!At(m, q.ptr + 1) \in Nat BY <1>1, AtIs
<1>5. b \in Seq(Nat) BY <1>1, <1>2, BytesAre
<1>6. d \in Seq(Nat) OBVIOUS
<1>7. flag = 0 => Message!ParseLabel(m, q) = q
  <2>1. flag = 0 => ~(flag >= 192) OBVIOUS
  <2> QED BY <2>1 DEF Message!ParseLabel, Message!Pointer
<1>8. flag >= 192 =>
        Message!ParseLabel(m, q) = [ptr |-> Message!At(m, q.ptr + 1), out |-> q.out]
  <2>1. flag >= 192 => flag # 0 BY <1>2
  <2> QED BY <2>1 DEF Message!ParseLabel, Message!Pointer
<1>9. flag # 0 /\ flag < 192 => Message!ParseLabel(m, q) = [ptr |-> after, out |-> q.out \o b \o d]
  <2>1. flag < 192 => ~(flag >= 192) BY <1>2
  <2> QED BY <2>1 DEF Message!ParseLabel, Message!Pointer, Message!Dot
<1> HIDE DEF flag, after, b, d
<1>10. q.out \o b \o d \in Seq(Nat)
  <2>1. q.out \o b \in Seq(Nat) BY <1>1, <1>5
  <2> QED BY <2>1, <1>6
<1>11. /\ [ptr |-> Message!At(m, q.ptr + 1), out |-> q.out] \in Reads
       /\ [ptr |-> after, out |-> q.out \o b \o d] \in Reads
  BY <1>1, <1>3, <1>4, <1>10 DEF Reads
<1>12. flag = 0 \/ flag >= 192 \/ (flag # 0 /\ flag < 192) BY <1>2
<1>13. Message!ParseLabel(m, q) \in Reads BY <1>7, <1>8, <1>9, <1>11, <1>12
<1> QED BY <1>1, <1>2, <1>3, <1>7, <1>8, <1>9, <1>13 DEF flag, after, b, d, Parsed

\* The loop of dns_parse_name
LEMMA ParseLoop ==
  ASSUME NEW m \in Seq(Nat), NEW ptr \in Nat
  PROVE  \E f \in [0..Message!Enough(m) -> Reads] :
           /\ f[0] = [ptr |-> ptr, out |-> <<>>]
           /\ \A k \in 1..Message!Enough(m) : f[k] = Message!ParseLabel(m, f[k - 1])
           /\ Message!dns_parse_name(m, ptr) = f[Message!Enough(m)].out
<1> DEFINE N == Message!Enough(m)
           start == [ptr |-> ptr, out |-> <<>>]
           G(g) == [k \in 0..N |-> IF k = 0 THEN start ELSE Message!ParseLabel(m, g[k - 1])]
           F == [k \in 1..N |-> [q \in Reads |-> Message!ParseLabel(m, q)]]
           h == Turns(Reads, start, F, N)
           f == CHOOSE g : g = G(g)
<1>1. N \in Nat /\ start \in Reads BY EnoughIs DEF Reads
<1>2. ASSUME NEW k \in 1..N, NEW q \in Reads PROVE Message!ParseLabel(m, q) \in Reads
  BY ParseLabelIs DEF Parsed
<1>3. F \in [1..N -> [Reads -> Reads]] BY <1>2
<1>4. Message!dns_parse_name(m, ptr) = f[Message!Enough(m)].out BY Zenon DEF Message!dns_parse_name, f
<1> HIDE DEF N, start
<1>5. h \in [0..N -> Reads] /\ h[0] = start /\ \A k \in 1..N : h[k] = F[k][h[k - 1]]
  <2> HIDE DEF F
  <2>1. h \in [0..N -> Reads] BY <1>1, <1>3, TurnsAre
  <2>2. h[0] = start BY <1>1, <1>3, TurnsAre
  <2>3. ASSUME NEW k \in 1..N PROVE h[k] = F[k][h[k - 1]] BY <1>1, <1>3, TurnIs
  <2> QED BY <2>1, <2>2, <2>3
<1> HIDE DEF h
<1>6. h = G(h)
  <2>1. ASSUME NEW k \in 0..N PROVE h[k] = G(h)[k]
    <3>1. CASE k = 0 BY <3>1, <1>5
    <3>2. CASE k # 0
      <4>1. k \in 1..N /\ k - 1 \in 0..N BY <3>2, <1>1
      <4>2. h[k] = F[k][h[k - 1]] /\ h[k - 1] \in Reads BY <4>1, <1>5
      <4> QED BY <4>1, <4>2, <3>2
    <3> QED BY <3>1, <3>2
  <2>2. h = [k \in 0..N |-> h[k]] /\ G(h) = [k \in 0..N |-> G(h)[k]] BY <1>5
  <2> HIDE DEF G
  <2> QED BY <2>1, <2>2
<1>7. f = G(f)
  <2> HIDE DEF G
  <2> QED BY <1>6
<1> HIDE DEF f, F
<1>8. f[0] = start /\ \A k \in 1..N : f[k] = Message!ParseLabel(m, f[k - 1])
  <2>1. ASSUME NEW k \in 0..N
        PROVE  f[k] = IF k = 0 THEN start ELSE Message!ParseLabel(m, f[k - 1])
    BY <1>7
  <2>2. 0 \in 0..N /\ \A k \in 1..N : k \in 0..N /\ k # 0 BY <1>1
  <2> QED BY <2>1, <2>2
<1>9. f \in [0..N -> Reads]
  <2> DEFINE Good == {k \in 0..N : f[k] \in Reads}
  <2>1. 0 \in Good BY <1>1, <1>8
  <2>2. ASSUME NEW k \in 1..N, k - 1 \in Good PROVE k \in Good
    <3>1. f[k] = Message!ParseLabel(m, f[k - 1]) /\ f[k - 1] \in Reads BY <1>8, <2>2
    <3>2. f[k] \in Reads BY <3>1, <1>2
    <3> QED BY <3>2, <1>1
  <2>3. Good \in SUBSET Nat BY <1>1
  <2> HIDE DEF Good
  <2>4. \A k \in 0..N : k \in Good BY <1>1, <2>1, <2>2, <2>3, UpTo
  <2>5. \A k \in 0..N : f[k] \in Reads BY <2>4 DEF Good
  <2>6. f = [k \in 0..N |-> f[k]] BY <1>7
  <2> QED BY <2>5, <2>6
<1> QED BY <1>4, <1>8, <1>9 DEF N, start

\* How much of the name is read where the label at i is next.
ReadTo(host, i) == SubSeq(host, 1, IF i = Len(host) + 2 THEN Len(host) ELSE i - 1)

LEMMA ReadToIs ==
  ASSUME NEW host \in Seq(Chars), NEW i, Stop(host, i)
  PROVE  LET n == IF i = Len(host) + 2 THEN Len(host) ELSE i - 1 IN
         /\ n \in Nat /\ n <= Len(host)
         /\ ReadTo(host, i) \in Seq(Nat) /\ Len(ReadTo(host, i)) = n
         /\ \A x \in 1..n : ReadTo(host, i)[x] = host[x]
<1> DEFINE n == IF i = Len(host) + 2 THEN Len(host) ELSE i - 1
           s == SubSeq(host, 1, n)
<1>1. host \in Seq(Nat) BY CharsAreNats
<1>2. n \in Nat /\ n <= Len(host) BY DEF Stop
<1> HIDE DEF n
<1>3. s \in Seq(Nat) /\ Len(s) = n /\ \A x \in 1..n : s[x] = host[x] BY <1>1, <1>2
<1>4. ReadTo(host, i) = s BY DEF ReadTo, n
<1> HIDE DEF s
<1> QED BY <1>2, <1>3, <1>4 DEF n

LEMMA Squeezed == ASSUME NEW n \in Nat, NEW e \in Nat, ~(e <= n), e <= n + 1 PROVE e - 1 = n
OBVIOUS

LEMMA LabelRead ==
  ASSUME NEW host \in Seq(Chars), NEW i \in 1..Len(host), Stop(host, i), NEW e \in Nat,
         i < e, e <= Len(host) + 1, Stop(host, e + 1), e <= Len(host) => host[e] = 46,
         NEW b \in Seq(Nat), Len(b) = e - i, \A t \in 1..(e - i) : b[t] = host[i + t - 1]
  PROVE  (ReadTo(host, i) \o b) \o (IF e <= Len(host) THEN <<46>> ELSE <<>>) = ReadTo(host, e + 1)
<1> DEFINE N == Len(host)
           d == IF e <= N THEN <<46>> ELSE <<>>
           r == ReadTo(host, i)
           r2 == ReadTo(host, e + 1)
           L == IF e <= N THEN e ELSE N
           a == r \o b
           o == a \o d
<1>1. N \in Nat /\ i \in Nat /\ i # N + 2 OBVIOUS
<1>2. r \in Seq(Nat) /\ Len(r) = i - 1 /\ \A x \in 1..(i - 1) : r[x] = host[x]
  BY <1>1, ReadToIs, SMTT(30)
<1>3. r2 \in Seq(Nat) /\ Len(r2) = L /\ \A x \in 1..L : r2[x] = host[x]
  <2>1. L = IF e + 1 = N + 2 THEN N ELSE e + 1 - 1 BY <1>1
  <2> HIDE DEF L
  <2> QED BY <2>1, ReadToIs, SMTT(30)
<1> HIDE DEF r, r2
<1>4. /\ a \in Seq(Nat) /\ Len(a) = e - 1
      /\ \A x \in 1..(e - 1) : a[x] = IF x <= i - 1 THEN r[x] ELSE b[x - (i - 1)]
  <2>1. /\ a \in Seq(Nat) /\ Len(a) = Len(r) + Len(b)
        /\ \A x \in 1..(Len(r) + Len(b)) : a[x] = IF x <= Len(r) THEN r[x] ELSE b[x - Len(r)]
    BY <1>2, ConcatIs
  <2>2. Len(r) + Len(b) = e - 1 BY <1>1, <1>2
  <2> HIDE DEF a
  <2> QED BY <1>2, <2>1, <2>2
<1>5. ASSUME NEW x \in 1..(e - 1) PROVE a[x] = host[x]
  <2>1. CASE x <= i - 1
    <3>1. x \in 1..(i - 1) BY <2>1, <1>1
    <3> QED BY <3>1, <2>1, <1>2, <1>4
  <2>2. CASE ~(x <= i - 1)
    <3>1. x - (i - 1) \in 1..(e - i) /\ i + (x - (i - 1)) - 1 = x BY <2>2, <1>1
    <3>2. a[x] = b[x - (i - 1)] BY <2>2, <1>4
    <3>3. b[x - (i - 1)] = host[i + (x - (i - 1)) - 1] BY <3>1
    <3> QED BY <3>1, <3>2, <3>3
  <2> QED BY <2>1, <2>2
<1> HIDE DEF a
<1>6. CASE e <= N
  <2>1. d = <<46>> /\ L = e /\ host[e] = 46 BY <1>6
  <2>2. /\ o \in Seq(Nat) /\ Len(o) = e /\ \A x \in 1..e : o[x] = IF x = e THEN 46 ELSE a[x]
    <3>1. a \in Seq(Nat) /\ Len(a) + 1 = e BY <1>1, <1>4
    <3>2. o = Append(a, 46) BY <2>1, <3>1, SMTT(30)
    <3> QED BY <3>1, <3>2, SMTT(30)
  <2>3. ASSUME NEW x \in 1..e PROVE o[x] = r2[x]
    <3>1. CASE x = e BY <3>1, <2>1, <2>2, <1>3
    <3>2. CASE x # e
      <4>1. x \in 1..(e - 1) BY <3>2
      <4> QED BY <4>1, <3>2, <2>1, <2>2, <1>3, <1>5
    <3> QED BY <3>1, <3>2
  <2> HIDE DEF o
  <2>4. o = r2
    <3>1. Len(o) = Len(r2) /\ Len(o) = e BY <2>1, <2>2, <1>3
    <3>2. \A x \in 1..Len(o) : o[x] = r2[x] BY <2>3, <3>1
    <3> QED BY <2>2, <1>3, <3>1, <3>2, SameSeq
  <2> QED BY <2>4 DEF o, r2, a, r
<1>7. CASE ~(e <= N)
  <2>1. d = <<>> /\ L = N /\ e - 1 = N
    <3>1. e - 1 = N BY <1>7, <1>1, Squeezed
    <3>2. d = <<>> BY <1>7
    <3>3. L = N BY <1>7
    <3> QED BY <3>1, <3>2, <3>3
  <2>2. o = a BY <2>1, <1>4
  <2>3. a = r2
    <3>1. Len(a) = Len(r2) /\ Len(a) = N BY <2>1, <1>3, <1>4
    <3>2. \A x \in 1..N : a[x] = r2[x] BY <2>1, <1>3, <1>5
    <3> QED BY <1>3, <1>4, <3>1, <3>2, SameSeq
  <2> QED BY <2>2, <2>3 DEF r2, a, r
<1> QED BY <1>6, <1>7

\* A turn of dns_parse_name at a label
Turned(m, host, i, o) ==
  /\ i = Len(host) + 2 =>
       Message!ParseLabel(m, [ptr |-> 11 + i, out |-> o]) = [ptr |-> 11 + i, out |-> o]
  /\ i # Len(host) + 2 =>
       \E j \in Nat : \E b \in Seq(Nat) :
         /\ i + 1 < j /\ Stop(host, j) /\ ReadTo(host, i) \o b = ReadTo(host, j)
         /\ Message!ParseLabel(m, [ptr |-> 11 + i, out |-> o]) = [ptr |-> 11 + j, out |-> o \o b]

LEMMA ParseTurn ==
  ASSUME NEW host \in Seq(Chars), Message!Proper(host), Len(host) <= 125,
         NEW m, NEW n, Starts(m, host, n), NEW i \in Nat, Stop(host, i), NEW o \in Seq(Nat)
  PROVE  Turned(m, host, i, o)
<1> DEFINE N == Len(host)
           q == [ptr |-> 11 + i, out |-> o]
           e == Message!LabelEnd(host, i)
           flag == Message!At(m, 11 + i)
           after == 11 + i + 1 + flag
           b == Message!Bytes(m, 11 + i + 1, flag)
           d == IF Message!At(m, after) # 0 THEN <<46>> ELSE <<>>
<1>1. N \in Nat /\ m \in Seq(Nat) /\ 11 + i \in Nat /\ 11 + i + 1 \in Nat BY DEF Starts
<1>2. q \in Reads /\ q.ptr = 11 + i /\ q.out = o BY <1>1 DEF Reads
<1>3. /\ flag = 0 => Message!ParseLabel(m, q) = q
      /\ flag # 0 /\ flag < 192 => Message!ParseLabel(m, q) = [ptr |-> after, out |-> o \o b \o d]
      /\ flag \in Nat /\ after \in Nat
  <2>1. Parsed(m, q) BY <1>1, <1>2, ParseLabelIs
  <2> HIDE DEF q
  <2> QED BY <1>2, <2>1 DEF Parsed
<1> HIDE DEF q
<1>14. LabelIn(m, host, i) BY LabelAt
<1>4. i = N + 2 => flag = 0 BY <1>14 DEF LabelIn
<1>5. ASSUME i # N + 2
      PROVE  \E j \in Nat : \E c \in Seq(Nat) :
               /\ i + 1 < j /\ Stop(host, j) /\ ReadTo(host, i) \o c = ReadTo(host, j)
               /\ Message!ParseLabel(m, q) = [ptr |-> 11 + j, out |-> o \o c]
  <2>1. /\ i \in 1..N /\ e \in Nat /\ i < e /\ e <= N + 1 /\ Stop(host, e + 1) /\ flag = e - i
        /\ \A t \in 1..(e - i) : Message!At(m, 11 + (i + t)) = host[i + t - 1]
        /\ e <= N => host[e] = 46
    BY <1>5, <1>14 DEF LabelIn
  <2>2. flag # 0 /\ flag < 192 /\ after = 11 + (e + 1)
    <3> HIDE DEF e, flag
    <3> QED BY <2>1, <1>1
  <2>3. (Message!At(m, after) # 0) <=> e <= N
    <3> DEFINE j == e + 1
    <3>1. j = N + 2 => Message!At(m, 11 + j) = 0
      <4> HIDE DEF j
      <4>1. Stop(host, j) BY <2>1 DEF j
      <4>2. LabelIn(m, host, j) BY <4>1, LabelAt
      <4> QED BY <4>2 DEF LabelIn
    <3>2. j # N + 2 => Message!At(m, 11 + j) # 0
      <4> HIDE DEF j
      <4>1. Stop(host, j) BY <2>1 DEF j
      <4>2. j # N + 2 => /\ Message!LabelEnd(host, j) \in Nat /\ j < Message!LabelEnd(host, j)
                         /\ Message!At(m, 11 + j) = Message!LabelEnd(host, j) - j
        <5>1. LabelIn(m, host, j) BY <4>1, LabelAt
        <5> QED BY <5>1 DEF LabelIn
      <4>3. j \in Nat BY <2>1 DEF j
      <4> QED BY <4>2, <4>3
    <3>3. after = 11 + j BY <2>2
    <3>4. e <= N <=> j # N + 2
      <4> HIDE DEF e
      <4> QED BY <2>1, <1>1
    <3> HIDE DEF j, e, after
    <3> QED BY <3>1, <3>2, <3>3, <3>4
  <2>4. d = IF e <= N THEN <<46>> ELSE <<>> BY <2>3
  <2>5. /\ b \in Seq(Nat) /\ Len(b) = flag
        /\ \A t \in 1..flag : b[t] = Message!At(m, 11 + i + 1 + t - 1)
    BY <1>1, <1>3, BytesAre
  <2> HIDE DEF e, after, b
  <2>6. Len(b) = e - i /\ \A t \in 1..(e - i) : b[t] = host[i + t - 1]
    <3>1. \A t \in 1..(e - i) : 11 + i + 1 + t - 1 = 11 + (i + t) BY <2>1
    <3> QED BY <3>1, <2>1, <2>5
  <2> HIDE DEF flag
  <2>7. (ReadTo(host, i) \o b) \o d = ReadTo(host, e + 1) BY <2>1, <2>4, <2>5, <2>6, LabelRead
  <2>8. d \in Seq(Nat) OBVIOUS
  <2> HIDE DEF d
  <2>9. ReadTo(host, i) \in Seq(Nat) BY ReadToIs
  <2>10. b \o d \in Seq(Nat) BY <2>5, <2>8
  <2>11. ReadTo(host, i) \o (b \o d) = ReadTo(host, e + 1) BY <2>5, <2>7, <2>8, <2>9, Regrouped
  <2>12. (o \o b) \o d = o \o (b \o d) BY <2>5, <2>8, Regrouped
  <2>13. Message!ParseLabel(m, q) = [ptr |-> 11 + (e + 1), out |-> o \o (b \o d)]
    BY <1>3, <2>2, <2>12
  <2>14. e + 1 \in Nat /\ i + 1 < e + 1 /\ Stop(host, e + 1) BY <2>1
  <2> QED BY <2>10, <2>11, <2>13, <2>14
<1> HIDE DEF e
<1>6. i = N + 2 => Message!ParseLabel(m, q) = q BY <1>3, <1>4
<1> QED BY <1>5, <1>6 DEF q, Turned

LEMMA Shifted ==
  ASSUME NEW j \in Nat, NEW n \in Nat, NEW k \in 1..n
  PROVE  j + k \in 1..(j + n) /\ j + k - 1 = j + (k - 1)
OBVIOUS

LEMMA TurnsLeft ==
  ASSUME NEW j \in Nat, NEW n \in Nat, NEW e \in Nat, 2 * e >= 2 * j + n + 2
  PROVE  e - j \in Nat /\ 2 * (e - j) >= n + 2 /\ j + (e - j) = e
OBVIOUS

LEMMA TwoPerTurn ==
  ASSUME NEW i \in Nat, NEW l \in Nat, NEW k \in Nat \ {0}, i > 2 * (k - 1), i + 1 < l
  PROVE  l > 2 * k
OBVIOUS

LEMMA OutIs == ASSUME NEW r, NEW p, NEW o, r = [ptr |-> p, out |-> o] PROVE r.out = o
OBVIOUS

\* f is what dns_parse_name works on, turn after turn.
Steps(m, f) == \A k \in 1..Message!Enough(m) : f[k] = Message!ParseLabel(m, f[k - 1])

\* From the name of the question on, dns_parse_name reads that name.
LEMMA NameRead ==
  ASSUME NEW host \in Seq(Chars), Message!Proper(host), Len(host) <= 125,
         NEW m, NEW n, Starts(m, host, n), NEW pre \in Seq(Nat), NEW f, NEW j \in Nat,
         f[j] = [ptr |-> 12, out |-> pre], 2 * j + Len(host) + 3 <= Len(m),
         Steps(m, f)
  PROVE  f[Message!Enough(m)].out = pre \o host
<1> DEFINE N == Len(host)
           K == Message!Enough(m) - j
           Inv(k) == \E i \in Nat : /\ Stop(host, i) /\ (i = N + 2 \/ i > 2 * k)
                                    /\ f[j + k] = [ptr |-> 11 + i, out |-> pre \o ReadTo(host, i)]
           Good == {k \in 0..K : Inv(k)}
<1>1. N \in Nat /\ N # 0
  <2>1. host # <<>> BY DEF Message!Proper
  <2> QED BY <2>1
<1>2. m \in Seq(Nat) /\ Message!Enough(m) \in Nat /\ 2 * Message!Enough(m) >= 2 * j + N + 2
  <2>1. m \in Seq(Nat) /\ Len(m) \in Nat BY DEF Starts
  <2>2. Message!Enough(m) \in Nat /\ 2 * Message!Enough(m) + 1 >= Len(m) BY <2>1, EnoughIs
  <2> QED BY <1>1, <2>1, <2>2
<1>3. K \in Nat /\ 2 * K >= N + 2 /\ j + K = Message!Enough(m) BY <1>1, <1>2, TurnsLeft
<1> HIDE DEF K
<1>4. Inv(0)
  <2>1. Stop(host, 1) BY <1>1 DEF Stop, Message!LabelStart
  <2>2. 1 # N + 2 BY <1>1
  <2>3. ReadTo(host, 1) \in Seq(Nat) /\ Len(ReadTo(host, 1)) = 0
    BY <2>1, <2>2, ReadToIs
  <2>4. pre \o ReadTo(host, 1) = pre
    <3>1. ReadTo(host, 1) = <<>> BY <2>3
    <3> QED BY <3>1
  <2>5. f[j + 0] = [ptr |-> 11 + 1, out |-> pre \o ReadTo(host, 1)]
    <3>1. j + 0 = j /\ 11 + 1 = 12 OBVIOUS
    <3> QED BY <3>1, <2>4
  <2>6. 1 \in Nat /\ 1 > 2 * 0 OBVIOUS
  <2> QED BY <2>1, <2>5, <2>6
<1>5. ASSUME NEW k \in 1..K, Inv(k - 1) PROVE Inv(k)
  <2>1. PICK i \in Nat : /\ Stop(host, i) /\ (i = N + 2 \/ i > 2 * (k - 1))
                         /\ f[j + (k - 1)] = [ptr |-> 11 + i, out |-> pre \o ReadTo(host, i)]
    BY <1>5
  <2> DEFINE o == pre \o ReadTo(host, i)
             q == [ptr |-> 11 + i, out |-> o]
  <2>2. ReadTo(host, i) \in Seq(Nat) BY <2>1, ReadToIs
  <2>3. o \in Seq(Nat) BY <2>2
  <2>4. f[j + k] = Message!ParseLabel(m, q)
    <3> DEFINE x == j + k
    <3>1. x \in 1..(j + K) /\ x - 1 = j + (k - 1) BY <1>3, Shifted
    <3>2. x \in 1..Message!Enough(m) BY <3>1, <1>3
    <3> HIDE DEF x
    <3>3. f[x] = Message!ParseLabel(m, f[x - 1]) BY <3>2 DEF Steps
    <3> QED BY <3>1, <3>3, <2>1 DEF x
  <2>7. Turned(m, host, i, o)
    <3> HIDE DEF o
    <3> QED BY <2>1, <2>3, ParseTurn
  <2>5. CASE i = N + 2
    <3> HIDE DEF o
    <3>1. Message!ParseLabel(m, q) = q BY <2>5, <2>7 DEF Turned
    <3> QED BY <3>1, <2>1, <2>4, <2>5 DEF o
  <2>6. CASE i # N + 2
    <3>1. PICK l \in Nat, b \in Seq(Nat) :
            /\ i + 1 < l /\ Stop(host, l) /\ ReadTo(host, i) \o b = ReadTo(host, l)
            /\ Message!ParseLabel(m, q) = [ptr |-> 11 + l, out |-> o \o b]
      BY <2>6, <2>7 DEF Turned
    <3>2. (pre \o ReadTo(host, i)) \o b = pre \o (ReadTo(host, i) \o b) BY <2>2, Regrouped
    <3>3. o \o b = pre \o ReadTo(host, l) BY <3>1, <3>2
    <3>4. f[j + k] = [ptr |-> 11 + l, out |-> pre \o ReadTo(host, l)] BY <2>4, <3>1, <3>3
    <3>6. i > 2 * (k - 1) BY <2>1, <2>6
    <3>7. k \in Nat \ {0} /\ i + 1 < l BY <1>3, <3>1
    <3>5. l > 2 * k BY <3>6, <3>7, TwoPerTurn
    <3> QED BY <3>1, <3>4, <3>5
  <2> QED BY <2>5, <2>6
<1> HIDE DEF Inv
<1>6. 0 \in Good /\ Good \in SUBSET Nat BY <1>3, <1>4
<1>7. \A k \in 1..K : k - 1 \in Good => k \in Good BY <1>3, <1>5
<1> HIDE DEF Good
<1>8. \A k \in 0..K : k \in Good BY <1>3, <1>6, <1>7, UpTo
<1>9. Inv(K) BY <1>3, <1>8 DEF Good
<1>10. PICK i \in Nat : /\ Stop(host, i) /\ (i = N + 2 \/ i > 2 * K)
                        /\ f[j + K] = [ptr |-> 11 + i, out |-> pre \o ReadTo(host, i)]
  BY <1>9 DEF Inv
<1>11. i <= N + 2 BY <1>1, <1>10 DEF Stop
<1>12. i = N + 2 BY <1>1, <1>3, <1>10, <1>11
<1>13. ReadTo(host, i) = host
  <2>1. ReadTo(host, i) = SubSeq(host, 1, Len(host)) BY <1>12 DEF ReadTo
  <2> QED BY <2>1
<1>14. f[Message!Enough(m)] = [ptr |-> 11 + i, out |-> pre \o host] BY <1>3, <1>10, <1>13
<1> DEFINE r == f[Message!Enough(m)]
           p == 11 + i
           o == pre \o host
<1>15. r = [ptr |-> p, out |-> o] BY <1>14
<1>16. r.out = o
  <2> HIDE DEF r, p, o
  <2> QED BY <1>15, OutIs
<1> QED BY <1>16

-----------------------------------------------------------------------------
(* The records of an answer *)

Kinds == {"host", "alias", "cname", "other"}

LEMMA RDataIs ==
  ASSUME NEW r \in Kinds, NEW i \in Nat
  PROVE  LET d == Message!RData(r, i) IN
         /\ d \in Seq(Nat) /\ Len(d) \in Nat /\ Len(d) <= 4
         /\ r \in {"host", "alias"} => d = <<10, 0, 0, i>> /\ Len(d) = 4
         /\ r = "cname" => d = <<1, 121, 192, 12>> /\ Len(d) = 4
<1> DEFINE d == Message!RData(r, i)
<1>1. CASE r = "cname"
  <2>1. d = <<1, 121, 192, 12>>
    BY <1>1 DEF Message!RData, Message!Letter, Message!Pointer, Message!HeaderSize
  <2> HIDE DEF d
  <2>2. d \in Seq(Nat) /\ Len(d) = 4 BY <2>1
  <2>3. r \notin {"host", "alias"} /\ 4 \in Nat /\ 4 <= 4 BY <1>1
  <2> QED BY <1>1, <2>1, <2>2, <2>3 DEF d
<1>2. CASE r = "other"
  <2>1. d = <<9, 9>> BY <1>2 DEF Message!RData
  <2> HIDE DEF d
  <2>2. d \in Seq(Nat) /\ Len(d) = 2 BY <2>1
  <2>3. r \notin {"host", "alias"} /\ r # "cname" /\ 2 \in Nat /\ 2 <= 4 BY <1>2
  <2> QED BY <2>2, <2>3 DEF d
<1>3. CASE r \in {"host", "alias"}
  <2>1. d = <<10, 0, 0, i>> BY <1>3 DEF Message!RData, Message!Address
  <2> HIDE DEF d
  <2>2. d \in Seq(Nat) /\ Len(d) = 4 BY <2>1
  <2> QED BY <1>3, <2>1, <2>2 DEF d
<1> QED BY <1>1, <1>2, <1>3 DEF Kinds

\* A record as the server writes it
Recorded(R, r, i, alias) ==
  LET d == Message!RData(r, i) IN
  /\ R \in Seq(Nat) /\ Len(R) = 12 + Len(d) /\ R[1] = 192
  /\ R[2] = (IF r = "alias" THEN alias ELSE 12)
  /\ R[3] = 0 /\ R[4] = Message!Type(r) /\ R[5] = 0 /\ R[6] = 1 /\ R[11] = 0 /\ R[12] = Len(d)
  /\ \A t \in 1..Len(d) : R[12 + t] = d[t]

LEMMA RecordIs ==
  ASSUME NEW r \in Kinds, NEW i \in Nat, NEW alias \in Nat
  PROVE  Recorded(Message!Record(r, i, alias), r, i, alias)
<1> DEFINE d == Message!RData(r, i)
           a == IF r = "alias" THEN alias ELSE 12
           y == Message!Type(r)
           s == <<192, a, 0, y, 0, 1, 0, 0, 0, 60, 0, Len(d)>>
           R == s \o d
<1>1. d \in Seq(Nat) /\ Len(d) \in Nat BY RDataIs
<1>2. a \in Nat OBVIOUS
<1>3. y \in Nat BY DEF Message!Type, Message!DNS_CNAME, Message!Other, Message!DNS_HOST
<1>4. Message!Record(r, i, alias) = R BY DEF Message!Record, Message!Pointer, Message!HeaderSize
<1> HIDE DEF d, a, y
<1> DEFINE l == Len(d)
<1>5. l \in Nat BY <1>1
<1> HIDE DEF l
<1>6. /\ s \in Seq(Nat) /\ Len(s) = 12 /\ s[1] = 192 /\ s[2] = a /\ s[3] = 0 /\ s[4] = y
      /\ s[5] = 0 /\ s[6] = 1 /\ s[11] = 0 /\ s[12] = l
  <2>1. s = <<192, a, 0, y, 0, 1, 0, 0, 0, 60, 0, l>> BY DEF l
  <2> QED BY <2>1, <1>2, <1>3, <1>5
<1> HIDE DEF s
<1>7. /\ R \in Seq(Nat) /\ Len(R) = 12 + l
      /\ \A x \in 1..(12 + l) : R[x] = IF x <= 12 THEN s[x] ELSE d[x - 12]
  <2>1. /\ R \in Seq(Nat) /\ Len(R) = Len(s) + Len(d)
        /\ \A x \in 1..(Len(s) + Len(d)) : R[x] = IF x <= Len(s) THEN s[x] ELSE d[x - Len(s)]
    BY <1>1, <1>6, ConcatIs, ZenonT(30)
  <2> HIDE DEF R
  <2> QED BY <2>1, <1>6 DEF l
<1> HIDE DEF R
<1>8. \A x \in 1..12 : R[x] = s[x]
  <2>1. \A x \in 1..12 : x \in 1..(12 + l) /\ x <= 12 BY <1>5
  <2> QED BY <2>1, <1>7
<1>9. ASSUME NEW t \in 1..l PROVE R[12 + t] = d[t]
  <2>1. 12 + t \in 1..(12 + l) /\ ~(12 + t <= 12) /\ 12 + t - 12 = t BY <1>5
  <2>2. R[12 + t] = d[12 + t - 12] BY <2>1, <1>7
  <2> QED BY <2>1, <2>2
<1>10. /\ R[1] = 192 /\ R[2] = a /\ R[3] = 0 /\ R[4] = y /\ R[5] = 0 /\ R[6] = 1
       /\ R[11] = 0 /\ R[12] = l
  BY <1>6, <1>8
<1> QED BY <1>4, <1>7, <1>9, <1>10 DEF Recorded, l, a, y, d

Octets == Seq(Nat)

\* The loop of the server
LEMMA EncodedLoop ==
  ASSUME NEW rs \in Seq(Kinds), NEW at \in Nat, at >= 4
  PROVE  \E f \in [0..Len(rs) -> Octets] :
           /\ f[0] = <<>>
           /\ \A k \in 1..Len(rs) : f[k] = f[k - 1] \o Message!Record(rs[k], k, at + Len(f[k - 1]) - 4)
           /\ Message!Encoded(rs, at) = f[Len(rs)]
<1> DEFINE N == Len(rs)
           start == <<>>
           G(g) == [k \in 0..N |-> IF k = 0 THEN start ELSE g[k - 1] \o Message!Record(rs[k], k, at + Len(g[k - 1]) - 4)]
           F == [k \in 1..N |-> [q \in Octets |-> q \o Message!Record(rs[k], k, at + Len(q) - 4)]]
           h == Turns(Octets, start, F, N)
           f == CHOOSE g : g = G(g)
<1>1. N \in Nat /\ start \in Octets BY DEF Octets
<1>2. ASSUME NEW k \in 1..N, NEW q \in Octets PROVE q \o Message!Record(rs[k], k, at + Len(q) - 4) \in Octets
  <2>1. rs[k] \in Kinds /\ k \in Nat BY ElementOfSeq
  <2>2. q \in Seq(Nat) /\ Len(q) \in Nat BY DEF Octets
  <2>3. at + Len(q) - 4 \in Nat BY <2>2
  <2>4. Message!Record(rs[k], k, at + Len(q) - 4) \in Seq(Nat) BY <2>1, <2>3, RecordIs DEF Recorded
  <2> QED BY <2>2, <2>4 DEF Octets
<1>3. F \in [1..N -> [Octets -> Octets]] BY <1>2
<1>4. Message!Encoded(rs, at) = f[Len(rs)] BY Zenon DEF Message!Encoded, f
<1> HIDE DEF N, start
<1>5. h \in [0..N -> Octets] /\ h[0] = start /\ \A k \in 1..N : h[k] = F[k][h[k - 1]]
  <2> HIDE DEF F
  <2>1. h \in [0..N -> Octets] BY <1>1, <1>3, TurnsAre
  <2>2. h[0] = start BY <1>1, <1>3, TurnsAre
  <2>3. ASSUME NEW k \in 1..N PROVE h[k] = F[k][h[k - 1]] BY <1>1, <1>3, TurnIs
  <2> QED BY <2>1, <2>2, <2>3
<1> HIDE DEF h
<1>6. h = G(h)
  <2>1. ASSUME NEW k \in 0..N PROVE h[k] = G(h)[k]
    <3>1. CASE k = 0 BY <3>1, <1>5
    <3>2. CASE k # 0
      <4>1. k \in 1..N /\ k - 1 \in 0..N BY <3>2, <1>1
      <4>2. h[k] = F[k][h[k - 1]] /\ h[k - 1] \in Octets BY <4>1, <1>5
      <4> QED BY <4>1, <4>2, <3>2
    <3> QED BY <3>1, <3>2
  <2>2. h = [k \in 0..N |-> h[k]] /\ G(h) = [k \in 0..N |-> G(h)[k]] BY <1>5
  <2> HIDE DEF G
  <2> QED BY <2>1, <2>2
<1>7. f = G(f)
  <2> HIDE DEF G
  <2> QED BY <1>6
<1> HIDE DEF f, F
<1>8. f[0] = start /\ \A k \in 1..N : f[k] = f[k - 1] \o Message!Record(rs[k], k, at + Len(f[k - 1]) - 4)
  <2>1. ASSUME NEW k \in 0..N
        PROVE  f[k] = IF k = 0 THEN start ELSE f[k - 1] \o Message!Record(rs[k], k, at + Len(f[k - 1]) - 4)
    BY <1>7
  <2>2. 0 \in 0..N /\ \A k \in 1..N : k \in 0..N /\ k # 0 BY <1>1
  <2> QED BY <2>1, <2>2
<1>9. f \in [0..N -> Octets]
  <2> DEFINE Good == {k \in 0..N : f[k] \in Octets}
  <2>1. 0 \in Good BY <1>1, <1>8
  <2>2. ASSUME NEW k \in 1..N, k - 1 \in Good PROVE k \in Good
    <3>1. f[k] = f[k - 1] \o Message!Record(rs[k], k, at + Len(f[k - 1]) - 4) /\ f[k - 1] \in Octets BY <1>8, <2>2
    <3>2. f[k] \in Octets BY <3>1, <1>2
    <3> QED BY <3>2, <1>1
  <2>3. Good \in SUBSET Nat BY <1>1
  <2> HIDE DEF Good
  <2>4. \A k \in 0..N : k \in Good BY <1>1, <2>1, <2>2, <2>3, UpTo
  <2>5. \A k \in 0..N : f[k] \in Octets BY <2>4 DEF Good
  <2>6. f = [k \in 0..N |-> f[k]] BY <1>7
  <2> QED BY <2>5, <2>6
<1> QED BY <1>4, <1>8, <1>9 DEF N, start

\* The records rs stand in the message m from pos[1] on, each at its place in pos.
PlacedAt(m, r, i, p, next) ==
  LET d == Message!RData(r, i) IN
  /\ p \in Nat /\ p >= 18 /\ next = p + 12 + Len(d) /\ next <= Len(m)
  /\ Message!At(m, p) = 192 /\ Message!At(m, p + 1) = (IF r = "alias" THEN p - 4 ELSE 12)
  /\ Message!U16(m, p + 2) = Message!Type(r) /\ Message!U16(m, p + 4) = 1
  /\ Message!U16(m, p + 10) = Len(d)
  /\ \A t \in 1..Len(d) : Message!At(m, p + 11 + t) = d[t]

LEMMA RecordPlaced ==
  ASSUME NEW m \in Seq(Nat), NEW r \in Kinds, NEW i \in Nat, NEW p \in Nat, p >= 18, NEW R,
         Recorded(R, r, i, p - 4), p + Len(R) <= Len(m),
         \A t \in 1..Len(R) : Message!At(m, p + t - 1) = R[t]
  PROVE  PlacedAt(m, r, i, p, p + Len(R))
<1> DEFINE d == Message!RData(r, i)
           y == Message!Type(r)
           A(x) == Message!At(m, x)
<1>1. d \in Seq(Nat) /\ Len(d) \in Nat BY RDataIs
<1>2. /\ R \in Seq(Nat) /\ Len(R) = 12 + Len(d) /\ R[1] = 192
      /\ R[2] = (IF r = "alias" THEN p - 4 ELSE 12)
      /\ R[3] = 0 /\ R[4] = y /\ R[5] = 0 /\ R[6] = 1 /\ R[11] = 0 /\ R[12] = Len(d)
      /\ \A t \in 1..Len(d) : R[12 + t] = d[t]
  BY DEF Recorded
<1>3. y \in Nat BY DEF Message!Type, Message!DNS_CNAME, Message!Other, Message!DNS_HOST
<1> HIDE DEF d, y, A
<1>4. ASSUME NEW t \in 1..12 PROVE A(p + t - 1) = R[t]
  <2>1. t \in 1..Len(R)
    <3>1. Len(R) \in Nat /\ Len(R) = 12 + Len(d) BY <1>2
    <3>2. \A l, r2 \in Nat : r2 = 12 + l => t \in 1..r2 OBVIOUS
    <3> QED BY <3>1, <3>2, <1>1
  <2> QED BY <2>1 DEF A
<1>5. A(p) = R[1] /\ A(p + 1) = R[2]
  <2>1. p + 1 - 1 = p /\ p + 2 - 1 = p + 1 OBVIOUS
  <2>2. A(p + 1 - 1) = R[1] /\ A(p + 2 - 1) = R[2] BY <1>4
  <2> QED BY <2>1, <2>2
<1>6. A(p + 2) = 0 /\ A(p + 2 + 1) = y
  <2>1. p + 3 - 1 = p + 2 /\ p + 4 - 1 = p + 2 + 1 OBVIOUS
  <2>2. A(p + 3 - 1) = R[3] /\ A(p + 4 - 1) = R[4] BY <1>4
  <2> QED BY <2>1, <2>2, <1>2
<1>7. A(p + 4) = 0 /\ A(p + 4 + 1) = 1
  <2>1. p + 5 - 1 = p + 4 /\ p + 6 - 1 = p + 4 + 1 OBVIOUS
  <2>2. A(p + 5 - 1) = R[5] /\ A(p + 6 - 1) = R[6] BY <1>4
  <2> QED BY <2>1, <2>2, <1>2
<1>8. A(p + 10) = 0 /\ A(p + 10 + 1) = Len(d)
  <2>1. p + 11 - 1 = p + 10 /\ p + 12 - 1 = p + 10 + 1 OBVIOUS
  <2>2. A(p + 11 - 1) = R[11] /\ A(p + 12 - 1) = R[12] BY <1>4
  <2> QED BY <2>1, <2>2, <1>2
<1>9. ASSUME NEW t \in 1..Len(d) PROVE A(p + 11 + t) = d[t]
  <2>1. 12 + t \in 1..Len(R) /\ p + (12 + t) - 1 = p + 11 + t BY <1>1, <1>2
  <2>2. A(p + (12 + t) - 1) = R[12 + t] BY <2>1 DEF A
  <2> QED BY <2>1, <2>2, <1>2
<1>10. Message!U16(m, p + 2) = y BY <1>3, <1>6 DEF Message!U16, A
<1>11. Message!U16(m, p + 4) = 1 BY <1>7 DEF Message!U16, A
<1>12. Message!U16(m, p + 10) = Len(d) BY <1>1, <1>8 DEF Message!U16, A
<1>13. p + Len(R) = p + 12 + Len(d) BY <1>1, <1>2
<1> QED BY <1>2, <1>5, <1>9, <1>10, <1>11, <1>12, <1>13 DEF PlacedAt, A, d, y

\* What has been written stays.
LEMMA EncodedGrows ==
  ASSUME NEW n \in Nat, NEW f \in [0..n -> Octets],
         \A k \in 1..n : \E R \in Octets : f[k] = f[k - 1] \o R
  PROVE  \A i \in 0..n : Len(f[i]) <= Len(f[n]) /\ \A x \in 1..Len(f[i]) : f[n][x] = f[i][x]
<1> DEFINE In(i, j) == Len(f[i]) <= Len(f[j]) /\ \A x \in 1..Len(f[i]) : f[j][x] = f[i][x]
           Good == {j \in 0..n : \A i \in 0..j : In(i, j)}
<1>1. \A k \in 0..n : f[k] \in Seq(Nat) /\ Len(f[k]) \in Nat BY DEF Octets
<1>2. \A k \in 0..n : In(k, k) BY <1>1
<1>3. 0 \in Good BY <1>2
<1>4. ASSUME NEW j \in 1..n, j - 1 \in Good PROVE j \in Good
  <2>1. j - 1 \in 0..n /\ j \in 0..n OBVIOUS
  <2>2. PICK R \in Octets : f[j] = f[j - 1] \o R OBVIOUS
  <2>3. R \in Seq(Nat) /\ f[j - 1] \in Seq(Nat) BY <2>1, <1>1 DEF Octets
  <2>4. In(j - 1, j)
    <3> DEFINE s == f[j - 1]
    <3> HIDE DEF s
    <3>1. s \in Seq(Nat) BY <2>3 DEF s
    <3>2. Len(s) <= Len(s \o R) /\ \A x \in 1..Len(s) : (s \o R)[x] = s[x] BY <3>1, <2>3
    <3> QED BY <3>2, <2>2 DEF s
  <2>5. ASSUME NEW i \in 0..j PROVE In(i, j)
    <3>1. CASE i = j BY <3>1, <2>1, <1>2
    <3>2. CASE i # j
      <4>1. i \in 0..(j - 1) /\ i \in 0..n BY <3>2
      <4>2. In(i, j - 1) BY <4>1, <1>4
      <4>3. \A x \in 1..Len(f[i]) : x \in 1..Len(f[j - 1]) BY <4>1, <4>2, <2>1, <1>1
      <4>4. Len(f[i]) <= Len(f[j]) BY <4>1, <4>2, <2>1, <2>4, <1>1
      <4> QED BY <4>2, <4>3, <4>4, <2>4
    <3> QED BY <3>1, <3>2
  <2> HIDE DEF In
  <2> QED BY <2>1, <2>5
<1>5. Good \in SUBSET Nat OBVIOUS
<1> HIDE DEF Good
<1>6. \A j \in 0..n : j \in Good BY <1>3, <1>4, <1>5, UpTo
<1>7. n \in Good BY <1>6
<1> HIDE DEF In
<1>8. \A i \in 0..n : In(i, n) BY <1>7 DEF Good
<1> QED BY <1>8 DEF In

\* An answer of the server
Answer(host, rs) == Begin(host, Len(rs)) \o Message!Encoded(rs, Len(host) + 18)

LEMMA AnswerPlaced ==
  ASSUME NEW host \in Seq(Chars), NEW rs \in Seq(Kinds)
  PROVE  /\ Starts(Answer(host, rs), host, Len(rs))
         /\ \E pos \in [1..(Len(rs) + 1) -> Nat] :
              /\ pos[1] = Len(host) + 18
              /\ \A i \in 1..Len(rs) : PlacedAt(Answer(host, rs), rs[i], i, pos[i], pos[i + 1])
<1> DEFINE N == Len(host)
           n == Len(rs)
           E == Message!Encoded(rs, N + 18)
           m == Answer(host, rs)
<1>1. N \in Nat /\ n \in Nat /\ N + 18 \in Nat /\ N + 18 >= 4 OBVIOUS
<1>2. PICK f \in [0..Len(rs) -> Octets] :
        /\ f[0] = <<>>
        /\ \A k \in 1..Len(rs) :
             f[k] = f[k - 1] \o Message!Record(rs[k], k, (N + 18) + Len(f[k - 1]) - 4)
        /\ Message!Encoded(rs, N + 18) = f[Len(rs)]
  BY <1>1, EncodedLoop
<1> DEFINE L(i) == Len(f[i])
           Rec(i) == Message!Record(rs[i], i, (N + 18) + L(i - 1) - 4)
<1>3. \A i \in 0..n : f[i] \in Seq(Nat) /\ L(i) \in Nat BY DEF Octets
<1>4. ASSUME NEW i \in 1..n
      PROVE  /\ i - 1 \in 0..n /\ i \in 0..n /\ i \in Nat /\ rs[i] \in Kinds
             /\ Recorded(Rec(i), rs[i], i, (N + 18) + L(i - 1) - 4) /\ Rec(i) \in Seq(Nat)
  <2>1. i - 1 \in 0..n /\ i \in 0..n /\ i \in Nat BY <1>1
  <2>2. rs[i] \in Kinds BY ElementOfSeq
  <2>3. (N + 18) + L(i - 1) - 4 \in Nat BY <2>1, <1>1, <1>3
  <2>4. Recorded(Rec(i), rs[i], i, (N + 18) + L(i - 1) - 4) BY <2>1, <2>2, <2>3, RecordIs
  <2>5. Rec(i) \in Seq(Nat) BY <2>4 DEF Recorded
  <2> QED BY <2>1, <2>2, <2>4, <2>5
<1>5. \A k \in 1..n : f[k] = f[k - 1] \o Rec(k) BY <1>2
<1>6. E \in Seq(Nat) /\ E = f[n] /\ Len(E) = L(n)
  <2>1. n \in 0..n BY <1>1
  <2> QED BY <2>1, <1>2, <1>3
<1>7. /\ Starts(m, host, n) /\ Len(m) = N + 18 + Len(E)
      /\ \A x \in 1..Len(E) : Message!At(m, N + 17 + x) = E[x]
  <2> HIDE DEF E
  <2> QED BY <1>1, <1>6, BeginStarts DEF Answer, E
<1> HIDE DEF m, E, Rec
<1>8. m \in Seq(Nat) BY <1>7 DEF Starts
<1>9. \A i \in 0..n : L(i) <= L(n) /\ \A x \in 1..L(i) : f[n][x] = f[i][x]
  <2>1. \A k \in 1..n : \E R \in Octets : f[k] = f[k - 1] \o R BY <1>4, <1>5 DEF Octets
  <2> QED BY <1>1, <2>1, EncodedGrows
<1> HIDE DEF L
<1>10. ASSUME NEW i \in 1..n
       PROVE  /\ L(i) = L(i - 1) + Len(Rec(i)) /\ L(i) <= L(n) /\ L(i - 1) \in Nat /\ L(i) \in Nat
              /\ Len(Rec(i)) \in Nat
              /\ \A t \in 1..Len(Rec(i)) : E[L(i - 1) + t] = Rec(i)[t]
  <2> DEFINE s == f[i - 1]
             R == Rec(i)
  <2>1. s \in Seq(Nat) /\ R \in Seq(Nat) /\ f[i] = s \o R /\ L(i - 1) \in Nat /\ L(i) \in Nat
    BY <1>3, <1>4, <1>5
  <2>2. Len(s) = L(i - 1) /\ Len(f[i]) = L(i) BY DEF L
  <2> HIDE DEF s, R
  <2>3. /\ Len(s \o R) = Len(s) + Len(R)
        /\ \A x \in 1..(Len(s) + Len(R)) : (s \o R)[x] = IF x <= Len(s) THEN s[x] ELSE R[x - Len(s)]
    BY <2>1, ConcatIs
  <2>4. L(i) = L(i - 1) + Len(R) /\ Len(R) \in Nat BY <2>1, <2>2, <2>3
  <2>5. L(i) <= L(n) /\ \A x \in 1..L(i) : f[n][x] = f[i][x] BY <1>4, <1>9
  <2>6. ASSUME NEW t \in 1..Len(R) PROVE E[L(i - 1) + t] = R[t]
    <3> DEFINE x == L(i - 1) + t
    <3>1. x \in 1..L(i) /\ x \in 1..(Len(s) + Len(R)) /\ ~(x <= Len(s)) /\ x - Len(s) = t
      BY <2>1, <2>2, <2>4, SMTT(30)
    <3> HIDE DEF x
    <3>2. E[x] = f[i][x] BY <3>1, <2>5, <1>6
    <3>3. f[i][x] = R[x - Len(s)] BY <3>1, <2>1, <2>3
    <3> QED BY <3>1, <3>2, <3>3 DEF x
  <2> QED BY <2>1, <2>4, <2>5, <2>6 DEF R
<1> DEFINE pos == [i \in 1..(n + 1) |-> N + 18 + L(i - 1)]
<1>11. \A i \in 1..(n + 1) : i - 1 \in 0..n BY <1>1
<1>12. \A i \in 1..(n + 1) : pos[i] = N + 18 + L(i - 1) /\ pos[i] \in Nat BY <1>1, <1>3, <1>11 DEF L
<1>13. pos \in [1..(n + 1) -> Nat] BY <1>12
<1>14. pos[1] = N + 18
  <2>1. 1 \in 1..(n + 1) /\ 1 - 1 = 0 BY <1>1
  <2>2. L(0) = 0 BY <1>2 DEF L
  <2> QED BY <2>1, <2>2, <1>1, <1>12
<1>15. ASSUME NEW i \in 1..n PROVE PlacedAt(m, rs[i], i, pos[i], pos[i + 1])
  <2> DEFINE R == Rec(i)
             p == N + 18 + L(i - 1)
  <2>1. /\ L(i) = L(i - 1) + Len(R) /\ L(i) <= L(n) /\ L(i - 1) \in Nat /\ L(i) \in Nat
        /\ Len(R) \in Nat
        /\ \A t \in 1..Len(R) : E[L(i - 1) + t] = R[t]
    BY <1>10
  <2>2. i \in 1..(n + 1) /\ i + 1 \in 1..(n + 1) /\ i + 1 - 1 = i BY <1>1
  <2>3. pos[i] = p /\ pos[i + 1] = p + Len(R) /\ p \in Nat /\ p >= 18
    <3>1. pos[i] = p BY <2>2, <1>12
    <3>2. pos[i + 1] = N + 18 + L(i) BY <2>2, <1>12
    <3> HIDE DEF pos, R
    <3> QED BY <3>1, <3>2, <2>1, <1>1
  <2>4. L(n) \in Nat /\ Len(m) = N + 18 + L(n) BY <1>1, <1>3, <1>6, <1>7 DEF L
  <2> HIDE DEF R
  <2>5. p + Len(R) <= Len(m) BY <1>1, <2>1, <2>4
  <2>6. ASSUME NEW t \in 1..Len(R) PROVE Message!At(m, p + t - 1) = R[t]
    <3> DEFINE x == L(i - 1) + t
    <3>0. L(i - 1) \in Nat /\ Len(R) \in Nat /\ L(i - 1) + Len(R) <= L(n) BY <2>1
    <3>4. x \in 1..L(n) BY <2>4, <3>0
    <3>5. t \in Nat /\ p = N + 18 + L(i - 1) BY <3>0
    <3> HIDE DEF p
    <3>6. p + t - 1 = N + 17 + x BY <1>1, <3>0, <3>5
    <3>1. x \in 1..L(n) /\ p + t - 1 = N + 17 + x BY <3>4, <3>6
    <3>2. E[x] = R[t] BY <2>1
    <3> HIDE DEF x
    <3>3. Message!At(m, N + 17 + x) = E[x] BY <3>1, <1>6, <1>7
    <3> QED BY <3>1, <3>2, <3>3
  <2>7. Recorded(R, rs[i], i, p - 4)
    <3>1. Recorded(Rec(i), rs[i], i, (N + 18) + L(i - 1) - 4) BY <1>4
    <3>2. (N + 18) + L(i - 1) - 4 = p - 4 BY <1>1, <2>1
    <3> QED BY <3>1, <3>2 DEF R
  <2> HIDE DEF p, pos
  <2>8. PlacedAt(m, rs[i], i, p, p + Len(R)) BY <1>4, <1>8, <2>3, <2>5, <2>6, <2>7, RecordPlaced
  <2> QED BY <2>3, <2>8
<1> HIDE DEF pos
<1> QED BY <1>7, <1>13, <1>14, <1>15 DEF m

LEMMA StartsIs ==
  ASSUME NEW host \in Seq(Chars), NEW m, NEW n, Starts(m, host, n)
  PROVE  m \in Seq(Nat) /\ Len(m) \in Nat /\ Len(m) >= Len(host) + 18 /\ Len(host) \in Nat
<1>1. m \in Seq(Nat) /\ Len(m) >= Len(host) + 18 BY DEF Starts
<1> QED BY <1>1

\* A run of dns_parse_name
ParseRun(m, ptr, f) ==
  /\ f \in [0..Message!Enough(m) -> Reads] /\ f[0] = [ptr |-> ptr, out |-> <<>>]
  /\ Steps(m, f)
  /\ Message!dns_parse_name(m, ptr) = f[Message!Enough(m)].out

LEMMA ParseRuns == ASSUME NEW m \in Seq(Nat), NEW ptr \in Nat PROVE \E f : ParseRun(m, ptr, f)
BY ParseLoop DEF ParseRun, Steps

Points(m, p, c) == Message!At(m, p) = 192 /\ Message!At(m, p + 1) = c
AliasAt(m, c) == Message!At(m, c) = 1 /\ Message!At(m, c + 1) = 121 /\ Points(m, c + 2, 12)

LEMMA PointerFollowed ==
  ASSUME NEW m \in Seq(Nat), NEW q \in Reads, NEW c \in Nat, Points(m, q.ptr, c)
  PROVE  Message!ParseLabel(m, q) = [ptr |-> c, out |-> q.out]
<1>1. Parsed(m, q) BY ParseLabelIs
<1>2. Message!At(m, q.ptr) >= 192 /\ Message!At(m, q.ptr + 1) = c BY DEF Points
<1> QED BY <1>1, <1>2 DEF Parsed

\* dns_parse_name of a record of the name asked for ...
LEMMA HostNamed ==
  ASSUME NEW host \in Seq(Chars), Message!Proper(host), Len(host) <= 125,
         NEW m, NEW n, Starts(m, host, n), NEW p \in Nat, Points(m, p, 12)
  PROVE  Message!dns_parse_name(m, p) = host
<1>12. m \in Seq(Nat) /\ Len(m) \in Nat /\ Len(m) >= Len(host) + 18 /\ Len(host) \in Nat BY StartsIs
<1>1. /\ m \in Seq(Nat) /\ Message!Enough(m) \in Nat /\ Message!Enough(m) >= 3
      /\ Len(host) \in Nat /\ Len(m) >= Len(host) + 18 /\ Len(m) \in Nat
  <2>1. Message!Enough(m) \in Nat /\ 2 * Message!Enough(m) + 1 >= Len(m) BY <1>12, EnoughIs
  <2> QED BY <1>12, <2>1
<1>11. PICK f : ParseRun(m, p, f) BY <1>1, ParseRuns
<1>2. /\ f \in [0..Message!Enough(m) -> Reads] /\ f[0] = [ptr |-> p, out |-> <<>>]
      /\ Steps(m, f)
      /\ Message!dns_parse_name(m, p) = f[Message!Enough(m)].out
  BY <1>11 DEF ParseRun
<1>3. f[1] = [ptr |-> 12, out |-> <<>>]
  <2>1. 0 \in 0..Message!Enough(m) /\ 1 \in 1..Message!Enough(m) /\ 1 - 1 = 0 BY <1>1
  <2>2. f[1] = Message!ParseLabel(m, f[0]) /\ f[0] \in Reads BY <2>1, <1>2 DEF Steps
  <2>3. f[0].ptr = p /\ f[0].out = <<>> /\ 12 \in Nat BY <1>2
  <2>4. Message!ParseLabel(m, f[0]) = [ptr |-> 12, out |-> f[0].out] BY <1>1, <2>2, <2>3, PointerFollowed
  <2> QED BY <2>2, <2>3, <2>4
<1>4. <<>> \in Seq(Nat) /\ 1 \in Nat /\ 2 * 1 + Len(host) + 3 <= Len(m) BY <1>1
<1>5. f[Message!Enough(m)].out = <<>> \o host BY <1>2, <1>3, <1>4, NameRead
<1> QED BY <1>2, <1>5

LEMMA TwoLetters == (<<>> \o <<121>>) \o <<46>> = <<121, 46>>
<1> DEFINE a == <<121>>
           b == <<46>>
           s == <<121, 46>>
<1>1. a \in Seq(Nat) /\ b \in Seq(Nat) /\ Len(a) = 1 /\ Len(b) = 1 /\ a[1] = 121 /\ b[1] = 46 OBVIOUS
<1>2. s \in Seq(Nat) /\ Len(s) = 2 /\ s[1] = 121 /\ s[2] = 46 OBVIOUS
<1> HIDE DEF a, b, s
<1>3. <<>> \o a = a BY <1>1
<1>4. /\ a \o b \in Seq(Nat) /\ Len(a \o b) = Len(a) + Len(b)
      /\ \A x \in 1..(Len(a) + Len(b)) : (a \o b)[x] = IF x <= Len(a) THEN a[x] ELSE b[x - Len(a)]
  BY <1>1, ConcatIs, ZenonT(30)
<1> DEFINE c == a \o b
<1> HIDE DEF c
<1>5. c \in Seq(Nat) /\ Len(c) = 2 /\ \A x \in 1..2 : c[x] = IF x <= 1 THEN a[x] ELSE b[x - 1]
  BY <1>1, <1>4 DEF c
<1>7. c[1] = a[1] /\ c[2] = b[1] BY <1>5
<1>8. \A x \in 1..2 : x = 1 \/ x = 2 OBVIOUS
<1>9. \A x \in 1..2 : c[x] = s[x] BY <1>1, <1>2, <1>7, <1>8
<1>6. c = s BY <1>2, <1>5, <1>9, SameSeq, SMTT(30)
<1>10. (<<>> \o a) \o b = s BY <1>3, <1>6 DEF c
<1> QED BY <1>10 DEF a, b, s

\* ... and of its alias
LEMMA AliasNamed ==
  ASSUME NEW host \in Seq(Chars), Message!Proper(host), Len(host) <= 125,
         NEW m, NEW n, Starts(m, host, n), NEW c \in Nat, NEW p \in Nat,
         Points(m, p, c), AliasAt(m, c)
  PROVE  Message!dns_parse_name(m, p) = <<121, 46>> \o host
<1>12. m \in Seq(Nat) /\ Len(m) \in Nat /\ Len(m) >= Len(host) + 18 /\ Len(host) \in Nat BY StartsIs
<1>1. /\ m \in Seq(Nat) /\ Message!Enough(m) \in Nat /\ Message!Enough(m) >= 3
      /\ Len(host) \in Nat /\ Len(m) >= Len(host) + 18 /\ Len(m) \in Nat
  <2>1. Message!Enough(m) \in Nat /\ 2 * Message!Enough(m) + 1 >= Len(m) BY <1>12, EnoughIs
  <2> QED BY <1>12, <2>1
<1>11. PICK f : ParseRun(m, p, f) BY <1>1, ParseRuns
<1>2. /\ f \in [0..Message!Enough(m) -> Reads] /\ f[0] = [ptr |-> p, out |-> <<>>]
      /\ Steps(m, f)
      /\ Message!dns_parse_name(m, p) = f[Message!Enough(m)].out
  BY <1>11 DEF ParseRun
<1>3. /\ 1 \in 1..Message!Enough(m) /\ 2 \in 1..Message!Enough(m) /\ 3 \in 1..Message!Enough(m)
      /\ 1 - 1 = 0 /\ 2 - 1 = 1 /\ 3 - 1 = 2
      /\ 0 \in 0..Message!Enough(m) /\ 1 \in 0..Message!Enough(m) /\ 2 \in 0..Message!Enough(m)
  BY <1>1
<1>4. f[0] \in Reads /\ f[1] \in Reads /\ f[2] \in Reads BY <1>2, <1>3
<1>5. /\ f[1] = Message!ParseLabel(m, f[0]) /\ f[2] = Message!ParseLabel(m, f[1])
      /\ f[3] = Message!ParseLabel(m, f[2])
  BY <1>2, <1>3 DEF Steps
<1>6. f[1] = [ptr |-> c, out |-> <<>>]
  <2>1. f[0].ptr = p /\ f[0].out = <<>> BY <1>2
  <2>2. Message!ParseLabel(m, f[0]) = [ptr |-> c, out |-> f[0].out] BY <1>1, <1>4, <2>1, PointerFollowed
  <2> QED BY <2>1, <2>2, <1>5
<1>7. f[2] = [ptr |-> c + 2, out |-> <<121, 46>>]
  <2>1. f[1].ptr = c /\ f[1].out = <<>> BY <1>6
  <2> DEFINE b == Message!Bytes(m, c + 1, 1)
  <2>8. Message!At(m, c) = 1 /\ Message!At(m, c + 1) = 121 /\ Message!At(m, c + 2) = 192
    BY DEF AliasAt, Points
  <2>2. c + 1 + 1 = c + 2 /\ c + 1 \in Nat /\ 1 \in Nat OBVIOUS
  <2>9. Parsed(m, f[1]) BY <1>1, <1>4, ParseLabelIs
  <2>10. Message!At(m, f[1].ptr) = 1 BY <2>1, <2>8
  <2>11. Message!ParseLabel(m, f[1]) =
           [ptr |-> f[1].ptr + 1 + 1,
            out |-> f[1].out \o Message!Bytes(m, f[1].ptr + 1, 1)
                      \o (IF Message!At(m, f[1].ptr + 1 + 1) # 0 THEN <<46>> ELSE <<>>)]
    BY <2>9, <2>10 DEF Parsed
  <2>3. f[2] = [ptr |-> c + 1 + 1,
                out |-> <<>> \o b \o (IF Message!At(m, c + 1 + 1) # 0 THEN <<46>> ELSE <<>>)]
    BY <2>1, <2>11, <1>5
  <2>12. Message!At(m, c + 1 + 1) # 0 BY <2>2, <2>8
  <2> HIDE DEF b
  <2>4. f[2] = [ptr |-> c + 2, out |-> (<<>> \o b) \o <<46>>] BY <2>2, <2>3, <2>12
  <2> USE DEF b
  <2>5. b \in Seq(Nat) /\ Len(b) = 1 /\ b[1] = Message!At(m, c + 1)
    <3>1. /\ b \in Seq(Nat) /\ Len(b) = 1 /\ \A i \in 1..1 : b[i] = Message!At(m, c + 1 + i - 1)
      BY <1>1, <2>2, BytesAre
    <3>2. c + 1 + 1 - 1 = c + 1 /\ 1 \in 1..1 OBVIOUS
    <3>3. b[1] = Message!At(m, c + 1 + 1 - 1) BY <3>1, <3>2
    <3> QED BY <3>1, <3>2, <3>3
  <2> HIDE DEF b
  <2>6. b = <<121>> BY <2>5, <2>8
  <2>7. (<<>> \o <<121>>) \o <<46>> = <<121, 46>> BY TwoLetters
  <2> QED BY <2>4, <2>6, <2>7
<1>8. f[3] = [ptr |-> 12, out |-> <<121, 46>>]
  <2>1. f[2].ptr = c + 2 /\ f[2].out = <<121, 46>> BY <1>7
  <2>2. Points(m, c + 2, 12) /\ 12 \in Nat BY DEF AliasAt
  <2>3. Message!ParseLabel(m, f[2]) = [ptr |-> 12, out |-> f[2].out] BY <1>1, <1>4, <2>1, <2>2, PointerFollowed, ZenonT(30)
  <2> QED BY <2>1, <2>3, <1>5
<1>9. <<121, 46>> \in Seq(Nat) /\ 3 \in Nat /\ 2 * 3 + Len(host) + 3 <= Len(m) BY <1>1
<1>10. f[Message!Enough(m)].out = <<121, 46>> \o host BY <1>2, <1>8, <1>9, NameRead, ZenonT(30)
<1> QED BY <1>2, <1>10

\* What dns_parse_response finds in a record at p, whose alias stands before it if it has one.
\* What is read of the address record r, the i-th one, at position p.
Owner(r, host) == (IF r = "alias" THEN <<121, 46>> ELSE <<>>) \o host
ReadBack(m, host, r, i, p) ==
  /\ Message!Bytes(m, p + 12, 4) = Message!Address(i)
  /\ Message!dns_parse_name(m, p) = Owner(r, host)
AfterAlias(m, p) == \E i0 \in Nat, p0 \in Nat : PlacedAt(m, "cname", i0, p0, p)

LEMMA RecordRead ==
  ASSUME NEW host \in Seq(Chars), Message!Proper(host), Len(host) <= 125,
         NEW m, NEW n, Starts(m, host, n), NEW r \in {"host", "alias"}, NEW i \in Nat, NEW p, NEW next,
         PlacedAt(m, r, i, p, next), r = "alias" => AfterAlias(m, p)
  PROVE  ReadBack(m, host, r, i, p)
<1> DEFINE d == Message!RData(r, i)
<1>7. r \in Kinds BY DEF Kinds
<1>1. d = <<10, 0, 0, i>> /\ Len(d) = 4 BY <1>7, RDataIs
<1>2. m \in Seq(Nat) BY DEF Starts
<1>3. /\ p \in Nat /\ p >= 18
      /\ Message!At(m, p) = 192 /\ Message!At(m, p + 1) = (IF r = "alias" THEN p - 4 ELSE 12)
      /\ \A t \in 1..4 : Message!At(m, p + 11 + t) = d[t]
  BY <1>1 DEF PlacedAt
<1> HIDE DEF d
<1>4. Message!Bytes(m, p + 12, 4) = Message!Address(i)
  <2> DEFINE b == Message!Bytes(m, p + 12, 4)
             a == <<10, 0, 0, i>>
  <2>1. p + 12 \in Nat /\ 4 \in Nat BY <1>3
  <2>2. b \in Seq(Nat) /\ Len(b) = 4 /\ \A t \in 1..4 : b[t] = Message!At(m, p + 12 + t - 1)
    BY <1>2, <2>1, BytesAre
  <2>3. \A t \in 1..4 : p + 12 + t - 1 = p + 11 + t BY <1>3
  <2> HIDE DEF b
  <2>4. \A t \in 1..4 : b[t] = a[t] BY <1>1, <1>3, <2>2, <2>3
  <2>5. a \in Seq(Nat) /\ Len(a) = 4 OBVIOUS
  <2> HIDE DEF a
  <2>6. b = a BY <2>2, <2>4, <2>5, SameSeq
  <2> QED BY <2>6 DEF b, a, Message!Address
<1>5. CASE r = "host"
  <2>1. Points(m, p, 12) BY <1>3, <1>5 DEF Points
  <2>2. Message!dns_parse_name(m, p) = host BY <1>3, <2>1, HostNamed
  <2>3. <<>> \o host = host OBVIOUS
  <2> QED BY <1>4, <1>5, <2>2, <2>3 DEF ReadBack, Owner
<1>6. CASE r = "alias"
  <2>1. PICK i0 \in Nat, p0 \in Nat : PlacedAt(m, "cname", i0, p0, p) BY <1>6 DEF AfterAlias
  <2> DEFINE d0 == Message!RData("cname", i0)
  <2>2. d0 = <<1, 121, 192, 12>> /\ Len(d0) = 4 BY RDataIs DEF Kinds
  <2>3. p0 \in Nat /\ p = p0 + 12 + 4 /\ \A t \in 1..4 : Message!At(m, p0 + 11 + t) = d0[t]
    BY <2>1, <2>2 DEF PlacedAt
  <2> HIDE DEF d0
  <2> DEFINE c == p - 4
  <2>4. c \in Nat /\ p0 + 11 + 1 = c /\ p0 + 11 + 2 = c + 1 /\ p0 + 11 + 3 = c + 2 /\ p0 + 11 + 4 = c + 3
    BY <2>3
  <2>5. /\ Message!At(m, p0 + 11 + 1) = d0[1] /\ Message!At(m, p0 + 11 + 2) = d0[2]
        /\ Message!At(m, p0 + 11 + 3) = d0[3] /\ Message!At(m, p0 + 11 + 4) = d0[4]
    <3>1. 1 \in 1..4 /\ 2 \in 1..4 /\ 3 \in 1..4 /\ 4 \in 1..4 OBVIOUS
    <3> QED BY <2>3, <3>1
  <2>6. Points(m, p, c) BY <1>3, <1>6 DEF Points
  <2> HIDE DEF c
  <2>7. /\ Message!At(m, c) = 1 /\ Message!At(m, c + 1) = 121
        /\ Message!At(m, c + 2) = 192 /\ Message!At(m, c + 3) = 12
    BY <2>2, <2>4, <2>5
  <2>9. AliasAt(m, c)
    <3>1. c + 2 + 1 = c + 3 BY <2>4
    <3> QED BY <2>7, <3>1 DEF AliasAt, Points
  <2>8. Message!dns_parse_name(m, p) = <<121, 46>> \o host BY <1>3, <2>4, <2>6, <2>9, AliasNamed
  <2> QED BY <1>4, <1>6, <2>8 DEF ReadBack, Owner
<1> QED BY <1>5, <1>6

-----------------------------------------------------------------------------
(* The addresses that are found *)

LEMMA U16Is == ASSUME NEW m \in Seq(Nat), NEW p \in Nat PROVE Message!U16(m, p) \in Nat
<1>1. Message!At(m, p) \in Nat BY AtIs
<1>2. p + 1 \in Nat OBVIOUS
<1>3. Message!At(m, p + 1) \in Nat BY <1>2, AtIs
<1> QED BY <1>1, <1>3 DEF Message!U16

Entries == [domain : Seq(Nat), ip : Seq(Nat)]
AsyncFinds == [ptr : Nat, found : Seq(Entries)]
Test5Finds == [ptr : Nat, found : Seq(Octets)]

LEMMA EntryIs ==
  ASSUME NEW m \in Seq(Nat), NEW p \in Nat
  PROVE  [domain |-> Message!dns_parse_name(m, p), ip |-> Message!Bytes(m, p + 12, 4)] \in Entries
<1>1. PICK f : ParseRun(m, p, f) BY ParseRuns
<1>2. /\ f \in [0..Message!Enough(m) -> Reads]
      /\ Message!dns_parse_name(m, p) = f[Message!Enough(m)].out
  BY <1>1 DEF ParseRun
<1>3. Message!Enough(m) \in 0..Message!Enough(m) BY EnoughIs
<1>4. f[Message!Enough(m)] \in Reads BY <1>2, <1>3
<1>5. Message!dns_parse_name(m, p) \in Seq(Nat) BY <1>2, <1>4 DEF Reads
<1>6. p + 12 \in Nat /\ 4 \in Nat OBVIOUS
<1>7. Message!Bytes(m, p + 12, 4) \in Seq(Nat) BY <1>6, BytesAre
<1> QED BY <1>5, <1>7 DEF Entries

\* A turn of dns_parse_response
AsyncTurn(m, q) ==
  LET type == Message!U16(m, q.ptr + 2)  datalen == Message!U16(m, q.ptr + 10)
      r == Message!AsyncRecord(m, q)
      entry == [domain |-> Message!dns_parse_name(m, q.ptr), ip |-> Message!Bytes(m, q.ptr + 12, 4)]
  IN  /\ q.ptr \in Nat /\ q.found \in Seq(Entries) /\ entry \in Entries /\ r \in AsyncFinds
      /\ r.ptr = (IF type \in {1, 5} THEN q.ptr + 12 + datalen ELSE q.ptr + 12)
      /\ r.found = (IF type = 1 /\ datalen = 4 THEN Append(q.found, entry) ELSE q.found)

LEMMA AsyncTurnIs == ASSUME NEW m \in Seq(Nat), NEW q \in AsyncFinds PROVE AsyncTurn(m, q)
<1> DEFINE type == Message!U16(m, q.ptr + 2)
           datalen == Message!U16(m, q.ptr + 10)
           entry == [domain |-> Message!dns_parse_name(m, q.ptr), ip |-> Message!Bytes(m, q.ptr + 12, 4)]
           next == IF type \in {1, 5} THEN q.ptr + 12 + datalen ELSE q.ptr + 12
           found == IF type = 1 /\ datalen = 4 THEN Append(q.found, entry) ELSE q.found
           r == Message!AsyncRecord(m, q)
<1>1. q.ptr \in Nat /\ q.found \in Seq(Entries) /\ q.ptr + 2 \in Nat /\ q.ptr + 10 \in Nat BY DEF AsyncFinds
<1>2. type \in Nat /\ datalen \in Nat BY <1>1, U16Is
<1>3. entry \in Entries BY <1>1, EntryIs
<1>4. r = [ptr |-> next, found |-> found]
  BY DEF Message!AsyncRecord, Message!NextRecord, Message!DNS_HOST, Message!DNS_CNAME
<1> HIDE DEF type, datalen, entry, r
<1>5. next \in Nat BY <1>1, <1>2
<1>6. found \in Seq(Entries) BY <1>1, <1>3
<1> HIDE DEF next, found
<1>7. r \in AsyncFinds /\ r.ptr = next /\ r.found = found BY <1>4, <1>5, <1>6 DEF AsyncFinds
<1> QED BY <1>1, <1>3, <1>7 DEF AsyncTurn, type, datalen, entry, r, next, found

\* A turn of print_dns_a_records
Test5Turn(m, q) ==
  LET type == Message!U16(m, q.ptr + 2)  clas == Message!U16(m, q.ptr + 4)
      rdlength == Message!U16(m, q.ptr + 10)
      r == Message!Test5Record(m, q)
      entry == Message!Bytes(m, q.ptr + 12, 4)
  IN  /\ q.ptr \in Nat /\ q.found \in Seq(Octets) /\ entry \in Octets /\ r \in Test5Finds
      /\ q.ptr + 12 <= Len(m) =>
           /\ r.ptr = q.ptr + 12 + rdlength
           /\ r.found = (IF type = 1 /\ clas = 1 /\ rdlength = 4 THEN Append(q.found, entry) ELSE q.found)

LEMMA Test5TurnIs == ASSUME NEW m \in Seq(Nat), NEW q \in Test5Finds PROVE Test5Turn(m, q)
<1> DEFINE type == Message!U16(m, q.ptr + 2)
           clas == Message!U16(m, q.ptr + 4)
           rdlength == Message!U16(m, q.ptr + 10)
           entry == Message!Bytes(m, q.ptr + 12, 4)
           found == IF type = 1 /\ clas = 1 /\ rdlength = 4 THEN Append(q.found, entry) ELSE q.found
           r == Message!Test5Record(m, q)
           s == [ptr |-> q.ptr + 12 + rdlength, found |-> found]
<1>1. q.ptr \in Nat /\ q.found \in Seq(Octets) /\ q.ptr + 10 \in Nat /\ q.ptr + 12 \in Nat BY DEF Test5Finds
<1>2. rdlength \in Nat BY <1>1, U16Is
<1>3. entry \in Octets
  <2>1. 4 \in Nat OBVIOUS
  <2> QED BY <1>1, <2>1, BytesAre DEF Octets
<1>4. r = IF q.ptr + 12 > Len(m) THEN q ELSE s BY DEF Message!Test5Record, Message!DNS_HOST
<1> HIDE DEF type, clas, rdlength, entry, r
<1>5. q.ptr + 12 + rdlength \in Nat BY <1>1, <1>2
<1>6. found \in Seq(Octets) BY <1>1, <1>3
<1> HIDE DEF found
<1>7. s \in Test5Finds /\ s.ptr = q.ptr + 12 + rdlength /\ s.found = found BY <1>5, <1>6 DEF Test5Finds
<1>8. q.ptr + 12 <= Len(m) => ~(q.ptr + 12 > Len(m)) BY <1>1
<1> HIDE DEF s
<1>9. r \in Test5Finds BY <1>4, <1>7
<1>10. q.ptr + 12 <= Len(m) => r.ptr = q.ptr + 12 + rdlength /\ r.found = found BY <1>4, <1>7, <1>8
<1> QED BY <1>1, <1>3, <1>9, <1>10 DEF Test5Turn, type, clas, rdlength, entry, r, found

\* The loop of dns_parse_response ...
LEMMA AsyncLoop ==
  ASSUME NEW m \in Seq(Nat), Message!FirstRecord(m) \in Nat, Message!U16(m, 6) \in Nat
  PROVE  \E f \in [0..Message!U16(m, 6) -> AsyncFinds] :
           /\ f[0] = [ptr |-> Message!FirstRecord(m), found |-> <<>>]
           /\ \A k \in 1..Message!U16(m, 6) : f[k] = Message!AsyncRecord(m, f[k - 1])
           /\ Message!dns_parse_response(m) = f[Message!U16(m, 6)].found
<1> DEFINE N == Message!U16(m, 6)
           start == [ptr |-> Message!FirstRecord(m), found |-> <<>>]
           G(g) == [k \in 0..N |-> IF k = 0 THEN start ELSE Message!AsyncRecord(m, g[k - 1])]
           F == [k \in 1..N |-> [q \in AsyncFinds |-> Message!AsyncRecord(m, q)]]
           h == Turns(AsyncFinds, start, F, N)
           f == CHOOSE g : g = G(g)
<1>1. N \in Nat /\ start \in AsyncFinds BY DEF AsyncFinds
<1>2. ASSUME NEW k \in 1..N, NEW q \in AsyncFinds PROVE Message!AsyncRecord(m, q) \in AsyncFinds
  BY AsyncTurnIs DEF AsyncTurn
<1>3. F \in [1..N -> [AsyncFinds -> AsyncFinds]] BY <1>2
<1>4. Message!dns_parse_response(m) = f[Message!U16(m, 6)].found BY Zenon DEF Message!dns_parse_response, f
<1> HIDE DEF N, start
<1>5. h \in [0..N -> AsyncFinds] /\ h[0] = start /\ \A k \in 1..N : h[k] = F[k][h[k - 1]]
  <2> HIDE DEF F
  <2>1. h \in [0..N -> AsyncFinds] BY <1>1, <1>3, TurnsAre
  <2>2. h[0] = start BY <1>1, <1>3, TurnsAre
  <2>3. ASSUME NEW k \in 1..N PROVE h[k] = F[k][h[k - 1]] BY <1>1, <1>3, TurnIs
  <2> QED BY <2>1, <2>2, <2>3
<1> HIDE DEF h
<1>6. h = G(h)
  <2>1. ASSUME NEW k \in 0..N PROVE h[k] = G(h)[k]
    <3>1. CASE k = 0 BY <3>1, <1>5
    <3>2. CASE k # 0
      <4>1. k \in 1..N /\ k - 1 \in 0..N BY <3>2, <1>1
      <4>2. h[k] = F[k][h[k - 1]] /\ h[k - 1] \in AsyncFinds BY <4>1, <1>5
      <4> QED BY <4>1, <4>2, <3>2
    <3> QED BY <3>1, <3>2
  <2>2. h = [k \in 0..N |-> h[k]] /\ G(h) = [k \in 0..N |-> G(h)[k]] BY <1>5
  <2> HIDE DEF G
  <2> QED BY <2>1, <2>2
<1>7. f = G(f)
  <2> HIDE DEF G
  <2> QED BY <1>6
<1> HIDE DEF f, F
<1>8. f[0] = start /\ \A k \in 1..N : f[k] = Message!AsyncRecord(m, f[k - 1])
  <2>1. ASSUME NEW k \in 0..N
        PROVE  f[k] = IF k = 0 THEN start ELSE Message!AsyncRecord(m, f[k - 1])
    BY <1>7
  <2>2. 0 \in 0..N /\ \A k \in 1..N : k \in 0..N /\ k # 0 BY <1>1
  <2> QED BY <2>1, <2>2
<1>9. f \in [0..N -> AsyncFinds]
  <2> DEFINE Good == {k \in 0..N : f[k] \in AsyncFinds}
  <2>1. 0 \in Good BY <1>1, <1>8
  <2>2. ASSUME NEW k \in 1..N, k - 1 \in Good PROVE k \in Good
    <3>1. f[k] = Message!AsyncRecord(m, f[k - 1]) /\ f[k - 1] \in AsyncFinds BY <1>8, <2>2
    <3>2. f[k] \in AsyncFinds BY <3>1, <1>2
    <3> QED BY <3>2, <1>1
  <2>3. Good \in SUBSET Nat BY <1>1
  <2> HIDE DEF Good
  <2>4. \A k \in 0..N : k \in Good BY <1>1, <2>1, <2>2, <2>3, UpTo
  <2>5. \A k \in 0..N : f[k] \in AsyncFinds BY <2>4 DEF Good
  <2>6. f = [k \in 0..N |-> f[k]] BY <1>7
  <2> QED BY <2>5, <2>6
<1> QED BY <1>4, <1>8, <1>9 DEF N, start

\* ... and that of print_dns_a_records
LEMMA Test5Loop ==
  ASSUME NEW m \in Seq(Nat), Message!FirstRecord(m) \in Nat, Message!U16(m, 6) \in Nat
  PROVE  \E f \in [0..Message!U16(m, 6) -> Test5Finds] :
           /\ f[0] = [ptr |-> Message!FirstRecord(m), found |-> <<>>]
           /\ \A k \in 1..Message!U16(m, 6) : f[k] = Message!Test5Record(m, f[k - 1])
           /\ Message!print_dns_a_records(m) = f[Message!U16(m, 6)].found
<1> DEFINE N == Message!U16(m, 6)
           start == [ptr |-> Message!FirstRecord(m), found |-> <<>>]
           G(g) == [k \in 0..N |-> IF k = 0 THEN start ELSE Message!Test5Record(m, g[k - 1])]
           F == [k \in 1..N |-> [q \in Test5Finds |-> Message!Test5Record(m, q)]]
           h == Turns(Test5Finds, start, F, N)
           f == CHOOSE g : g = G(g)
<1>1. N \in Nat /\ start \in Test5Finds BY DEF Test5Finds
<1>2. ASSUME NEW k \in 1..N, NEW q \in Test5Finds PROVE Message!Test5Record(m, q) \in Test5Finds
  BY Test5TurnIs DEF Test5Turn
<1>3. F \in [1..N -> [Test5Finds -> Test5Finds]] BY <1>2
<1>4. Message!print_dns_a_records(m) = f[Message!U16(m, 6)].found BY Zenon DEF Message!print_dns_a_records, f
<1> HIDE DEF N, start
<1>5. h \in [0..N -> Test5Finds] /\ h[0] = start /\ \A k \in 1..N : h[k] = F[k][h[k - 1]]
  <2> HIDE DEF F
  <2>1. h \in [0..N -> Test5Finds] BY <1>1, <1>3, TurnsAre
  <2>2. h[0] = start BY <1>1, <1>3, TurnsAre
  <2>3. ASSUME NEW k \in 1..N PROVE h[k] = F[k][h[k - 1]] BY <1>1, <1>3, TurnIs
  <2> QED BY <2>1, <2>2, <2>3
<1> HIDE DEF h
<1>6. h = G(h)
  <2>1. ASSUME NEW k \in 0..N PROVE h[k] = G(h)[k]
    <3>1. CASE k = 0 BY <3>1, <1>5
    <3>2. CASE k # 0
      <4>1. k \in 1..N /\ k - 1 \in 0..N BY <3>2, <1>1
      <4>2. h[k] = F[k][h[k - 1]] /\ h[k - 1] \in Test5Finds BY <4>1, <1>5
      <4> QED BY <4>1, <4>2, <3>2
    <3> QED BY <3>1, <3>2
  <2>2. h = [k \in 0..N |-> h[k]] /\ G(h) = [k \in 0..N |-> G(h)[k]] BY <1>5
  <2> HIDE DEF G
  <2> QED BY <2>1, <2>2
<1>7. f = G(f)
  <2> HIDE DEF G
  <2> QED BY <1>6
<1> HIDE DEF f, F
<1>8. f[0] = start /\ \A k \in 1..N : f[k] = Message!Test5Record(m, f[k - 1])
  <2>1. ASSUME NEW k \in 0..N
        PROVE  f[k] = IF k = 0 THEN start ELSE Message!Test5Record(m, f[k - 1])
    BY <1>7
  <2>2. 0 \in 0..N /\ \A k \in 1..N : k \in 0..N /\ k # 0 BY <1>1
  <2> QED BY <2>1, <2>2
<1>9. f \in [0..N -> Test5Finds]
  <2> DEFINE Good == {k \in 0..N : f[k] \in Test5Finds}
  <2>1. 0 \in Good BY <1>1, <1>8
  <2>2. ASSUME NEW k \in 1..N, k - 1 \in Good PROVE k \in Good
    <3>1. f[k] = Message!Test5Record(m, f[k - 1]) /\ f[k - 1] \in Test5Finds BY <1>8, <2>2
    <3>2. f[k] \in Test5Finds BY <3>1, <1>2
    <3> QED BY <3>2, <1>1
  <2>3. Good \in SUBSET Nat BY <1>1
  <2> HIDE DEF Good
  <2>4. \A k \in 0..N : k \in Good BY <1>1, <2>1, <2>2, <2>3, UpTo
  <2>5. \A k \in 0..N : f[k] \in Test5Finds BY <2>4 DEF Good
  <2>6. f = [k \in 0..N |-> f[k]] BY <1>7
  <2> QED BY <2>5, <2>6
<1> QED BY <1>4, <1>8, <1>9 DEF N, start

LEMMA MessageCardinality == \A S : Message!Cardinality(S) = Cardinality(S)
BY DEF Message!Cardinality, Cardinality

LEMMA RankIs ==
  ASSUME NEW k \in Nat
  PROVE  /\ Message!Rank(k) \in Nat /\ (k = 0 => Message!Rank(k) = 0)
         /\ k # 0 => Message!Rank(k) = IF Message!IsAddress(k) THEN Message!Rank(k - 1) + 1
                                       ELSE Message!Rank(k - 1)
<1> DEFINE S(i) == {j \in 1..i : Message!IsAddress(j)}
<1>1. \A i : Message!Rank(i) = Cardinality(S(i)) BY MessageCardinality DEF Message!Rank
<1>2. \A i \in Nat : IsFiniteSet(S(i)) /\ Cardinality(S(i)) \in Nat
  <2>1. ASSUME NEW i \in Nat PROVE IsFiniteSet(S(i)) /\ Cardinality(S(i)) \in Nat
    <3>1. IsFiniteSet(1..i) BY FS_Interval
    <3>2. S(i) \subseteq 1..i OBVIOUS
    <3> HIDE DEF S
    <3>3. IsFiniteSet(S(i)) BY <3>1, <3>2, FS_Subset
    <3> QED BY <3>3, FS_CardinalityType
  <2> QED BY <2>1
<1>3. k = 0 => Cardinality(S(k)) = 0
  <2>1. k = 0 => S(k) = {} OBVIOUS
  <2> HIDE DEF S
  <2> QED BY <2>1, FS_EmptySet
<1>4. ASSUME k # 0
      PROVE  Cardinality(S(k)) = IF Message!IsAddress(k) THEN Cardinality(S(k - 1)) + 1
                                 ELSE Cardinality(S(k - 1))
  <2>1. k - 1 \in Nat /\ k \notin S(k - 1) BY <1>4
  <2>2. Message!IsAddress(k) => S(k) = S(k - 1) \cup {k}
    <3> HIDE DEF Message!IsAddress
    <3>1. 1..k = (1..(k - 1)) \cup {k} BY <1>4
    <3> QED BY <3>1
  <2>3. ~Message!IsAddress(k) => S(k) = S(k - 1)
    <3>1. 1..k = (1..(k - 1)) \cup {k} BY <1>4
    <3> QED BY <3>1
  <2> HIDE DEF S
  <2>4. IsFiniteSet(S(k - 1)) BY <2>1, <1>2
  <2>5. Cardinality(S(k - 1) \cup {k}) = Cardinality(S(k - 1)) + 1 BY <2>1, <2>4, FS_AddElement
  <2> QED BY <2>2, <2>3, <2>5
<1> HIDE DEF S
<1> QED BY <1>1, <1>2, <1>3, <1>4

LEMMA AppendIs ==
  ASSUME NEW T, NEW s \in Seq(T), NEW e \in T
  PROVE  /\ Len(Append(s, e)) = Len(s) + 1 /\ Append(s, e)[Len(s) + 1] = e
         /\ \A x \in 1..Len(s) : Append(s, e)[x] = s[x]
OBVIOUS

\* What has been found in the first k records, of which those in place have been understood.
Finding(pos, k, q) ==
  /\ \A i \in 1..k : Message!IsAddress(i) /\ Message!InPlace(i) =>
       Message!Rank(i) <= Len(q.found) /\ q.found[Message!Rank(i)] = Message!Expected(i)
  /\ Message!InPlace(k) => q.ptr = pos[k + 1] /\ Len(q.found) = Message!Rank(k)

LEMMA FindingKept ==
  ASSUME NEW pos, NEW k \in Nat \ {0}, NEW T, NEW q, NEW r, Finding(pos, k - 1, q), q.found \in Seq(T),
         NEW e \in T, r.found = q.found \/ r.found = Append(q.found, e),
         Message!InPlace(k) =>
           /\ r.ptr = pos[k + 1]
           /\ Message!IsAddress(k) => r.found = Append(q.found, e) /\ e = Message!Expected(k)
           /\ ~Message!IsAddress(k) => r.found = q.found
  PROVE  Finding(pos, k, r)
<1> DEFINE s == q.found
           R(i) == Message!Rank(i)
           A(i) == Message!IsAddress(i)
           P(i) == Message!InPlace(i)
<1>1. s \in Seq(T) /\ Len(s) \in Nat OBVIOUS
<1>2. P(k) => P(k - 1)
  <2>1. \A j \in 1..(k - 1) : j \in 1..k OBVIOUS
  <2> QED BY <2>1 DEF Message!InPlace
<1>3. k - 1 \in Nat /\ k \in Nat /\ k # 0 /\ k - 1 + 1 = k OBVIOUS
<1>4. /\ \A i \in 1..(k - 1) : A(i) /\ P(i) => R(i) <= Len(s) /\ s[R(i)] = Message!Expected(i)
      /\ P(k - 1) => q.ptr = pos[k] /\ Len(s) = R(k - 1)
  BY <1>3 DEF Finding
<1>5. \A i \in 1..k : R(i) \in Nat /\ (A(i) => R(i) >= 1)
  <2>1. ASSUME NEW i \in 1..k PROVE R(i) \in Nat /\ (A(i) => R(i) >= 1)
    <3>1. i \in Nat /\ i # 0 /\ i - 1 \in Nat BY <1>3
    <3>2. R(i) \in Nat /\ R(i - 1) \in Nat /\ (A(i) => R(i) = R(i - 1) + 1) BY <3>1, RankIs
    <3> HIDE DEF A, R
    <3> QED BY <3>2
  <2> QED BY <2>1
<1>6. R(k) = IF A(k) THEN R(k - 1) + 1 ELSE R(k - 1) BY <1>3, RankIs
<1>7. /\ Len(Append(s, e)) = Len(s) + 1 /\ Append(s, e)[Len(s) + 1] = e
      /\ \A x \in 1..Len(s) : Append(s, e)[x] = s[x]
  BY <1>1, AppendIs
<1> HIDE DEF s, R, A, P
<1>8. Len(r.found) >= Len(s) /\ \A x \in 1..Len(s) : r.found[x] = s[x] BY <1>1, <1>7 DEF s
<1>9. P(k) => /\ r.ptr = pos[k + 1] /\ Len(s) = R(k - 1)
              /\ A(k) => r.found = Append(s, e) /\ e = Message!Expected(k)
              /\ ~A(k) => r.found = s
  BY <1>2, <1>4 DEF P, A, s
<1>10. P(k) => r.ptr = pos[k + 1] /\ Len(r.found) = R(k) BY <1>6, <1>7, <1>9
<1>11. Len(r.found) \in Nat BY <1>1, <1>7 DEF s
<1>12. ASSUME NEW i \in 1..k, A(i), P(i)
       PROVE  R(i) <= Len(r.found) /\ r.found[R(i)] = Message!Expected(i)
  <2>1. CASE i = k
    <3>1. R(k) = Len(s) + 1 /\ r.found = Append(s, e) /\ e = Message!Expected(k) BY <1>6, <1>9, <1>12, <2>1
    <3> QED BY <3>1, <2>1, <1>1, <1>7
  <2>2. CASE i # k
    <3>1. i \in 1..(k - 1) BY <2>2, <1>3
    <3>2. R(i) <= Len(s) /\ s[R(i)] = Message!Expected(i) BY <3>1, <1>4, <1>12
    <3>3. R(i) \in 1..Len(s) BY <3>2, <1>1, <1>5, <1>12
    <3>4. R(i) <= Len(r.found) BY <3>2, <1>1, <1>5, <1>8, <1>11
    <3> QED BY <3>2, <3>3, <3>4, <1>8
  <2> QED BY <2>1, <2>2
<1> QED BY <1>10, <1>12 DEF Finding, R, A, P

\* The message m answers the question about hostname, with its records at pos.
Answering(m, pos) ==
  /\ hostname \in Seq(Chars) /\ Message!Proper(hostname) /\ Len(hostname) <= 125
  /\ records \in Seq(Kinds) /\ Message!Answerable(records)
  /\ Starts(m, hostname, Len(records)) /\ pos[1] = Len(hostname) + 18
  /\ \A i \in 1..Len(records) : PlacedAt(m, records[i], i, pos[i], pos[i + 1])

LEMMA RecordAnswers ==
  ASSUME NEW m, NEW pos, Answering(m, pos), NEW k \in 1..Len(records)
  PROVE  LET p == pos[k] IN
         /\ m \in Seq(Nat) /\ p \in Nat /\ k \in Nat \ {0} /\ records[k] \in Kinds
         /\ p + 12 <= Len(m) /\ pos[k + 1] = p + 12 + Message!U16(m, p + 10)
         /\ Message!U16(m, p + 2) = Message!Type(records[k]) /\ Message!U16(m, p + 4) = 1
         /\ Message!IsAddress(k) =>
              /\ Message!U16(m, p + 10) = 4 /\ Message!Bytes(m, p + 12, 4) = Message!Address(k)
              /\ Message!dns_parse_name(m, p) =
                   (IF records[k] = "alias" THEN <<121, 46>> ELSE <<>>) \o hostname
<1> DEFINE p == pos[k]
           r == records[k]
           d == Message!RData(r, k)
           host == hostname
<1>1. /\ host \in Seq(Chars) /\ Message!Proper(host) /\ Len(host) <= 125 /\ records \in Seq(Kinds)
      /\ Message!Answerable(records) /\ Starts(m, host, Len(records))
      /\ PlacedAt(m, r, k, p, pos[k + 1])
  BY DEF Answering
<1>2. k \in Nat /\ k # 0 /\ r \in Kinds
  <2>1. Len(records) \in Nat /\ r \in Kinds BY <1>1, ElementOfSeq
  <2> QED BY <2>1
<1>3. m \in Seq(Nat) /\ Len(m) \in Nat BY <1>1, StartsIs
<1>4. d \in Seq(Nat) /\ Len(d) \in Nat /\ (r \in {"host", "alias"} => Len(d) = 4) BY <1>2, RDataIs
<1> HIDE DEF d
<1>5. /\ p \in Nat /\ pos[k + 1] = p + 12 + Len(d) /\ p + 12 + Len(d) <= Len(m)
      /\ Message!U16(m, p + 2) = Message!Type(r) /\ Message!U16(m, p + 4) = 1
      /\ Message!U16(m, p + 10) = Len(d)
  BY <1>1 DEF PlacedAt, d
<1>6. ASSUME Message!IsAddress(k)
      PROVE  /\ Message!U16(m, p + 10) = 4 /\ Message!Bytes(m, p + 12, 4) = Message!Address(k)
             /\ Message!dns_parse_name(m, p) = (IF r = "alias" THEN <<121, 46>> ELSE <<>>) \o host
  <2>1. r \in {"host", "alias"} BY <1>6 DEF Message!IsAddress
  <2>2. Message!U16(m, p + 10) = 4 BY <2>1, <1>4, <1>5
  <2>3. ASSUME r = "alias" PROVE AfterAlias(m, p)
    <3>1. k > 1 /\ records[k - 1] = "cname" BY <1>1, <2>3 DEF Message!Answerable
    <3>2. k - 1 \in 1..Len(records) /\ k - 1 \in Nat /\ (k - 1) + 1 = k BY <3>1, <1>2
    <3>3. PlacedAt(m, records[k - 1], k - 1, pos[k - 1], pos[(k - 1) + 1]) BY <3>2 DEF Answering
    <3>4. PlacedAt(m, "cname", k - 1, pos[k - 1], p) BY <3>1, <3>2, <3>3
    <3>5. pos[k - 1] \in Nat BY <3>4 DEF PlacedAt
    <3> QED BY <3>2, <3>4, <3>5 DEF AfterAlias
  <2> HIDE DEF p, r, host
  <2>5. ReadBack(m, host, r, k, p) BY <1>1, <1>2, <2>1, <2>3, RecordRead
  <2>4. /\ Message!Bytes(m, p + 12, 4) = Message!Address(k)
        /\ Message!dns_parse_name(m, p) = (IF r = "alias" THEN <<121, 46>> ELSE <<>>) \o host
    BY <2>5 DEF ReadBack, Owner
  <2> QED BY <2>2, <2>4
<1>7. p + 12 <= Len(m) BY <1>3, <1>4, <1>5, SMTT(30)
<1> HIDE DEF p, r, host
<1> QED BY <1>2, <1>3, <1>5, <1>6, <1>7 DEF p, r, host

LEMMA AsyncFinding ==
  ASSUME NEW m, NEW pos, Answering(m, pos), dns = "async", NEW k \in 1..Len(records),
         NEW q \in AsyncFinds, Finding(pos, k - 1, q)
  PROVE  Finding(pos, k, Message!AsyncRecord(m, q))
<1> DEFINE p == pos[k]
           r == Message!AsyncRecord(m, q)
           type == Message!U16(m, q.ptr + 2)
           datalen == Message!U16(m, q.ptr + 10)
           e == [domain |-> Message!dns_parse_name(m, q.ptr), ip |-> Message!Bytes(m, q.ptr + 12, 4)]
<1>1. /\ m \in Seq(Nat) /\ p \in Nat /\ k \in Nat \ {0} /\ records[k] \in Kinds
      /\ pos[k + 1] = p + 12 + Message!U16(m, p + 10)
      /\ Message!U16(m, p + 2) = Message!Type(records[k])
      /\ Message!IsAddress(k) =>
           /\ Message!U16(m, p + 10) = 4 /\ Message!Bytes(m, p + 12, 4) = Message!Address(k)
           /\ Message!dns_parse_name(m, p) =
                (IF records[k] = "alias" THEN <<121, 46>> ELSE <<>>) \o hostname
  BY RecordAnswers
<1>2. AsyncTurn(m, q) BY <1>1, AsyncTurnIs
<1>3. /\ q.found \in Seq(Entries) /\ e \in Entries
      /\ r.ptr = (IF type \in {1, 5} THEN q.ptr + 12 + datalen ELSE q.ptr + 12)
      /\ r.found = (IF type = 1 /\ datalen = 4 THEN Append(q.found, e) ELSE q.found)
  BY <1>2 DEF AsyncTurn
<1>4. ASSUME Message!InPlace(k)
      PROVE  /\ r.ptr = pos[k + 1]
             /\ Message!IsAddress(k) => r.found = Append(q.found, e) /\ e = Message!Expected(k)
             /\ ~Message!IsAddress(k) => r.found = q.found
  <2>1. records[k] # "other"
    <3>1. k \in 1..k BY <1>1
    <3> QED BY <3>1, <1>4 DEF Message!InPlace
  <2>2. q.ptr = p
    <3>1. \A j \in 1..(k - 1) : j \in 1..k BY <1>1
    <3>2. Message!InPlace(k - 1) BY <3>1, <1>4 DEF Message!InPlace
    <3>3. k - 1 + 1 = k BY <1>1
    <3> QED BY <3>2, <3>3 DEF Finding
  <2>3. /\ Message!IsAddress(k) <=> records[k] \in {"host", "alias"}
        /\ records[k] \in {"host", "alias", "cname"}
    BY <1>1, <2>1 DEF Message!IsAddress, Kinds
  <2>4. type = IF Message!IsAddress(k) THEN 1 ELSE 5
    BY <1>1, <2>2, <2>3 DEF Message!Type, Message!DNS_CNAME, Message!Other, Message!DNS_HOST
  <2>5. r.ptr = pos[k + 1] BY <1>1, <1>3, <2>2, <2>4
  <2>6. ASSUME Message!IsAddress(k) PROVE r.found = Append(q.found, e) /\ e = Message!Expected(k)
    <3>1. datalen = 4 BY <1>1, <2>2, <2>6
    <3>2. r.found = Append(q.found, e) BY <1>3, <2>4, <2>6, <3>1
    <3>3. e = [domain |-> (IF records[k] = "alias" THEN <<121, 46>> ELSE <<>>) \o hostname,
               ip |-> Message!Address(k)]
      BY <1>1, <2>2, <2>6
    <3>4. dns # "test5" OBVIOUS
    <3>5. e = Message!Expected(k) BY <3>3, <3>4 DEF Message!Expected, Message!Letter, Message!Dot
    <3> QED BY <3>2, <3>5
  <2>7. ~Message!IsAddress(k) => r.found = q.found BY <1>3, <2>4
  <2> QED BY <2>5, <2>6, <2>7
<1>5. r.found = q.found \/ r.found = Append(q.found, e) BY <1>3
<1> HIDE DEF r, e, p
<1>6. Finding(pos, k, r) BY <1>1, <1>3, <1>4, <1>5, FindingKept
<1> QED BY <1>6 DEF r

LEMMA Test5Finding ==
  ASSUME NEW m, NEW pos, Answering(m, pos), dns = "test5", NEW k \in 1..Len(records),
         NEW q \in Test5Finds, Finding(pos, k - 1, q)
  PROVE  Finding(pos, k, Message!Test5Record(m, q))
<1> DEFINE p == pos[k]
           r == Message!Test5Record(m, q)
           type == Message!U16(m, q.ptr + 2)
           clas == Message!U16(m, q.ptr + 4)
           rdlength == Message!U16(m, q.ptr + 10)
           e == Message!Bytes(m, q.ptr + 12, 4)
<1>1. /\ m \in Seq(Nat) /\ p \in Nat /\ k \in Nat \ {0} /\ records[k] \in Kinds
      /\ p + 12 <= Len(m) /\ pos[k + 1] = p + 12 + Message!U16(m, p + 10)
      /\ Message!U16(m, p + 2) = Message!Type(records[k]) /\ Message!U16(m, p + 4) = 1
      /\ Message!IsAddress(k) =>
           Message!U16(m, p + 10) = 4 /\ Message!Bytes(m, p + 12, 4) = Message!Address(k)
  BY RecordAnswers
<1>2. q.ptr = p
  <2>1. Message!InPlace(k - 1) BY DEF Message!InPlace
  <2>2. k - 1 + 1 = k BY <1>1
  <2> QED BY <2>1, <2>2 DEF Finding
<1>3. Test5Turn(m, q) BY <1>1, Test5TurnIs
<1>4. /\ q.found \in Seq(Octets) /\ e \in Octets /\ r.ptr = q.ptr + 12 + rdlength
      /\ r.found = (IF type = 1 /\ clas = 1 /\ rdlength = 4 THEN Append(q.found, e) ELSE q.found)
  BY <1>1, <1>2, <1>3 DEF Test5Turn
<1>5. Message!IsAddress(k) <=> records[k] \in {"host", "alias"} BY DEF Message!IsAddress
<1>6. type = 1 <=> Message!IsAddress(k)
  <2>1. records[k] \in {"host", "alias", "cname", "other"} BY <1>1 DEF Kinds
  <2>2. type = Message!Type(records[k]) BY <1>1, <1>2
  <2>3. Message!Type(records[k]) = 1 <=> records[k] \in {"host", "alias"}
    BY <2>1 DEF Message!Type, Message!DNS_CNAME, Message!Other, Message!DNS_HOST
  <2> QED BY <2>2, <2>3, <1>5
<1>7. r.ptr = pos[k + 1] BY <1>1, <1>2, <1>4
<1>8. ASSUME Message!IsAddress(k) PROVE r.found = Append(q.found, e) /\ e = Message!Expected(k)
  <2>1. rdlength = 4 /\ clas = 1 BY <1>1, <1>2, <1>8
  <2>2. r.found = Append(q.found, e) BY <1>4, <1>6, <1>8, <2>1
  <2>3. e = Message!Address(k) BY <1>1, <1>2, <1>8
  <2> QED BY <2>2, <2>3 DEF Message!Expected
<1>9. ~Message!IsAddress(k) => r.found = q.found BY <1>4, <1>6
<1>10. r.found = q.found \/ r.found = Append(q.found, e) BY <1>4
<1> HIDE DEF r, e, p
<1>11. Finding(pos, k, r) BY <1>1, <1>4, <1>7, <1>8, <1>9, <1>10, FindingKept
<1> QED BY <1>11 DEF r

\* What the clients report of an answer
Exact(found) ==
  /\ \A i \in 1..Len(records) : Message!IsAddress(i) /\ Message!InPlace(i) =>
       Message!Rank(i) <= Len(found) /\ found[Message!Rank(i)] = Message!Expected(i)
  /\ Message!InPlace(Len(records)) => Len(found) = Message!Rank(Len(records))

LEMMA FindingStarts ==
  ASSUME NEW pos, NEW q, q.ptr = pos[1], q.found = <<>>
  PROVE  Finding(pos, 0, q)
<1>1. 1..0 = {} /\ Len(<<>>) = 0 OBVIOUS
<1>2. Message!Rank(0) = 0 BY RankIs
<1>3. 0 + 1 = 1 OBVIOUS
<1> QED BY <1>1, <1>2, <1>3 DEF Finding

LEMMA FindingEnds ==
  ASSUME NEW pos, NEW q, Finding(pos, Len(records), q)
  PROVE  Exact(q.found)
BY DEF Finding, Exact

LEMMA FirstPlace ==
  ASSUME NEW m, NEW pos, Answering(m, pos)
  PROVE  /\ m \in Seq(Nat) /\ Message!FirstRecord(m) = pos[1] /\ Message!FirstRecord(m) \in Nat
         /\ Message!U16(m, 6) = Len(records) /\ Len(records) \in Nat
<1>1. /\ hostname \in Seq(Chars) /\ Message!Proper(hostname) /\ records \in Seq(Kinds)
      /\ Starts(m, hostname, Len(records)) /\ pos[1] = Len(hostname) + 18
  BY DEF Answering
<1>2. m \in Seq(Nat) /\ Len(hostname) \in Nat BY <1>1, StartsIs
<1>3. Message!FirstRecord(m) = Len(hostname) + 18 BY <1>1, FirstRecordIs
<1>4. Message!U16(m, 6) = Len(records) BY <1>1 DEF Starts
<1>5. Len(records) \in Nat BY <1>1
<1> QED BY <1>1, <1>2, <1>3, <1>4, <1>5

LEMMA AsyncExact ==
  ASSUME NEW m, NEW pos, Answering(m, pos), dns = "async"
  PROVE  Exact(Message!dns_parse_response(m))
<1> DEFINE n == Len(records)
<1>1. /\ m \in Seq(Nat) /\ Message!FirstRecord(m) = pos[1] /\ Message!FirstRecord(m) \in Nat
      /\ Message!U16(m, 6) = n /\ n \in Nat
  BY FirstPlace
<1> HIDE DEF n
<1>2. PICK f \in [0..n -> AsyncFinds] :
        /\ f[0] = [ptr |-> Message!FirstRecord(m), found |-> <<>>]
        /\ \A k \in 1..n : f[k] = Message!AsyncRecord(m, f[k - 1])
        /\ Message!dns_parse_response(m) = f[n].found
  BY <1>1, AsyncLoop
<1> DEFINE Good == {k \in 0..n : Finding(pos, k, f[k])}
<1>3. 0 \in Good
  <2>1. f[0].ptr = pos[1] /\ f[0].found = <<>> BY <1>1, <1>2
  <2> QED BY <2>1, <1>1, FindingStarts
<1>4. ASSUME NEW k \in 1..n, k - 1 \in Good PROVE k \in Good
  <2>1. k \in 0..n /\ k - 1 \in 0..n /\ Finding(pos, k - 1, f[k - 1]) BY <1>1, <1>4
  <2>2. f[k - 1] \in AsyncFinds /\ f[k] = Message!AsyncRecord(m, f[k - 1]) BY <2>1, <1>2
  <2>3. Finding(pos, k, Message!AsyncRecord(m, f[k - 1])) BY <2>1, <2>2, AsyncFinding DEF n
  <2> QED BY <2>1, <2>2, <2>3
<1>5. Good \in SUBSET Nat BY <1>1
<1> HIDE DEF Good
<1>6. n \in Good
  <2>1. \A k \in 0..n : k \in Good BY <1>1, <1>3, <1>4, <1>5, UpTo
  <2> QED BY <2>1, <1>1
<1>7. Finding(pos, n, f[n]) BY <1>6 DEF Good
<1>8. Exact(f[n].found) BY <1>7, FindingEnds DEF n
<1> QED BY <1>2, <1>8

LEMMA Test5Exact ==
  ASSUME NEW m, NEW pos, Answering(m, pos), dns = "test5"
  PROVE  Exact(Message!print_dns_a_records(m))
<1> DEFINE n == Len(records)
<1>1. /\ m \in Seq(Nat) /\ Message!FirstRecord(m) = pos[1] /\ Message!FirstRecord(m) \in Nat
      /\ Message!U16(m, 6) = n /\ n \in Nat
  BY FirstPlace
<1> HIDE DEF n
<1>2. PICK f \in [0..n -> Test5Finds] :
        /\ f[0] = [ptr |-> Message!FirstRecord(m), found |-> <<>>]
        /\ \A k \in 1..n : f[k] = Message!Test5Record(m, f[k - 1])
        /\ Message!print_dns_a_records(m) = f[n].found
  BY <1>1, Test5Loop
<1> DEFINE Good == {k \in 0..n : Finding(pos, k, f[k])}
<1>3. 0 \in Good
  <2>1. f[0].ptr = pos[1] /\ f[0].found = <<>> BY <1>1, <1>2
  <2> QED BY <2>1, <1>1, FindingStarts
<1>4. ASSUME NEW k \in 1..n, k - 1 \in Good PROVE k \in Good
  <2>1. k \in 0..n /\ k - 1 \in 0..n /\ Finding(pos, k - 1, f[k - 1]) BY <1>1, <1>4
  <2>2. f[k - 1] \in Test5Finds /\ f[k] = Message!Test5Record(m, f[k - 1]) BY <2>1, <1>2
  <2>3. Finding(pos, k, Message!Test5Record(m, f[k - 1])) BY <2>1, <2>2, Test5Finding DEF n
  <2> QED BY <2>1, <2>2, <2>3
<1>5. Good \in SUBSET Nat BY <1>1
<1> HIDE DEF Good
<1>6. n \in Good
  <2>1. \A k \in 0..n : k \in Good BY <1>1, <1>3, <1>4, <1>5, UpTo
  <2> QED BY <2>1, <1>1
<1>7. Finding(pos, n, f[n]) BY <1>6 DEF Good
<1>8. Exact(f[n].found) BY <1>7, FindingEnds DEF n
<1> QED BY <1>2, <1>8

-----------------------------------------------------------------------------
(* A client and the name server *)

MessageInv ==
  /\ dns \in {"async", "test5"} /\ stage \in {"commit", "asked", "answered", "parsed"}
  /\ hostname \in HostNames
  /\ stage # "commit" /\ Message!Proper(hostname) => request = Begin(hostname, 0)
  /\ stage \in {"answered", "parsed"} /\ Message!Proper(hostname) =>
       /\ records \in Seq(Kinds) /\ Message!Answerable(records)
       /\ response = Answer(hostname, records)
  /\ stage = "parsed" /\ Message!Proper(hostname) => Exact(reported)

LEMMA HostNameIs ==
  ASSUME hostname \in HostNames PROVE hostname \in Seq(Chars) /\ Len(hostname) <= 125
BY MessageAssumption DEF Chars

LEMMA MessageIsExact == ASSUME MessageInv PROVE Message!AnswersExact
<1>1. ASSUME stage # "commit", Message!Proper(hostname) PROVE Message!WellFormed(request)
  <2>1. request = Begin(hostname, 0) /\ hostname \in HostNames BY <1>1 DEF MessageInv
  <2>2. hostname \in Seq(Chars) BY <2>1, HostNameIs
  <2> QED BY <1>1, <2>1, <2>2, BeginWellFormed
<1>2. stage = "parsed" /\ Message!Proper(hostname) => Exact(reported) BY DEF MessageInv
<1> QED BY <1>1, <1>2 DEF Message!AnswersExact, Exact

LEMMA MessageInitInv == ASSUME Message!Init PROVE MessageInv
BY DEF Message!Init, MessageInv

LEMMA MessageKept == ASSUME MessageInv, UNCHANGED messageVars PROVE MessageInv'
<1>1. /\ dns' = dns /\ hostname' = hostname /\ request' = request /\ records' = records
      /\ response' = response /\ reported' = reported /\ stage' = stage
  BY DEF messageVars
<1>2. Message!Proper(hostname)' <=> Message!Proper(hostname) BY <1>1 DEF Message!Proper
<1>3. Message!Answerable(records)' <=> Message!Answerable(records) BY <1>1 DEF Message!Answerable
<1>4. Exact(reported)' <=> Exact(reported)
  BY <1>1 DEF Exact, Message!IsAddress, Message!InPlace, Message!Rank, Message!Expected
<1> QED BY <1>1, <1>2, <1>3, <1>4 DEF MessageInv

LEMMA AskStep == ASSUME MessageInv, Message!Ask PROVE MessageInv'
<1>1. /\ dns' = dns /\ hostname' = hostname /\ stage' = "asked"
      /\ dns \in {"async", "test5"} /\ hostname \in HostNames
  BY DEF Message!Ask, MessageInv
<1>2. Message!Proper(hostname)' <=> Message!Proper(hostname) BY <1>1 DEF Message!Proper
<1>3. ASSUME Message!Proper(hostname) PROVE request' = Begin(hostname, 0)
  <2>1. PICK junk \in Junk :
          request' = IF dns = "async" THEN Message!dns_build_request(hostname, junk)
                                      ELSE Message!test5_build_request(hostname, junk)
    BY DEF Message!Ask
  <2>2. hostname \in Seq(Chars) BY <1>1, HostNameIs
  <2>3. /\ Message!dns_build_request(hostname, junk) = Begin(hostname, 0)
        /\ dns = "test5" => Message!test5_build_request(hostname, junk) = Begin(hostname, 0)
    BY <2>2, <1>3, RequestIs
  <2> QED BY <1>1, <2>1, <2>3
<1>4. Begin(hostname, 0)' = Begin(hostname, 0) BY <1>1 DEF Begin
<1> QED BY <1>1, <1>2, <1>3, <1>4 DEF MessageInv

LEMMA RespondStep == ASSUME MessageInv, Message!Respond PROVE MessageInv'
<1>1. /\ dns' = dns /\ hostname' = hostname /\ request' = request
      /\ stage = "asked" /\ stage' = "answered"
      /\ dns \in {"async", "test5"} /\ hostname \in HostNames
  BY DEF Message!Respond, MessageInv
<1>2. Message!Proper(hostname)' <=> Message!Proper(hostname) BY <1>1 DEF Message!Proper
<1>3. ASSUME Message!Proper(hostname)
      PROVE  /\ request = Begin(hostname, 0) /\ records' \in Seq(Kinds)
             /\ Message!Answerable(records') /\ response' = Answer(hostname, records')
  <2>1. request = Begin(hostname, 0) BY <1>1, <1>3 DEF MessageInv
  <2>2. hostname \in Seq(Chars) BY <1>1, HostNameIs
  <2>3. Message!WellFormed(request) BY <1>3, <2>1, <2>2, BeginWellFormed
  <2>4. PICK n \in 0..MaxRecords : \E rs \in [1..n -> {"host", "alias", "cname", "other"}] :
          /\ Message!Answerable(rs) /\ records' = rs
          /\ response' = Message!Header(1, n) \o Message!Question(request)
                           \o Message!Encoded(rs, Len(request))
    BY <2>3 DEF Message!Respond
  <2>5. PICK rs \in [1..n -> {"host", "alias", "cname", "other"}] :
          /\ Message!Answerable(rs) /\ records' = rs
          /\ response' = Message!Header(1, n) \o Message!Question(request)
                           \o Message!Encoded(rs, Len(request))
    BY <2>4
  <2>6. n \in Nat BY MessageAssumption
  <2>7. rs \in Seq(Kinds) /\ Len(rs) = n BY <2>6 DEF Kinds
  <2>8. Message!Header(1, n) \o Message!Question(request) = Begin(hostname, n)
    BY <2>1, <2>2, <2>6, ResponseIs
  <2>9. Len(request) = Len(hostname) + 18
    <3>1. 0 \in Nat OBVIOUS
    <3> QED BY <3>1, <2>1, <2>2, BeginBytes
  <2>10. response' = Begin(hostname, Len(rs)) \o Message!Encoded(rs, Len(hostname) + 18)
    BY <2>5, <2>7, <2>8, <2>9
  <2>11. response' = Answer(hostname, rs) BY <2>10 DEF Answer
  <2> QED BY <2>1, <2>5, <2>7, <2>11
<1>4. /\ Begin(hostname, 0)' = Begin(hostname, 0)
      /\ Answer(hostname, records)' = Answer(hostname, records')
      /\ Message!Answerable(records)' <=> Message!Answerable(records')
  BY <1>1 DEF Begin, Answer
<1> QED BY <1>1, <1>2, <1>3, <1>4 DEF MessageInv

LEMMA ParseStep == ASSUME MessageInv, Message!Parse PROVE MessageInv'
<1>1. /\ dns' = dns /\ hostname' = hostname /\ request' = request /\ records' = records
      /\ response' = response /\ stage = "answered" /\ stage' = "parsed"
      /\ dns \in {"async", "test5"} /\ hostname \in HostNames
      /\ reported' = IF dns = "async" THEN Message!dns_parse_response(response)
                                      ELSE Message!print_dns_a_records(response)
  BY DEF Message!Parse, MessageInv
<1>2. Message!Proper(hostname)' <=> Message!Proper(hostname) BY <1>1 DEF Message!Proper
<1>3. Message!Answerable(records)' <=> Message!Answerable(records) BY <1>1 DEF Message!Answerable
<1>4. ASSUME Message!Proper(hostname)
      PROVE  /\ request = Begin(hostname, 0) /\ records \in Seq(Kinds)
             /\ Message!Answerable(records) /\ response = Answer(hostname, records)
  BY <1>1, <1>4 DEF MessageInv
<1>5. ASSUME Message!Proper(hostname) PROVE Exact(reported')
  <2>1. hostname \in Seq(Chars) /\ Len(hostname) <= 125 BY <1>1, HostNameIs
  <2>2. /\ Starts(response, hostname, Len(records))
        /\ \E pos \in [1..(Len(records) + 1) -> Nat] :
             /\ pos[1] = Len(hostname) + 18
             /\ \A i \in 1..Len(records) : PlacedAt(response, records[i], i, pos[i], pos[i + 1])
    BY <1>4, <1>5, <2>1, AnswerPlaced
  <2>3. PICK pos \in [1..(Len(records) + 1) -> Nat] :
          /\ pos[1] = Len(hostname) + 18
          /\ \A i \in 1..Len(records) : PlacedAt(response, records[i], i, pos[i], pos[i + 1])
    BY <2>2
  <2>4. Answering(response, pos) BY <1>4, <1>5, <2>1, <2>2, <2>3 DEF Answering
  <2>5. CASE dns = "async" BY <1>1, <2>4, <2>5, AsyncExact
  <2>6. CASE dns = "test5" BY <1>1, <2>4, <2>6, Test5Exact
  <2> QED BY <1>1, <2>5, <2>6
<1>6. Exact(reported)' <=> Exact(reported')
  BY <1>1 DEF Exact, Message!IsAddress, Message!InPlace, Message!Rank, Message!Expected
<1>7. /\ Begin(hostname, 0)' = Begin(hostname, 0)
      /\ Answer(hostname, records)' = Answer(hostname, records)
  BY <1>1 DEF Begin, Answer
<1> QED BY <1>1, <1>2, <1>3, <1>4, <1>5, <1>6, <1>7 DEF MessageInv

LEMMA MessageStep == ASSUME MessageInv, Message!Next PROVE MessageInv'
BY AskStep, RespondStep, ParseStep DEF Message!Next

-----------------------------------------------------------------------------
(* The programs together *)

LocalInv == ClockInv /\ WordInv /\ SqlInv /\ BookInv /\ MessageInv

(***************************************************************************)
(* LocalInv holds for every value of the constants: timestamps of ikcp.c   *)
(* track real time until the clock is set, and ts_flush stays just ahead;  *)
(* after any number of blocks the state and the count of count_word.cpp    *)
(* are those of the characters read so far; sqltest.cpp has sent or copied *)
(* exactly what the image or the row begins with; the pointers of          *)
(* contacts.cpp make one list of distinct nodes that hold the entries; and *)
(* the bytes of a proper question and of its answer are known, in both DNS *)
(* clients.                                                                *)
(***************************************************************************)
THEOREM LocalInvariance == LocalSpec => []LocalInv
<1>1. LocalInit => LocalInv
  BY ClockInitInv, WordInitInv, SqlInitInv, BookInitInv, MessageInitInv DEF LocalInit, LocalInv
<1>2. LocalInv /\ [LocalNext]_localVars => LocalInv'
  <2> SUFFICES ASSUME LocalInv, [LocalNext]_localVars PROVE LocalInv'
    OBVIOUS
  <2>1. /\ Clock!Next \/ UNCHANGED clockVars
        /\ Words!Next \/ UNCHANGED wordVars
        /\ Sql!Next \/ UNCHANGED sqlVars
        /\ Book!Next \/ UNCHANGED bookVars
        /\ Message!Next \/ UNCHANGED messageVars
    BY DEF LocalNext, localVars
  <2>2. ClockInv' BY <2>1, ClockStep, ClockKept DEF LocalInv
  <2>3. WordInv' BY <2>1, WordStep, WordKept DEF LocalInv
  <2>4. SqlInv' BY <2>1, SqlStep, SqlKept DEF LocalInv
  <2>5. BookInv' BY <2>1, BookStep, BookKept DEF LocalInv
  <2>6. MessageInv' BY <2>1, MessageStep, MessageKept DEF LocalInv
  <2> QED BY <2>2, <2>3, <2>4, <2>5, <2>6 DEF LocalInv
<1> QED BY <1>1, <1>2, PTL DEF LocalSpec

(***************************************************************************)
(* _itimediff tells exactly which timers of ikcp_flush have really run out,*)
(* also where timestamps wrap, and ikcp_update_ack smooths round-trip times*)
(* to no longer than what passed, for every clock width, retransmission    *)
(* and probe time, while nobody sets the clock.                            *)
(***************************************************************************)
THEOREM TimersExact == LocalSpec => []TimersTrue
<1>1. LocalInv => TimersTrue BY TimersAreTrue DEF LocalInv, TimersTrue
<1> QED BY <1>1, LocalInvariance, PTL

(***************************************************************************)
(* However late ikcp_update is called and however the clock is set, the    *)
(* next flush is ahead and not far, and ikcp_check never lets the caller   *)
(* sleep beyond the flush, a retransmission or the interval.               *)
(***************************************************************************)
THEOREM FlushesOnTime == LocalSpec => []FlushInTime
<1>1. LocalInv => FlushInTime BY FlushesInTime DEF LocalInv, FlushInTime
<1> QED BY <1>1, LocalInvariance, PTL

(***************************************************************************)
(* The count is the number of letters that follow no letter wherever the   *)
(* blocks of SIZE_BUFFER characters divide the text, whatever the text.    *)
(***************************************************************************)
THEOREM WordsCounted == LocalSpec => []CountExact
<1>1. LocalInv => CountExact BY WordIsExact DEF LocalInv, CountExact
<1> QED BY <1>1, LocalInvariance, PTL

(***************************************************************************)
(* For every size of the image and of the chunks and however sqltest.cpp   *)
(* fails: what the table and the download hold is whole, the connection is *)
(* given back once, and only mysql_write leaves a statement open.          *)
(***************************************************************************)
THEOREM ImagesWhole == LocalSpec => []ImageWhole
<1>1. LocalInv => ImageWhole BY SqlIsWhole DEF LocalInv, ImageWhole
<1> QED BY <1>1, LocalInvariance, PTL

(***************************************************************************)
(* For any number of nodes, persons and entries to a block: the list that  *)
(* Node::insert, Node::remove and load_file link is the book as its user   *)
(* knows it, in both directions, count is its length, and every node that  *)
(* is allocated is in it.                                                  *)
(***************************************************************************)
THEOREM BookExact == LocalSpec => []ListExact
<1>1. LocalInv => ListExact BY BookIsExact DEF LocalInv, ListExact
<1> QED BY <1>1, LocalInvariance, PTL

(***************************************************************************)
(* For every host name of up to 125 characters without empty or too long   *)
(* labels, whatever malloc leaves in the question, and for any number of   *)
(* records that pointers reach: dns_build_request makes a question that    *)
(* the server accepts, and dns_parse_response and print_dns_a_records      *)
(* report exactly the addresses of its answer, in order and under the      *)
(* owner's name that dns_parse_name follows the pointers to, up to a       *)
(* record of a type that the asynchronous client does not know.            *)
(***************************************************************************)
THEOREM AnswersRight == LocalSpec => []AnswersExact
<1>1. LocalInv => AnswersExact BY MessageIsExact DEF LocalInv, AnswersExact
<1> QED BY <1>1, LocalInvariance, PTL
=============================================================================
