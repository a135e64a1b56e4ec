------------------------------- MODULE CountWord -------------------------------
(***************************************************************************)
(* count_word.cpp: words are runs of letters, counted block by block while *)
(* the file is read.  Characters are bytes as a signed char shows them.    *)
(***************************************************************************)
EXTENDS Integers, Sequences, FiniteSets

CONSTANTS Texts,           \* the files
          SIZE_BUFFER

VARIABLES text, offset,    \* the file, and how much of it was read
          status, word_cnt,
          counted          \* fread has returned 0

vars == <<text, offset, status, word_cnt, counted>>

is_letter(w) == w \in 65..90 \/ w \in 97..122

Init ==
  /\ text \in Texts /\ offset = 0
  /\ status = "INTERVAL" /\ word_cnt = 0 /\ counted = FALSE

\* One character of a block: the state and the count after it.
Scan(s, w) ==
  IF is_letter(w)
    THEN [status |-> "WORD_EN", cnt |-> IF s.status = "INTERVAL" THEN s.cnt + 1 ELSE s.cnt]
    ELSE [status |-> "INTERVAL", cnt |-> s.cnt]

\* Mutant of BlockStart: each block begins with an interval.
BlockStart0 == [status |-> "INTERVAL", cnt |-> word_cnt]

\* The state is kept from block to block.
BlockStart == [status |-> status, cnt |-> word_cnt]

ReadNum == IF Len(text) - offset < SIZE_BUFFER THEN Len(text) - offset ELSE SIZE_BUFFER

\* The state and the count after the first i characters of the block.
scanned[i \in 0..ReadNum] ==
  IF i = 0 THEN BlockStart ELSE Scan(scanned[i - 1], text[offset + i])

\* One round of the loop
ReadBlock ==
  /\ ~counted
  /\ offset' = offset + ReadNum
  /\ status' = scanned[ReadNum].status /\ word_cnt' = scanned[ReadNum].cnt
  /\ counted' = (ReadNum = 0)
  /\ UNCHANGED text

Next == ReadBlock

-----------------------------------------------------------------------------
(* Property *)

\* The letters that begin a word: the reference the count is compared with.
WordStarts(n) ==
  {i \in 1..n : is_letter(text[i]) /\ (i = 1 \/ ~is_letter(text[i - 1]))}

(***************************************************************************)
(* The count is the number of letters that follow no letter, after every   *)
(* block and wherever the blocks divide a word or a gap, and the file is   *)
(* read to its end.                                                        *)
(***************************************************************************)
CountExact ==
  /\ word_cnt = Cardinality(WordStarts(offset))
  /\ counted => offset = Len(text)
=============================================================================
