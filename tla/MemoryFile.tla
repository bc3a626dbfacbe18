------------------------------ MODULE MemoryFile -----------------------------
(***************************************************************************)
(* The files of $readmemb and $readmemh (readmem_data and st_net_assign,   *)
(* common/st_util.cc).                                                     *)
(*                                                                         *)
(* A file is [tokens, ended], ended telling whether anything, at least the *)
(* end of a line, follows the last token.  A token is [is, text, at]:      *)
(* "word" with its digits, "address" with its value, "comment" up to the   *)
(* end of the line, or "bad".                                              *)
(***************************************************************************)
EXTENDS VectorText

\* How many tokens can be read: reading the last one may meet the end of the
\* file, and it is then lost.
Readable(file) ==
  IF file.ended \/ file.tokens = <<>> THEN Len(file.tokens) ELSE Len(file.tokens) - 1

\* Two hexadecimal digits at a time.
DigitsWidth(n, base) ==
  IF base = 2 THEN n ELSE IF n < 2 THEN 8 ELSE 8 * ((n + 1) \div 2)

Refused(t, base, size) ==
  \/ t.is = "bad"
  \/ t.is = "word" /\ \/ \E i \in DOMAIN t.text : t.text[i] \in base .. XDigit - 1
                      \/ DigitsWidth(Len(t.text), base) # size

\* The indexes in the direction the task gives; None is for those it leaves
\* out.
Bounds(lo, hi, from, to) ==
  [start |-> IF from < 0 THEN lo ELSE from, stop |-> IF to < 0 THEN hi ELSE to]

OutOfRange(lo, hi, b) ==
  IF b.start < b.stop THEN b.start < lo \/ b.stop > hi ELSE b.start > hi \/ b.stop < lo

\* Mutant: the index moves on before the word is stored.
StoredNext(r, word) ==
  [r EXCEPT !.words[r.at + r.incr] = word, !.at = @ + r.incr, !.left = @ - 1]

Stored(r, word) == [r EXCEPT !.words[r.at] = word, !.at = @ + r.incr, !.left = @ - 1]

\* One token.  An address goes through the number a word is read into, and
\* loses what does not fit.
Taken(r, t, base, size) ==
  IF r.out # "reading" \/ r.left = 0 \/ t.is = "comment" THEN r
  ELSE IF Refused(t, base, size) THEN [r EXCEPT !.out = "error"]
  ELSE IF t.is = "address" THEN [r EXCEPT !.at = t.at % Below(size)]
  ELSE IF r.at > r.hi THEN [r EXCEPT !.out = "beyond"]
  ELSE Stored(r, FromDigits(t.text, base, size))

\* A count that starts below 0 never comes to it.  Descending, the words that
\* are left over go on below the last index; the files are short enough not
\* to leave the memory.
Loaded(words, lo, hi, file, base, b) ==
  LET size == Len(words[b.start])
      after[k \in 0 .. Readable(file)] ==
        IF k = 0
        THEN [words |-> words, at |-> b.start, left |-> b.stop - b.start + 1, hi |-> hi,
              incr |-> IF b.start < b.stop THEN 1 ELSE -1, out |-> "reading"]
        ELSE Taken(after[k - 1], file.tokens[k], base, size)
  IN  IF OutOfRange(lo, hi, b) THEN [words |-> words, out |-> "error"]
      ELSE after[Readable(file)]
=============================================================================
