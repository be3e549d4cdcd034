--------------------------- MODULE BitListQueries ---------------------------
(***************************************************************************)
(* The functions that read one or two lists: equality and hash             *)
(* (wrapper.rs), counts, tests and orders (ops.rs).  They work word by     *)
(* word on the representation; the properties compare them with the        *)
(* strings the representations stand for.                                  *)
(***************************************************************************)
EXTENDS BitList, FiniteSets, FiniteSetsExt

InitWords(r) == [i \in 0 .. (words_for(r.len) - 1) |-> WordAt(r.ones, i)]

(* The words raw_words yields; an empty inline list has none. *)
raw_words(r) ==
  IF r.kind = "heap" THEN InitWords(r)
  ELSE [i \in (IF r.len = 0 THEN {} ELSE {0}) |-> r.ones]

first_word_init(r) == IF r.len = 0 THEN {} ELSE WordAt(r.ones, 0)

(* Mutant: only the words are compared. *)
eq_words(a, b) == first_word_init(a) = first_word_init(b) /\ InitWords(a) = InitWords(b)

(* An inline list is compared with a heap list by the first word alone.    *)
eq(a, b) ==
  /\ a.len = b.len
  /\ IF a.kind = "inline" /\ b.kind = "inline" THEN a.ones = b.ones
     ELSE IF a.kind = "heap" /\ b.kind = "heap" THEN InitWords(a) = InitWords(b)
     ELSE a.len # 0 => first_word_init(a) = first_word_init(b)

(* Mutant: the capacity stands for the length. *)
hash_capacity(r) == <<capacity(r), InitWords(r)>>

(* What hash writes: the length and every word, one word if inline.        *)
hash(r) ==
  <<r.len, IF r.kind = "heap" THEN InitWords(r) ELSE [i \in {0} |-> r.ones]>>

count_ones(r) ==
  IF r.kind = "inline" THEN Cardinality(r.ones)
  ELSE MapThenSumSet(LAMBDA i : Cardinality(WordAt(r.ones, i)), DOMAIN InitWords(r))

is_zeros(r) ==
  IF r.kind = "inline" THEN r.ones = {} ELSE \A i \in DOMAIN InitWords(r) : InitWords(r)[i] = {}

is_ones(r) ==
  LET n == words_for(r.len)
  IN  IF r.kind = "inline" THEN Cardinality(r.ones) = r.len
      ELSE \/ n = 0
           \/ /\ \A i \in 0 .. (n - 2) : WordAt(r.ones, i) = Bit
              /\ Cardinality(WordAt(r.ones, n - 1)) = r.len % WordSize

last_bit(r) == IF r.len = 0 THEN "none" ELSE IF r.len - 1 \in r.ones THEN "one" ELSE "zero"

(* Mutant: any single 1 will do. *)
is_signed_min_anywhere(r) == count_ones(r) = 1

is_signed_min(r) == count_ones(r) = 1 /\ last_bit(r) = "one"

is_signed_max(r) == r.len - count_ones(r) = 1 /\ last_bit(r) = "zero"

-----------------------------------------------------------------------------
(* Orders. *)

(* A word read as usize, and as isize. *)
Unsigned(w) == MapThenSumSet(LAMBDA i : 2^i, w)
Signed(w) == Unsigned(w \ {WordSize - 1}) - (IF WordSize - 1 \in w THEN 2^(WordSize - 1) ELSE 0)

cmp(x, y) == IF x < y THEN "less" ELSE IF x = y THEN "equal" ELSE "greater"

(* Mutant: the lowest word that differs decides. *)
CompareUp(a, b, I) ==
  LET diff == {i \in I : a[i] # b[i]}
  IN  IF diff = {} THEN "equal" ELSE cmp(Unsigned(a[Min(diff)]), Unsigned(b[Min(diff)]))

(* Words a and b, compared from the highest index of I down.               *)
CompareDown(a, b, I) ==
  LET diff == {i \in I : a[i] # b[i]}
  IN  IF diff = {} THEN "equal" ELSE cmp(Unsigned(a[Max(diff)]), Unsigned(b[Max(diff)]))

partial_cmp(a, b) ==
  IF a.len # b.len THEN "none"
  ELSE IF a.len = 0 THEN "equal"
  ELSE CompareDown(raw_words(a), raw_words(b), DOMAIN raw_words(a))

(* Mutant: the sign bit is the word's, not the list's. *)
SignUnextended(w, n) == Signed(w)

(* The last word of a list of length n, its sign bit extended. *)
SignExtended(w, n) ==
  Signed(IF bit_in_word_index(n) - 1 \in w THEN w \cup (Bit \ last_word_mask(n)) ELSE w)

(* When the length ends at a word boundary, the last word is compared as   *)
(* usize.                                                                  *)
signed_partial_cmp(a, b) ==
  LET wa == raw_words(a)
      wb == raw_words(b)
      top == words_for(a.len) - 1
      first == IF last_word_mask(a.len) = Bit
               THEN cmp(Unsigned(wa[top]), Unsigned(wb[top]))
               ELSE cmp(SignExtended(wa[top], a.len), SignExtended(wb[top], b.len))
  IN  IF a.len # b.len THEN "none"
      ELSE IF a.len = 0 THEN "equal"
      ELSE IF first # "equal" THEN first
      ELSE CompareDown(wa, wb, 0 .. (top - 1))

-----------------------------------------------------------------------------
(* Properties. *)

(* Every representation of the string b that fits the bounds. *)
RepsOf(b) ==
  {r \in {Inline(b.len, b.ones)} \cup {Heap(b.len, c, b.ones) : c \in 1 .. MaxWords} :
     b.len <= capacity(r)}

(* The lists that rep is compared with. *)
Others == UNION {RepsOf(b) : b \in Operands \cup {Value(rep)}}

(* Lists are equal exactly when they are the same string, whatever their   *)
(* form and capacity (test_list_eq, wrapper.rs:256).                       *)
EqIsSameString == \A q \in Others : eq(rep, q) <=> Value(rep) = Value(q)

(* Equal lists that are not empty hash alike, inline or heap.              *)
EqualHashAlike == \A q \in Others : eq(rep, q) /\ rep.len > 0 => hash(rep) = hash(q)

(* Lists of one length are ordered as the numbers they write.              *)
OrderIsUnsigned ==
  \A q \in Others :
    partial_cmp(rep, q) = IF rep.len # q.len THEN "none"
                          ELSE cmp(Unsigned(Value(rep).ones), Unsigned(Value(q).ones))

TwosComplement(b) ==
  IF LastBit(b) = "one" THEN Unsigned(b.ones) - 2^b.len ELSE Unsigned(b.ones)

(* signed_partial_cmp orders lists of one length as two's complement       *)
(* numbers, except where the length is a positive multiple of the word     *)
(* size.                                                                   *)
OrderIsSigned ==
  \A q \in Others :
    rep.len = q.len /\ (rep.len = 0 \/ bit_in_word_index(rep.len) # 0) =>
      signed_partial_cmp(rep, q) = cmp(TwosComplement(Value(rep)), TwosComplement(Value(q)))

(* Counts and tests speak of the bits of the list only; is_ones does where *)
(* the last word of a heap list is not full (ops.rs:992).                  *)
CountsAreExact ==
  LET n == Unsigned(Value(rep).ones)
  IN  /\ count_ones(rep) = Cardinality(Value(rep).ones)
      /\ is_zeros(rep) <=> n = 0
      /\ is_signed_min(rep) <=> rep.len > 0 /\ TwosComplement(Value(rep)) = -(2^(rep.len - 1))
      /\ is_signed_max(rep) <=> rep.len > 0 /\ TwosComplement(Value(rep)) = 2^(rep.len - 1) - 1
      /\ rep.kind = "inline" \/ rep.len = 0 \/ bit_in_word_index(rep.len) # 0 =>
           (is_ones(rep) <=> Value(rep) = Constant(rep.len, TRUE))
=============================================================================
