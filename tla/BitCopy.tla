------------------------------ MODULE BitCopy ------------------------------
(***************************************************************************)
(* Copying and filling bits, word by word and byte by byte (util.rs:61-    *)
(* 230).  One behaviour is one call; a step is one access to the           *)
(* destination.  Source and destination lie in one memory: their bits do   *)
(* not overlap, their words may (util.rs:68).  BitList and BitsIter use    *)
(* these calls by what copy_bits and fill_bits of BitWords say; here the   *)
(* steps are shown to do that, and to touch no other words.                *)
(***************************************************************************)
EXTENDS BitWords, BitStrings

CONSTANTS
  ByteSize,   \* bits in a byte, 8 in the code
  MemWords,   \* the words of the memory
  Contents    \* what it may hold

ASSUME CopyAssumption ==
  /\ ByteSize \in Nat \ {0}
  /\ (WordSize % ByteSize) = 0
  /\ MemWords \in Nat
  /\ \A m \in Contents : m \subseteq 0 .. (MemWords * WordSize - 1)

VARIABLES
  mem,     \* the memory
  job,     \* the arguments of the call
  old,     \* the memory as it was when the call was made
  pc,      \* where the call is
  unit,    \* the size of the unit it goes by
  dst,     \* the next unit to write
  left,    \* the bits not written yet
  read,    \* the places read in the destination
  written  \* the places written

vars == <<mem, job, old, pc, unit, dst, left, read, written>>

MemBits == MemWords * WordSize

(* The arguments that keep the contract of util.rs:62-72.                  *)
CopyJobs ==
  {j \in [call : {"copy"}, from : 0 .. MemBits, to : 0 .. MemBits,
          count : 0 .. MemBits, value : {FALSE}] :
     /\ j.from + j.count <= MemBits /\ j.to + j.count <= MemBits
     /\ j.from + j.count <= j.to \/ j.to + j.count <= j.from}

FillJobs ==
  {j \in [call : {"fill"}, from : {0}, to : 0 .. MemBits,
          count : 0 .. MemBits, value : BOOLEAN] : j.to + j.count <= MemBits}

from == job.from + (job.count - left)

-----------------------------------------------------------------------------
(* Memory in units of u bits. *)

Unit(u, k) == (k * u) .. ((k + 1) * u - 1)

UnitAt(u, k) == Down(mem \cap Unit(u, k), k * u)

Put(u, k, bits) == (mem \ Unit(u, k)) \cup Up(bits, k * u)

(* The places of n bits from bit i on, moved to j.                         *)
Moved(i, n, j) == Up(Down(mem \cap (i .. (i + n - 1)), i), j)

Source == INSTANCE BitsIter
            WITH start <- job.from, stop <- job.from + job.count,
                 op <- "new", args <- <<>>, ret <- {}, reads <- {},
                 Memories <- {}, Counts <- {}, Sizes <- {}, Aligns <- {},
                 Bounds <- {}, Slices <- {}

NextBits(n) == Source!next_bits(from, job.from + job.count, n)

raw(w) == Source!raw(w)

-----------------------------------------------------------------------------
(* Steps. *)

Init ==
  /\ mem \in Contents /\ old = mem
  /\ job \in CopyJobs \cup FillJobs
  /\ pc = job.call
  /\ unit = WordSize /\ dst = 0 /\ left = job.count
  /\ read = {} /\ written = {}

Nothing ==
  /\ pc \in {"copy", "fill"} /\ job.count = 0
  /\ pc' = "done"
  /\ UNCHANGED <<mem, job, old, unit, dst, left, read, written>>

AlignedTo(u) == (job.from % u) = 0 /\ (job.to % u) = 0

(* A step that goes from p to q, writes unit d of size u with the given    *)
(* bits and leaves n bits; RMW: it reads the unit first.                   *)
Writes(u, d, bits, n) ==
  /\ mem' = Put(u, d, bits)
  /\ unit' = u /\ dst' = d + 1 /\ left' = n
  /\ written' = written \cup Unit(u, d)
  /\ UNCHANGED <<job, old>>

Modifies(u, d, bits, n) ==
  Writes(u, d, bits, n) /\ read' = read \cup Unit(u, d)

(* ptr::copy_nonoverlapping of the whole words, or bytes.                  *)
CopyUnits ==
  /\ pc = "copy" /\ job.count > 0 /\ AlignedTo(ByteSize)
  /\ LET u == IF AlignedTo(WordSize) THEN WordSize ELSE ByteSize
         n == (job.count \div u) * u
         range == job.to .. (job.to + n - 1)
     IN  /\ mem' = (mem \ range) \cup Moved(job.from, n, job.to)
         /\ unit' = u /\ dst' = (job.to + n) \div u /\ left' = job.count - n
         /\ pc' = IF left' = 0 THEN "done" ELSE "copy_last"
         /\ written' = written \cup range
  /\ UNCHANGED <<job, old, read>>

(* Mutant: what lies beyond the end in the last unit is copied too.        *)
CopyLastUnmasked ==
  /\ pc = "copy_last"
  /\ Modifies(unit, dst, UnitAt(unit, from \div unit), 0)
  /\ pc' = "done"

CopyLast ==
  /\ pc = "copy_last"
  /\ LET mask == 0 .. (left - 1)
     IN  Modifies(unit, dst, (UnitAt(unit, dst) \ mask) \cup (UnitAt(unit, from \div unit) \cap mask), 0)
  /\ pc' = "done"

(* Mutant: the first word is merged even if nothing of it is to be kept.   *)
CopyFirstWordAlways ==
  /\ pc = "copy" /\ job.count > 0 /\ ~AlignedTo(ByteSize)
  /\ LET k == word_index(job.to)
         first == WordAt(mem, k)
         w == NextBits(WordSize - bit_in_word_index(job.to))
         both == Source!push_bits(Source!WordBits(first, bit_in_word_index(job.to)), w)
     IN  IF both.count < WordSize
         THEN /\ Modifies(WordSize, k, raw(both) \cup (first \ last_word_mask(both.count)), 0)
              /\ pc' = "done"
         ELSE /\ Modifies(WordSize, k, raw(both), left - w.count)
              /\ pc' = "copy_words"

(* The bits that complete the first word of the destination, if it is      *)
(* already begun.                                                          *)
CopyFirstWord ==
  /\ pc = "copy" /\ job.count > 0 /\ ~AlignedTo(ByteSize)
  /\ LET k == word_index(job.to)
         first == WordAt(mem, k)
         w == NextBits(WordSize - bit_in_word_index(job.to))
         both == Source!push_bits(Source!WordBits(first, bit_in_word_index(job.to)), w)
     IN  IF bit_in_word_index(job.to) = 0
         THEN /\ pc' = "copy_words" /\ dst' = k
              /\ UNCHANGED <<mem, job, old, unit, left, read, written>>
         ELSE IF both.count < WordSize
         THEN /\ Modifies(WordSize, k, raw(both) \cup (first \ last_word_mask(both.count)), 0)
              /\ pc' = "done"
         ELSE /\ Modifies(WordSize, k, raw(both), left - w.count)
              /\ pc' = "copy_words"

(* Mutant: no break after a word that is not full.                         *)
CopyWordOnAndOn ==
  /\ pc = "copy_words"
  /\ LET w == NextBits(WordSize)
     IN  \/ /\ w.count = WordSize
            /\ Writes(WordSize, dst, raw(w), left - WordSize)
            /\ UNCHANGED <<read, pc>>
         \/ /\ w.count \in 1 .. (WordSize - 1)
            /\ Modifies(WordSize, dst, raw(w) \cup (WordAt(mem, dst) \ last_word_mask(w.count)), 0)
            /\ UNCHANGED pc
         \/ w.count = 0 /\ UNCHANGED vars

(* Mutant: the last word is merged even if no bit of it is left to write.  *)
CopyWordPastEnd ==
  /\ pc = "copy_words"
  /\ LET w == NextBits(WordSize)
     IN  \/ /\ w.count = WordSize
            /\ Writes(WordSize, dst, raw(w), left - WordSize)
            /\ UNCHANGED <<read, pc>>
         \/ /\ w.count < WordSize
            /\ Modifies(WordSize, dst, raw(w) \cup (WordAt(mem, dst) \ last_word_mask(w.count)), 0)
            /\ pc' = "done"

(* One round of the loop. *)
CopyWord ==
  /\ pc = "copy_words"
  /\ LET w == NextBits(WordSize)
     IN  \/ /\ w.count = WordSize
            /\ Writes(WordSize, dst, raw(w), left - WordSize)
            /\ UNCHANGED <<read, pc>>
         \/ /\ w.count \in 1 .. (WordSize - 1)
            /\ Modifies(WordSize, dst, raw(w) \cup (WordAt(mem, dst) \ last_word_mask(w.count)), 0)
            /\ pc' = "done"
         \/ /\ w.count = 0
            /\ pc' = "done"
            /\ UNCHANGED <<mem, job, old, unit, dst, left, read, written>>

Filled(bits, mask) == IF job.value THEN bits \cup mask ELSE bits \ mask

(* The first byte, if the bits begin inside it. *)
FillFirstByte ==
  /\ pc = "fill" /\ job.count > 0 /\ (job.to % ByteSize) # 0
  /\ LET k == job.to \div ByteSize
         off == job.to % ByteSize
         end == off + job.count
     IN  IF end < ByteSize
         THEN /\ Modifies(ByteSize, k, Filled(UnitAt(ByteSize, k), off .. (end - 1)), 0)
              /\ pc' = "done"
         ELSE /\ Modifies(ByteSize, k, Filled(UnitAt(ByteSize, k), off .. (ByteSize - 1)), end - ByteSize)
              /\ pc' = "fill_bytes"

(* ptr::write_bytes of the whole bytes. *)
FillBytes ==
  /\ \/ pc = "fill_bytes"
     \/ pc = "fill" /\ job.count > 0 /\ (job.to % ByteSize) = 0
  /\ LET at == job.to + (job.count - left)
         n == (left \div ByteSize) * ByteSize
     IN  /\ mem' = fill_bits(mem, at, n, job.value)
         /\ unit' = ByteSize /\ dst' = (at + n) \div ByteSize /\ left' = left - n
         /\ pc' = IF left' = 0 THEN "done" ELSE "fill_last"
         /\ written' = written \cup (at .. (at + n - 1))
  /\ UNCHANGED <<job, old, read>>

FillLast ==
  /\ pc = "fill_last"
  /\ Modifies(unit, dst, Filled(UnitAt(unit, dst), 0 .. (left - 1)), 0)
  /\ pc' = "done"

Next ==
  \/ Nothing \/ CopyUnits \/ CopyLast \/ CopyFirstWord \/ CopyWord
  \/ FillFirstByte \/ FillBytes \/ FillLast

(* A call that was made runs on.                                           *)
Spec == Init /\ [][Next]_vars /\ WF_vars(Next)

-----------------------------------------------------------------------------
(* Properties. *)

(* When the call is over the memory is what the contract says: the bits of *)
(* the destination are those the source had, or the value given, and every *)
(* other bit of the words touched is what it was.                          *)
ContractKept ==
  pc = "done" =>
    mem = IF job.call = "copy"
          THEN copy_bits(old, job.to,
                         Str(job.count, Down(old \cap (0 .. (job.from + job.count - 1)), job.from)))
          ELSE fill_bits(old, job.to, job.count, job.value)

(* At no time does a bit outside the destination differ from what it was,  *)
(* and no word is touched that holds no bit of it: the words next to it    *)
(* may lie behind the end of the block (the # Safety section,              *)
(* util.rs:66-67).                                                         *)
TouchesOnlyItsWords ==
  LET range == job.to .. (job.to + job.count - 1)
      words == {word_index(i) : i \in range}
  IN  /\ {word_index(i) : i \in read \cup written} \subseteq words
      /\ mem \ range = old \ range

(* Of the destination only words that keep some of their bits are read:    *)
(* the others were perhaps never written (util.rs:69-72; BitsIter::to_list *)
(* and push_bits rely on it, iter.rs:361-367 and ops.rs:533).              *)
ReadsInitialisedOnly ==
  \A i \in read : ~(Word(word_index(i)) \subseteq job.to .. (job.to + job.count - 1))

(* The loop ends.                                                          *)
Terminates == <>(pc = "done")
=============================================================================
