# bitlist in TLA+

`bitlist` (repository root `src/`, crate sources in `src/src/`) is a bit list
that fits in one machine word: short lists live in the word itself, longer ones
in a heap block.  Around it the crate has iterators that search bits word by
word, copy and fill routines on raw memory, windows that write, orders,
arithmetic, and parsing.

Every call of a list borrows it exclusively, nothing blocks and nothing waits.
What is hard to test in it is something else:

- two representations of one value, chosen by the history of calls;
- bits *beyond* the length, which nobody sees until a word is compared, hashed,
  counted, added, or uncovered by a longer length;
- memory that was never written, whose contents no test controls;
- an allocator that may refuse or grant more than was asked for, and a block that
  is borrowed as a `Vec`, moved and handed back in the middle of a call;
- panics in the middle of calls made of several steps, debug checks that change
  what a call does, and callers that catch the panic and go on;
- masks and shifts at lengths 0, at a word boundary, and one off it;
- an index kept by hand beside an iterator that moves;
- windows on one list in two threads, which write whole words to change some bits.

Paths in this file are relative to `src/src/`.

## 1. Inventory

| Component | State | Operations | Hard behaviour | What makes it correct | Module |
|---|---|---|---|---|---|
| Words and layout (`heap.rs:466-521`, `inline.rs:20-39`, `iter.rs:92-107`) | none | `words_for`, `last_word_mask`, bounds of ranges | boundaries, the largest index | words cover the bits, masks keep exactly the bits of the list | `BitWords` |
| BitList, representation and editing (`wrapper.rs`, `heap.rs`, `inline.rs`, `ops.rs:110-620, 816-905`) | the word: inline length and data, or a pointer to (length, capacity, words) | constructors, `reserve`, `clear`, `resize`, `truncate`, `shrink_to_fit`, pushes, `pop_bit`, `repeat`, `insert`, `set*`, `reverse`, `clone` | garbage, two forms, allocator, panics | the list is the string of bits its calls describe; trailing bits are zero; the length fits | `BitList` |
| BitList, queries and orders (`wrapper.rs:203-238`, `ops.rs:662-1032`) | reads a list | `eq`, `hash`, counts, `is_*`, `partial_cmp`, `signed_partial_cmp` | inline against heap, last word | answers depend on the string alone | `BitListQueries` |
| Heap block and memory handles (`heap.rs:35-196`) | the blocks, the header of each, the vector that borrows one | allocate, borrow, grow, shrink, move, check, give back, free | two sizes for one block, unwinding, checks that read behind the length | one owner for every block, which knows its size | `HeapBlocks` |
| BitsIter (`iter.rs:92-107, 132-898`) | a window `start..stop` on words | open, advance, limit, search, compare, split, copy out | windows that begin and end inside words; unchecked reads | every call takes bits off an end of one string; reads stay inside | `BitsIter` |
| Iterators over indexes and words (`iter.rs:76-90, 1129-1260`) | a window and an index; full words and a last one | `next`, `next_back`, `change_bit`, `advance_total_bits` | index beside the window; both ends | the next index, each word once | `IterClients` |
| Run-length compression (`iter.rs:787-846, 1019-1056`) | the window | `compress_next` | borders of the ranges of a code | what was written reads back; the loop ends | `IterClients` |
| WordBits (`iter.rs:900-1127`) | a word and a count | `push*`, `pop_front`, `truncate`, `next`, ... | bits beyond the count may be anything; shifts by a whole word | only the first `count` bits matter | `WordBits` |
| Copying and filling (`util.rs:61-230`) | source and destination memory | `copy_bits_nonoverlapping`, `fill_bits` | three granularities, partial units, uninitialised words | exactly the bits asked for change; nothing else is read or written | `BitCopy` |
| Mutable iteration (`iter.rs:1264-1421`) | windows and references on a borrowed list | split, `fill`, `copy_from`, `BitRefMut::set` | many handles on one word, some in other threads | handles are disjoint; every write lands | `BitsIterMut` |
| Arithmetic (`basic_math.rs`, `ops.rs:733-808`, `util.rs:13-59`) | two lists | and, or, xor, not, add, sub, product with a word | carry over words, overflow of the last word, mixed forms | numbers add up modulo 2^len; overflow is reported | `BitListNumbers` |
| Parsing, BCD, formatting (`ops.rs:161-277, 353-366, 1076-1199`) | builds or reads a list | digit loops | digit order, BCD carry | value of the digits | `BitListNumbers`, `BitListReads` |
| Conversions, slices (`convert.rs`, `ops.rs:65-108, 599-660`, `inline.rs`, `heap.rs:421-450`) | none | to and from integers and bytes, `get_range`, `concat`, `set_at` | lengths against values, two forms | the value is kept | `BitListNumbers`, `BitListReads` |
| BitWrite (`lib.rs:22-41`) | a list | `write` = `push_bits` | none | as `push_bits` | `BitList` |

Interaction: `BitList` reads other lists through `BitsIter`, and `BitsIter`
writes through the copy routine, which reads its source through one; growth goes
through a memory handle that makes a `Vec` of the block, lets it grow and writes
pointer and capacity back.  Everything relies on the invariant that bits beyond
the length are zero.

## 2. Modules

Words are sets of bit positions (`&` is `\cap`), an array of words is the set of
its flat positions, a bit string is its length and the set of its ones.

| Module | Models | Uses |
|---|---|---|
| `BitWords` | words, masks, index arithmetic, bounds, contracts of copy and fill | |
| `BitStrings` | the strings a list stands for | |
| `BitListSpec` | abstract: a list is a string, a call changes it or fails | `BitStrings` |
| `BitList` | the two forms and 21 calls | `BitWords`, `BitStrings`, instance of `BitListSpec` |
| `BitListQueries` | equality, hash, orders, counts on every reachable list | `BitList` |
| `HeapBlocks` | the blocks behind a list, a call in many steps | `BitWords`, instance of `BitList` |
| `BitListNumbersSpec` | abstract: a list is a number modulo 2^n | `BitStrings` |
| `BitListNumbers` | arithmetic word by word, lists made of numbers and text | `BitListQueries`, instance of `BitListNumbersSpec` |
| `BitListReads` | lists read out as numbers, slices and digits | `BitListNumbers` |
| `WordBitsOps` | the operators of a word of bits | `BitWords`, `BitStrings` |
| `WordBitsSpec` | abstract: a queue of at most one word of bits | `BitStrings` |
| `WordBits` | a word of bits with garbage behind its count | `WordBitsOps`, instance of `WordBitsSpec` |
| `BitsIterSpec` | abstract: an iterator is the string of bits that are left | `BitStrings` |
| `BitsIter` | the window on words, with the words each call reads | `WordBitsOps`, instance of `BitsIterSpec` |
| `IterClients` | indexes, run-length codes and words, all on an iterator | `BitsIter` |
| `BitCopy` | copy and fill, one step per access to the destination | `BitWords`, instance of `BitsIter` (it reads the source through one) |
| `BitsIterMut` | windows and references that write, in several threads | `BitWords`, `BitStrings` |
| `BitWordsProofs` | lemmas about words and index arithmetic | `BitWords`, `TLAPS` |
| `BitListProofs`, `BitListReadsProofs`, `HeapBlocksProofs`, `IterClientsProofs`, `BitCopyProofs`, `BitsIterMutProofs`, `WordBitsProofs` | theorems about the modules they are named after (`IterClientsProofs`: about `BitsIter` too) | `BitWordsProofs` |
| `MC*` | instances for TLC | |

### BitList

`rep` is the list: its form, length, capacity in words, and the ones in the
words its length covers.  Words beyond these are not state: they hold garbage,
and `Garbage` gives a word that a call uncovers arbitrary contents (out of
`Residues`).  Each function of the code is an operator of the same name that
returns the set of its outcomes (new representation, result, and whether it
returned, panicked or aborted); calls made of other calls (`truncate`, `pop_bit`,
`insert`, `repeat`) are built from the operators of those, so that an inner panic
ends the outer call where it does in the code.  Sums the code takes without a check
are taken in a word where a legal argument can overflow them: `insert` adds three
lengths, panics there in a debug build, and in a release build goes on with what
is left of the sum up to its last assertion (`Asserted`).  An action is one call of the owner, with
arguments from small sets.  After a panic the owner goes on; after an abort
nothing follows.  A block may be refused; when a list grows the block may be
larger than asked for, up to `MaxWords`.  `DebugBuild` switches the debug
assertions on.

`out` and `args` record the last call and its arguments, which `BitListSpec`
shares: the effect of a call is compared with what is promised for the same
arguments.  The owner is *careful* (`Careful`) if he makes none of the calls
that the operators `Hits...` name: those on which the code, as it is, does not
do what the abstract specification says (section 5).  The representation
properties are checked and proved for every owner; the refinement is checked for
the careful one.

### HeapBlocks

`BitList` takes growth as one step.  `HeapBlocks` is that step in detail: `blocks`
is the memory by address (words allocated, and the header's length and capacity),
`vec` the vector that borrows the block of the list, `temp` the clone that
`repeat` holds, `call` the call that runs and its phase.  A call that needs room
asks (`RoomInline`, `RoomHeap`), grows or is refused (`Grow`), writes the new
capacity to the header (`SetVec`, which checks in a debug build), gives the
address back (`DropVec`, which checks again) and ends (`Granted`, `Refused`,
`Panicking`).  A failed check of `SetVec` unwinds through `DropVec`; a second
panic on the way aborts the process.  `debug` is a variable here: both builds
are explored in one run.  `temp` is dropped by the end of the call, whatever the
end.  Data words are left out (lists hold zeros), so the calls that do no more
than shorten a list are not in it.

### BitListNumbers and BitListReads

They extend `BitList` with the closures of `basic_math.rs` (`word_add`,
`word_sub`, ...: one word and a carry), the loop of `util.rs` that hands the carry
from word to word, and the four pairs of forms in `assign_for_each_carry`.  What is
left in the last word beyond the length is cut off and counted as overflow.
`BitListNumbersSpec` knows nothing of words: `assign_add_overflow` sets the
number to the sum modulo 2^n and says whether it overflowed.  `BitListReads` holds
the functions that change nothing; its properties are invariants evaluated in
every list `BitListNumbers` makes.  Digits are read with numbers in place of
strings: a text is a sequence of digit values, where 16 is no digit.

### BitsIter, WordBits, IterClients

`BitsIter`: `mem` is read-only, `start .. stop - 1` the window; `op`, `args`, `ret`
and `reads` record the last call, its arguments, its result and the words it
read.  The refinement mapping shows the window as a string, so the abstract
machine knows nothing of words.  Since a call depends on memory and window alone,
and every window of every memory is an initial state, one step from each covers
all behaviours.  `Open` makes a window from bounds, with the increments that an
excluded start and an included end take.  `find_continuous_slot_align` is
specified only for strings whose runs reach an aligned index
(`RunsReachAlignment`); see section 5 for the others.

`WordBits` is the word that iterators give out: `word` keeps the bits beyond the
count, which `peek_word`, `truncate` and `pop_front` leave as they were, and the
abstract queue has only the first `count`.

`IterClients` borrows a list at bit `base` (0 on the heap, behind flag and length
inline) for one of four clients.  `index` is the index `BitIndexes` counts; the
window is that of `BitsIter`, whose `position` it calls.  `packed` is what the
compressor has pushed; `Expand` in its property reads a string of codes back, by
an independent definition.  `front` and `back` are the bits given out by the word
iterators.

### BitCopy

One behaviour is one call.  Source and destination share one memory; their
bits are disjoint, their words need not be.  `read` and `written` collect the
places of the destination that the call touches.  `BitList` uses the contracts
`copy_bits` and `fill_bits` of `BitWords`, and `BitCopy` shows that the word
and byte accesses of the code keep them.

### BitsIterMut

`windows` and `refs` are the handles alive, each held by a thread.  A write is
two steps, `Load` of a unit of memory (a byte for `fill`, a word otherwise) and
`Store` of it with its own bits changed, and it goes on with the next unit.
`want` is what the calls made so far were to make of the memory.  `Send` gives a
window to another thread, which the code permits since `BitsIterMut` holds a
`BitsIter` declared `Send`; with `Careful` only if no word is then shared
between two threads.  `BitRefMut` holds a raw pointer and is not `Send`.

## 3. Runs

| Run | Question | Bounds |
|---|---|---|
| `core` | types, trailing bits, capacity, reservation, garbage, panics; equality, hash, orders and counts; any owner, release build | 4-bit words, lists up to 8 bits, blocks up to 3 words |
| `promise_release` | `BitList` implements `BitListSpec`, release build | 8-bit words (4 inline bits), up to 9 bits, 2 words |
| `debug` | the same for a debug build | 4-bit words, up to 7 bits, 3 words |
| `blocks` | ownership of blocks, and `HeapBlocks` implements `BitList` | 3 addresses, 4-bit words, up to 12 bits, 3 words, both builds |
| `numbers` | arithmetic, conversions, slices, digits; debug build, careful owner | 8-bit words, bytes of 4 bits, integers of 8 and 16 bits, up to 10 bits |
| `bits_iter` | reads, windows, refinement, comparison, bounds | three 4-bit words, every window |
| `word_bits` | a word as a queue | 8-bit words, 5 contents, every count |
| `iter_clients` | indexes, words, run-length codes | two 8-bit words, code ranges of 1, 2 and 3 bits |
| `bit_copy` | result, accesses, termination | four 4-bit words of two bytes, every range, five contents |
| `iter_mut` | disjoint handles, writes of two threads | 2 threads, 2 windows, 1 reference, an inline list of 1 bit and a heap list of 5 |
| `shorter_keeps_prefix` (violation) | a shorter list keeps its bits | as `core` |
| `one_thread_per_word` (violation) | one thread writes a word at a time | as `iter_mut`, without the care |

Why the bounds are enough: the code treats a list by its form, by whether a
length is 0, inside a word, or at a boundary, and by whether two lengths lie in
the same word.  Up to three words give every combination, with a first, a middle
and a last word.  A 4-bit word leaves one inline bit (almost every list is on the
heap), an 8-bit word leaves four (growth inside the inline form, and the move to
the heap).  `UsizeMax` is among the positions in `core`,
`debug` and `promise_release` and among the reservations, so that sums overflow
in either build, and the counts of `bits_iter` hold 4 and more, which times a word
is beyond a 4-bit `usize`.  Two bytes to a word are enough for byte-aligned ranges that are not
word-aligned.  Three addresses are the block of the list, the clone that
`repeat` holds, and one to move to.  In `numbers` two words are enough for a carry out of one
word into the next and out of the list, with operands `0 .. 8` all ones and
`{0}`.  In `iter_clients` a run of 16 bits is longer than the third range of
codes, so that the last case of `compress_run_length` is reached.  Two windows
and one reference suffice for two threads to share a word.

`VIEW`: the calls a list can go on with depend on its representation and on
whether the process was aborted, an iterator's on memory and window; the record
of the last call is left out of the state's identity.  Action properties and
refinements are still checked on every transition generated, and no invariant
but the type of `out` reads the record.  `SYMMETRY` is over addresses in
`blocks` and over threads in the two `iter_mut` runs, which check safety only and
compare no addresses.

`CHECK_DEADLOCK FALSE`: after an abort there is no process (`core`, `debug`,
`promise_release`, `blocks`, `numbers`, the two violations), in `BitCopy` the call has returned,
in `IterClients` the list is used up, and in `BitsIterMut` every handle may be
dropped while a bounded owner opens no other.

What the properties say, beyond types:

- `TrailingBitsZero`, `FitsCapacity`: the representation invariant.
- `NoGarbage`, `RoomIsUsed`, `CapacityKept`: growth leaves nothing of the old
  memory behind, a reservation is really there, is used and lasts.
- `PanicLeavesListIntact`: also for `insert`, which goes through `resize`,
  `truncate` and two pushes.  One call is excepted by name: `insert` in a release
  build whose new length does not fit a word (`InsertOverflows`, section 5).
- `Promise`, `NumberPromise`, `WordPromise`, `IterPromise`: the refinements.
- `BlocksOwned`: no block leaks, dangles, is freed twice or with another size.
- `ImplementsBitList`: every call of `HeapBlocks`, with its steps, refusals,
  panics and unwinding, ends as one step of `BitList`.
- `EqIsSameString`, `EqualHashAlike`, `OrderIsUnsigned`, `OrderIsSigned`,
  `CountsAreExact`: word-level queries against arithmetic on the strings.  An
  empty heap list hashes differently from an empty inline one (it has no word to
  write), and lists of whole words are ordered as unsigned by
  `signed_partial_cmp`; both cases are excluded in the properties, by name.
- `NumbersReadBack`, `PartsRejoin`, `SetAtOverwrites`, `DecimalIsNumber`,
  `BcdFits`: what is put into a list comes out again, cut lists join to
  themselves, and decimal digits are those of the number.
- `ReadsInside`, `WindowOK`, `EqualIffSameBits`, `OpensWhatIsAsked`: the
  unchecked pointer reads of the iterator, and its windows.
- `EqIgnoresGarbage`: what lies behind the count of a word is never seen.
- `IndexFollowsWindow`, `NextIndexIsNext`, `CompressedReadsBack`,
  `WordsCoverList`: clients of the iterator keep their own counts right.
- `ContractKept`, `TouchesOnlyItsWords`, `ReadsInitialisedOnly`: the safety
  section of the copy routine, read as obligations of its code.
- `HandlesDisjoint`, `WritesLand`: no two handles stand for one bit, and every
  write survives, whatever the order of the threads' steps, as long as no word
  is shared.
- `Terminates`, `ClientsFinish`: the loops end.

Fairness: `BitCopy` has `WF_vars(Next)`, the scheduling of a single thread that
runs the call it made.  `IterClients` has weak fairness on one round of the
compressor and on taking a word from either end: `compress_run_length`,
`entropy` and every `for` loop over words call them until nothing comes.  No
fairness is given to `NextIndex`, `ChangeBit` and `AdvanceTotalBits`, which an
owner may stop calling at any time, nor to any other module; those claim no
progress.

## 4. Proofs

What is proved for every value of the constants, by module:

| Theorem | Statement |
|---|---|
| `TypeCorrect`, `TrailingBitsAreZero`, `LengthFitsCapacity` (`BitListProofs`) | `Spec => []` of `TypeOK`, `TrailingBitsZero`, `FitsCapacity` |
| `PanicsLeaveTheListIntact`, `CapacityIsKept` (`BitListProofs`) | `Spec =>` the action properties `PanicLeavesListIntact` (with the exception it names), `CapacityKept` |
| `RoomIsAlwaysUsed`, `NoGarbageIsLeft` (`BitListProofs`) | `Spec => []` of `RoomIsUsed`, `NoGarbage` |
| `ListsKeepTheirPromise` (`BitListProofs`) | for a careful owner `BitList` implements `BitListSpec` |
| `EqualityIsOfStrings`, `EqualListsHashAlike` (`BitListReadsProofs`) | `Spec => []` of `EqIsSameString`, `EqualHashAlike` |
| `ArithmeticLeavesNoTrailingBits` (`BitListReadsProofs`) | `NumbersSpec => [](TrailingBitsZero /\ FitsCapacity)` |
| `CutListsRejoin`, `SetAtChangesNoOtherBit` (`BitListReadsProofs`) | `NumbersSpec => []` of `PartsRejoin`, `SetAtOverwrites` |
| `DigitsAlwaysFit`, `NoDigitOutside` (`BitListReadsProofs`) | the digits of the BCD conversion lie inside its list, for every length whose digits' room fits a word; `NumbersSpec => []BcdFits` |
| `BlocksAreOwned` (`HeapBlocksProofs`) | `Spec => []BlocksOwned` |
| `BlocksImplementList` (`HeapBlocksProofs`) | `HeapBlocks` implements `BitList`: `Spec => ImplementsBitList` |
| `IteratorsKeepTheirPromise` (`IterClientsProofs`) | `BitsIter` implements `BitsIterSpec`, counts too large for `advance_words_by` included |
| `WindowStaysInOrder`, `OnlyWordsInsideAreRead`, `RangesAreOpenedAsAsked`, `EqualWindowsShowTheSame` (`IterClientsProofs`) | `Spec =>` the invariants `WindowOK`, `EqualIffSameBits` and the action properties `ReadsInside`, `OpensWhatIsAsked` |
| `IndexStaysWithWindow`, `EachIndexIsTheNext`, `WordsAreTheList` (`IterClientsProofs`) | `ClientSpec =>` the invariants `IndexFollowsWindow`, `WordsCoverList` and the action property `NextIndexIsNext` |
| `WordsAreQueues`, `GarbageIsIgnored` (`WordBitsProofs`) | `WordBits` implements `WordBitsSpec`; `Spec => []EqIgnoresGarbage` |
| `CallsKeepTheirContract`, `OnlyItsWordsAreTouched`, `OnlyKeptWordsAreRead` (`BitCopyProofs`) | `Spec => []` of `ContractKept`, `TouchesOnlyItsWords`, `ReadsInitialisedOnly` |
| `HandlesStayDisjoint` (`BitsIterMutProofs`) | `Spec => []HandlesDisjoint` |
| `WritesAreNotLost`, `WordsHaveOneThread` (`BitsIterMutProofs`) | with `Careful`, `Spec => []` of `WritesLand`, `OneThreadPerWord` |

Assumptions.  Every word size that is a power of two with room for inline data
(`WordAssumption`), every byte size that divides it (`CopyAssumption`,
`IterMutAssumption`), every bound and set of arguments (`BoundAssumption`,
`BlocksAssumption`, `NumbersAssumption`, `WordBitsAssumption`), every memory an
iterator may stand on, of any number of words and any contents, with every count,
word size and alignment and the three kinds of `std::ops::Bound`
(`IterAssumption`, `RangeAssumption`), both builds,
and both kinds of owner where the table does not say `Careful`.
`CapacityAssumption`, and `BlocksAssumption` with it, says that a block has at
most `usize::MAX` bits: the code computes that product, and a machine has no
larger block.  `IterAssumption` says the same of an iterator's memory and of the
slices copied to (the constructors check it, `iter.rs:230, 251`), and that an alignment is
small enough not to carry a position of that memory past `usize::MAX`, which
section 5 comes back to.  `DigitsAssumption` says that the lists turned into
decimals are short enough for the room of their digits to be counted.  `Careful` is needed: without it the runs of section 5 refute the
statements.

### Arguments

**`BitWordsProofs`** has the arithmetic: how `words_for`, `word_index` and
`last_word_mask` bound each other, `\div` and `%` as the unique quotient and rest
(`DivSplit`, `DivUnique`), and the units of a smaller size inside those of a
larger one (`UnitsNest`).  `Least`, that a set of naturals has a least element,
and `Induction`, on sets of naturals, come from the library's `WFMin`.

**`BitListProofs`.** `WellFormed(r)` says that a representation has its types, that
its ones lie below its length and that its length fits its form.  No part is
inductive alone: that a shrink leaves no ones behind needs that the old length
fitted, and that a growth stays below the new length needs that there were no
ones beyond the old one.  `IInv` is `WellFormed(rep)` with the type of `out` and
the bound on the length.  Each operator has one lemma, "from a well-formed
representation every outcome is well formed"; a call made of others cites
theirs.  `NextIInv` has one step per action.

Its second part, on the calls, starts from that `IInv`.  For the two action properties
each operator has a lemma that every outcome is `Kept`: it returns with at least
the capacity it found, or it fails and leaves the representation it found.  The
calls made of one change after another need an argument of their own: `insert`
resizes, truncates and pushes twice, and is intact after a panic because its first
call is the last that can fail (it has made the room that the others use).  That
needs the new length to be what it is resized to.  Where the sum does not fit a
word, `InsertWraps` says what is left: a debug build panics before any change, a
release build still keeps the capacity, and nothing more is claimed.
`NoGarbage` follows from the masks: the words that a growth uncovers are
overwritten or masked before the length covers them, whatever is chosen from
`Residues`.  The refinement needs no more invariant than `IInv`, since the abstract
list is a function of `rep` alone.  For each operator one lemma says what an
outcome does to the string: it `Gives` the string and the result that the
abstract action names, or it `Fails`.  `EndsGives` and `EndsFails` turn this into
a step of `BitListSpec`, in `NewListPromise`, `SameStringPromise`,
`LengthPromise`, `GrowingPromise` and `WritingPromise`, which have a case per
action and cover `Next`.  `repeat` and `push_many_bits`, which loop in the code,
are in the model the closed form of their loops, so no induction is needed.

**`BitListReadsProofs`.** `eq` compares word by word: `WordsDetermine` says that
arrays with equal words are equal sets, and `TrailingBitsZero` that nothing beyond
the length tells two lists of one string apart.  Under `NumbersSpec`, `WellFormed(rep)`
is inductive again (`NumbersInv`): a lemma per call says that its outcomes are
`Whole`, which needs nothing of what the words come to, only where they are cut off.
`BcdFits`, `PartsRejoin` and `SetAtOverwrites` follow from it in every state.  The
loop of `set_at` on the heap is a recursive function; `PutsExists` builds it, and
`HeapSetAtIs` follows it bit by bit.

**`HeapBlocksProofs`.** `BlocksOwned` is not inductive, since what a step leaves
depends on where in a call the thread is.  `Inv` adds types and, with `CallOK`,
bounds on what a call asks for; `Sound(B, U, v)`, that the live blocks of
memory `B` are exactly those of `U`, each of the size that list or vector says;
that the block of `temp` is another one than that of the list; and `PhaseOK`,
which says for each phase what vector there is and what its header holds: `DropVec`
may give the block back only because its header has been set to the size of the
vector (or was never changed), and a failed check leaves the vector to whoever
unwinds.  The invariant is `IInv == out.end # "abort" => Inv`: an aborted process
owns nothing.  The lemmas of the first part are about memories (`Put`, `Free`,
`Move`, `Update`, `GiveBack`), those of the second about the actions; `NextKeeps`
has one step per action.

For `ImplementsBitList` the owner sees `Seen`: the list between calls, and during
a call the list as it was before.  `Tracked` says how far a call is from one
step of `BitList`: that the call's record is one of a call that was made (`Asked`),
and for each phase which outcomes are still open (`Progress`): before a
borrow ends the list is what it was; a vector that has grown has one of the
capacities `BitList` allows (`Larger`); a call is refused only when it may be
(`Refusable`); and it panics, or aborts while it unwinds, just when a debug
build looks for the last word of a list of length 0 (`Broken`, by `CheckFails`).
The first lemmas say what each operator of `BitList` offers for a list of zeros
(`TryReserveZeros`, `PushZeros`, `ResizeZeros`, `RepeatZeros`, `ShrinkZeros`...); the
outcomes that are still open at the end are among those
(`PossibleIsStep`).  Every other step is `Quiet`.

**`IterClientsProofs`.** For `BitsIter` it is inductive that memory is what the list
left there and that the window is in order (`WindowOK`).  Each call has one lemma
that says three things at once: the window stays in order, the words read lie in
`Within(start, stop)`, and the step is one of the abstract machine on the string
`Shown(start, stop)`.  Under these are lemmas on what the call puts together
from words: `PeekWordIs` (a word that straddles two of memory), `ScanFinds` (the
first word that is not empty and the first bit in it), `PositionFinds`,
`EqualByWords` (whole words, then bits).  The searches for free slots are
recursive functions on the position; `LooksAhead` shows that an equation which
looks only further ahead has a solution, so that the `CHOOSE` behind the function
is one, and `SlotFinds` and `SlotAlignFinds` go down from the end of the window.
In the aligned search the index the code counts may fall behind the aligned
place; `InStep` says that it has not, which holds where `RunsReachAlignment`
(section 5 says what the search gives otherwise).  For the
clients, `IndexIInv` says that the index is the distance from the base while
there are bits left, and `WordsIInv` that what came out in front, what is left, and
what came out at the back are together the list.

**`WordBitsProofs`.** The invariant is only that a word has at most `WordSize` bits
below and beyond its count; the work is in what each call does to the bits held.
`MaskUpTo` makes a mask the set of its positions, and one lemma per call compares
the word it leaves with the abstract queue (`MergedHeld`, `OverflowHeld`,
`SameHeld`, `FirstBit`).

**`BitCopyProofs`.** The contract speaks of the end of a call; the invariant says
what memory is between two steps.  `Halfway(d)` is the old memory with the first
`d` bits of the destination already as they are due, and `IInv` says that
memory is `Halfway(moved)` at every step.  For the next unit to be the right one,
`Place` keeps, for each place in the code, what its pointers and counters are
to each other: that the destination is at the start of a unit, that the source
is aligned with it, that less than a unit is left for the last step.
`Touches` (every place touched shares a word with a bit of the destination) is
inductive because each step has something left to write in its word, `Spares`
(every place read shares a word with a bit that is to be kept) because the
routine reads only in front of the first full word and behind the last.

**`BitsIterMutProofs`.** `HandlesDisjoint` becomes inductive with `Inside` (every
handle stays in its list) and with what threads are writing: `Apart` says that
no two handles, no two writes, and no handle and no write of another share a bit;
a write through a reference is the exception, since the reference outlives it.
For `WritesLand`, `Alone` says that no word has bits of two threads, counting what
they hold and what they are writing; then `Fresh`, that what a thread has loaded
of the neighbouring bits is still in memory, survives the stores of the others;
`Pending` says that what is still to be written is what the calls asked for, and
`Landed` that all else has arrived.  `WordsHaveOneThread` is `Alone` in the
words of the code.

### What is only model-checked

- `Terminates`, `ClientsFinish`: liveness under fairness.
- `OrderIsUnsigned`, `OrderIsSigned`, `CountsAreExact`, `NumbersReadBack`,
  `DecimalIsNumber`, `NumberPromise`, `CompressedReadsBack`: they speak of numbers as
  sums of powers of two, or of codes added up, by folds.  The provers know
  nothing of `^`, and what a fold adds up to for every input is induction over data.

## 5. What the code does otherwise

Found while modelling, and shown by runs:

1. `ops.rs:383` - making a heap list shorter overwrites its last word with ones
   (`shorter_keeps_prefix`); `truncate`, `pop_bit` and `insert` inherit it.
2. `iter.rs:128` - a part split off a mutable window may be given to another
   thread while the rest of the same word stays behind, and both write the word
   (`one_thread_per_word`), where `iter.rs:1279` says only one thread can access
   it.  Without such sharing every write lands (`iter_mut`).

Without a run of their own:

- `heap.rs:144`: in a debug build a cleared heap list that outgrows its block aborts
  the process, for it has no last word for the check to read (`HitsEmptyGrowth`;
  `HeapBlocks` has the two panics in detail).
- `heap.rs:101`: length and capacity are swapped, so that a clone copies the
  whole block, words that were never written included, and keeps its capacity ("an
  opportunity to trim capacity", `wrapper.rs:189`), and a debug build may catch it
  (`HitsSwappedArguments`).
- `ops.rs:992`: `is_ones` is wrong for heap lists of whole words, and
  `signed_partial_cmp` (`ops.rs:937`) orders them as unsigned.
- `ops.rs:498`: `push_many_bits` appends ones to an inline list whatever was
  asked for (`HitsInlineZeros`).
- `ops.rs:307`: `insert` adds its three lengths without a check.  A debug build
  panics there.  A release build wraps: `insert(usize::MAX..0, ..)` of 5 bits into
  a list of 3 resizes it to 7 bits, truncates nothing, pushes 5 bits and then 3, and
  fails the assertion of `ops.rs:312` with the list changed, or is refused memory
  by a push half-way.  The model does so too; `PanicLeavesListIntact` and `HitsInsert` name the call.
- `iter.rs:299-305`: `advance_words_by` does not move at all when the place it
  is to go to cannot be counted in a `usize`, where a smaller count beyond the end moves to the
  end.  Both machines say so.
- `iter.rs:679`: a search aligned to nearly `usize::MAX` wraps when it rounds its
  start up; `IterAssumption` leaves such alignments out.
- `heap.rs:500`: the size of a decimal is a sum without a check.  It overflows for
  lists longer than three quarters of `usize::MAX`, which no machine holds
  (`DigitsAssumption`, and the hypothesis in `DigitsFit`).
- `ops.rs:829`: `reverse` of an empty inline list shifts by a whole word, a panic
  in a debug build (`HitsEmptyReverse`).
- `ops.rs:70`: `from_trunc_u64` with length 64 shifts by 64 (`HitsMaskOf64`).
- `ops.rs:656`: `try_usize` and `try_u32` of an empty heap list panic for want of
  a first word (`Decomposes`).
- `inline.rs:147`: `get_range` of an inline list shifts in the wrong direction;
  it is modelled as it is, and `PartsRejoin` cuts heap lists.
- `ops.rs:1013-1020`: `reduction_xor` and `reduction_xnor` are exchanged.
- `heap.rs:108`: `into_vec_memory` hands the block to a `Vec` and then drops the
  list that owns it; nothing calls it.
- `basic_math.rs:18`: `assign_neg` is `assign_not`.
- `iter.rs:687`: the index of `find_continuous_slot_align` drifts after an
  aligned bit of the wrong value (`RunsReachAlignment`).
- `iter.rs:442`: `rpeek_word` takes the wrong index for every window that ends
  inside a word, and breaks the assertion of the accessor it calls; nothing calls
  it.
- `iter.rs:1004`: `pop_front` of a full word shifts by the word size: a panic in
  a debug build, and in a release build garbage behind a count of 0, which is
  harmless.
- `iter.rs:1048`: `decompress_run_length` reads only the codes of single bits.

## 6. Not modelled, and what is left

- Text layout: `Display` widths, `Binary`, `Debug`.  No property is about it.
- `extend` (`push_bit` in a loop), `mask_or_bit` and `mask_and_bit` (a list of
  equal bits and one `set`), `next_set_bit`, `next_clr_bit` and `first_bit`
  (`position` of `BitsIter`), the reductions (`count_ones` and its tests), `bool`
  conversion (a list of one bit): compositions of calls that are modelled.
- `find_continuous_slot_layout` (a wrapper of the aligned search), `rpeek_word`,
  `into_vec_memory` and `mac3` (called nowhere), `entropy` beyond the loop it
  shares with the compressor (a quotient in floating point).
- The tag of the inline pointer, a bit trick with no state of its own, and the
  `align_16` and `align_32` variants of the layout, which change no operation.
- The `BitWrite` trait object: `write` is `push_bits` and `flush` does nothing.

Left to do: the numbers of `BitListNumbers` and the orders in a form the provers can
reason about (powers of two as a recursive function), and the data words in
`HeapBlocks`, which would make the ownership and the contents of a block one model.
