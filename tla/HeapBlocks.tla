----------------------------- MODULE HeapBlocks -----------------------------
(***************************************************************************)
(* The blocks of memory behind a list (heap.rs:35-196, wrapper.rs).  A     *)
(* block is larger than its header says for a while: a call that needs     *)
(* another size borrows it as a vector (BorrowMutVec), which may move it,  *)
(* and the list has its address back only when the vector is dropped.      *)
(* Between these steps a debug build may panic, and then the vector is     *)
(* dropped by the unwinding.  The data words are left out: the lists hold  *)
(* zeros.  So are the calls that only make a list shorter; clear is here.  *)
(***************************************************************************)
EXTENDS BitWords, BitStrings

CONSTANTS
  MaxLen,     \* bound on the length of the list
  MaxWords,   \* the largest block the allocator grants, header not counted
  Addresses,  \* where blocks may lie
  Null,       \* none of them
  Positions,  \* the lengths passed to calls
  Reserves,   \* the amounts passed to reserve and try_reserve
  Repeats     \* the counts passed to repeat

ASSUME BlocksAssumption ==
  /\ MaxLen \in Nat /\ MaxWords \in Nat /\ Null \notin Addresses
  /\ Positions \subseteq Nat /\ Reserves \subseteq Nat /\ Repeats \subseteq Nat
  /\ DATA_BITS <= UsizeMax /\ MaxWords * WordSize <= UsizeMax   \* as in BitList

VARIABLES
  debug,   \* cfg!(debug_assertions)
  blocks,  \* by address: the words allocated, and the header
  list,    \* the list: inline, or the address of a block
  temp,    \* a list that a call holds while it runs, or NoList
  vec,     \* the vector that borrows the block of the list, or NoVec
  call,    \* the call that runs, or NoCall
  out,     \* as in BitList
  args

vars == <<debug, blocks, list, temp, vec, call, out, args>>

-----------------------------------------------------------------------------
(* Blocks. *)

HEADER == 2

NoBlock == [size |-> 0, len |-> 0, cap |-> 0]

Live == {p \in Addresses : blocks[p] # NoBlock}

Block(cap, n) == [size |-> cap + HEADER, len |-> n, cap |-> cap]

(* Mutant: the block is not given back. *)
dealloc_leaking(B, p) == B

dealloc(B, p) == [B EXCEPT ![p] = NoBlock]

-----------------------------------------------------------------------------
(* Lists. *)

InlineList(n) == [kind |-> "inline", len |-> n, ptr |-> Null]

HeapList(p) == [kind |-> "heap", len |-> 0, ptr |-> p]

NoList == InlineList(0)

len == IF list.kind = "inline" THEN list.len ELSE blocks[list.ptr].len

(* The memory once list x is dropped. *)
Dropped(B, x) == IF x.kind = "heap" THEN dealloc(B, x.ptr) ELSE B

(* The list as BitList has it. *)
Rep ==
  [kind |-> list.kind, len |-> len, ones |-> {},
   cap |-> IF list.kind = "inline" THEN 0 ELSE blocks[list.ptr].cap]

-----------------------------------------------------------------------------
(* Calls. *)

NoVec == [ptr |-> Null, len |-> 0, cap |-> 0]

NoCall == [op |-> "none", args |-> <<>>, need |-> 0, length |-> 0, phase |-> "none",
           before |-> [kind |-> "inline", len |-> 0, ones |-> {}, cap |-> 0]]

(* Where the one thread is; an abort is the end of it. *)
At(phase) == call.phase = phase /\ out.end # "abort"

Idle == At("none")

(* The end of call op. *)
Ends(op, a, ret, end) ==
  /\ out' = [op |-> op, ret |-> ret, end |-> end]
  /\ args' = a

(* The process ends; what its memory holds is of no interest any more.     *)
Aborts(op, a) ==
  /\ Ends(op, a, "none", "abort")
  /\ UNCHANGED <<debug, blocks, list, temp, vec, call>>

(* The list becomes x, in memory B, and what it was is dropped. *)
Assign(op, a, x, B) ==
  /\ blocks' = Dropped(B, list)
  /\ list' = x
  /\ Ends(op, a, "done", "return")
  /\ UNCHANGED <<debug, temp, vec, call>>

(* A new list of n bits, built before the old one is dropped. *)
Builds(op, a, n) ==
  /\ n <= MaxLen
  /\ IF n <= DATA_BITS THEN Assign(op, a, InlineList(n), blocks)
     ELSE \/ Aborts(op, a)
          \/ /\ words_for(n) <= MaxWords
             /\ \E p \in Addresses \ Live :
                  Assign(op, a, HeapList(p), [blocks EXCEPT ![p] = Block(words_for(n), n)])

(* Call op goes on to get room for need bits, and then has length bits.     *)
Asks(op, a, need, length) ==
  /\ length <= MaxLen
  /\ call' = [op |-> op, args |-> a, need |-> need, length |-> length, phase |-> "ask",
              before |-> Rep]
  /\ UNCHANGED <<debug, list, vec, out, args>>

Becomes(phase) == call' = [call EXCEPT !.phase = phase]

(* A long list is cloned with the whole of its block, since                *)
(* memory_const_vec takes the capacity for the length; others are inline.  *)
Long == list.kind = "heap" /\ len > DATA_BITS

CopyAt(p) == [blocks EXCEPT ![p] = Block(blocks[list.ptr].cap, len)]

-----------------------------------------------------------------------------
(* The owner's calls. *)

Zeros == Idle /\ \E n \in Positions : Builds("zeros", <<n>>, n)

Reverse ==
  /\ Idle
  /\ IF list.kind = "heap" THEN Builds("reverse", <<>>, len)
     ELSE /\ IF len = 0 /\ debug THEN Ends("reverse", <<>>, "none", "panic")
                                 ELSE Ends("reverse", <<>>, "done", "return")
          /\ UNCHANGED <<debug, blocks, list, temp, vec, call>>

Cleared(op, a) ==
  /\ IF list.kind = "inline" THEN list' = InlineList(0) /\ blocks' = blocks
     ELSE list' = list /\ blocks' = [blocks EXCEPT ![list.ptr].len = 0]
  /\ Ends(op, a, "done", "return")
  /\ UNCHANGED <<debug, temp, vec, call>>

Clear == Idle /\ Cleared("clear", <<>>)

Clone ==
  /\ Idle
  /\ \/ Long /\ Aborts("clone", <<>>)
     \/ Long /\ \E p \in Addresses \ Live : Assign("clone", <<>>, HeapList(p), CopyAt(p))
     \/ ~Long /\ Assign("clone", <<>>, InlineList(len), blocks)

TryReserve ==
  /\ Idle
  /\ \E n \in Reserves : Asks("try_reserve", <<n>>, len + n, len)
  /\ UNCHANGED <<blocks, temp>>

Reserve ==
  /\ Idle
  /\ \E n \in Reserves : Asks("reserve", <<n>>, len + n, len)
  /\ UNCHANGED <<blocks, temp>>

PushBits ==
  /\ Idle
  /\ \E n \in Positions : Asks("push_bits", <<Str(n, {})>>, len + n, len + n)
  /\ UNCHANGED <<blocks, temp>>

ResizeInline ==
  /\ Idle /\ list.kind = "inline"
  /\ \E n \in Positions \ {0} : Builds("resize", <<n, "zero">>, n)

ResizeHeap ==
  /\ Idle /\ list.kind = "heap"
  /\ \E n \in Positions : n > len /\ Asks("resize", <<n, "zero">>, n, n)
  /\ UNCHANGED <<blocks, temp>>

(* The clone is held until the call returns or its panic unwinds. *)
Repeat ==
  /\ Idle
  /\ \E k \in Repeats :
       \/ k = 0 /\ Cleared("repeat", <<k>>)
       \/ k > 0 /\ Long /\ Aborts("repeat", <<k>>)
       \/ /\ k > 0 /\ Asks("repeat", <<k>>, len * k, len * k)
          /\ IF Long THEN \E p \in Addresses \ Live : temp' = HeapList(p) /\ blocks' = CopyAt(p)
                     ELSE temp' = InlineList(len) /\ blocks' = blocks

ShrinkToFit ==
  /\ Idle
  /\ IF Long
     THEN /\ vec' = [ptr |-> list.ptr, len |-> words_for(len) + HEADER,
                     cap |-> blocks[list.ptr].cap + HEADER]
          /\ call' = [op |-> "shrink_to_fit", args |-> <<>>, need |-> 0, length |-> len,
                      phase |-> "shrink", before |-> Rep]
          /\ UNCHANGED <<debug, blocks, list, temp, out, args>>
     ELSE Assign("shrink_to_fit", <<>>, InlineList(len), blocks)

-----------------------------------------------------------------------------
(* The steps of a call that needs room. *)

RoomInline ==
  /\ At("ask") /\ list.kind = "inline"
  /\ \/ /\ call.need > DATA_BITS /\ Becomes("refused")
        /\ UNCHANGED <<blocks, list>>
     \/ /\ call.need <= DATA_BITS /\ Becomes("granted")
        /\ UNCHANGED <<blocks, list>>
     \/ /\ DATA_BITS < call.need /\ call.need <= UsizeMax
        /\ words_for(call.need) <= MaxWords
        /\ \E p \in Addresses \ Live :
             /\ blocks' = [blocks EXCEPT ![p] = Block(words_for(call.need), list.len)]
             /\ list' = HeapList(p)
        /\ Becomes("granted")
  /\ UNCHANGED <<debug, temp, vec, out, args>>

(* memory_mut_vec, when the capacity does not suffice. *)
RoomHeap ==
  /\ At("ask") /\ list.kind = "heap"
  /\ IF call.need > UsizeMax THEN Becomes("refused") /\ UNCHANGED vec
     ELSE IF call.need <= blocks[list.ptr].cap * WordSize
          THEN Becomes("granted") /\ UNCHANGED vec
     ELSE /\ Becomes("grow")
          /\ vec' = [ptr |-> list.ptr, len |-> words_for(len) + HEADER,
                     cap |-> blocks[list.ptr].cap + HEADER]
  /\ UNCHANGED <<debug, blocks, list, temp, out, args>>

(* The vector moves its words to size words elsewhere, or where they are.  *)
Moves(size) ==
  \E p \in (Addresses \ Live) \cup {vec.ptr} :
    /\ blocks' = [dealloc(blocks, vec.ptr) EXCEPT ![p] = [blocks[vec.ptr] EXCEPT !.size = size]]
    /\ vec' = [vec EXCEPT !.ptr = p, !.cap = size]

Grow ==
  /\ At("grow")
  /\ \/ Becomes("drop_refused") /\ UNCHANGED <<blocks, vec>>
     \/ \E c \in words_for(call.need) .. MaxWords : Moves(c + HEADER) /\ Becomes("set")
  /\ UNCHANGED <<debug, list, temp, out, args>>

Shrink ==
  /\ At("shrink")
  /\ \/ Aborts(call.op, call.args)
     \/ /\ \E c \in words_for(len) .. (vec.cap - HEADER) : Moves(c + HEADER)
        /\ Becomes("set")
        /\ UNCHANGED <<debug, list, temp, out, args>>

(* assert_update_memory_vec on header h: a debug build also reads the last *)
(* word the length covers, the first when it covers none.                  *)
Check(h) ==
  LET last == IF words_for(h.len) = 0 THEN HEADER ELSE words_for(h.len) - 1 + HEADER
  IN  debug => h.cap = vec.cap - HEADER /\ h.cap * WordSize >= h.len /\ last < vec.len

(* Mutant: the header keeps the old capacity. *)
update_capacity_never(h) == h

update_capacity(h) == [h EXCEPT !.cap = vec.cap - HEADER]

(* BorrowMutVec::set; a failed check unwinds through drop.                 *)
SetVec ==
  /\ At("set")
  /\ blocks' = [blocks EXCEPT ![vec.ptr] = update_capacity(@)]
  /\ Becomes(IF Check(update_capacity(blocks[vec.ptr])) THEN "drop_granted" ELSE "drop_unwinding")
  /\ UNCHANGED <<debug, list, temp, vec, out, args>>

(* Mutant: the list keeps the address it had. *)
taken_back_stale(x, p) == x

taken_back(x, p) == [x EXCEPT !.ptr = p]

(* BorrowMutVec::drop: it panics when the check fails, which ends the      *)
(* process when a panic is already unwinding.                              *)
DropVec ==
  /\ \E phase \in {"drop_granted", "drop_refused", "drop_unwinding"} : At(phase)
  /\ \/ /\ Check(blocks[vec.ptr])
        /\ list' = taken_back(list, vec.ptr)
        /\ vec' = NoVec
        /\ Becomes(CASE call.phase = "drop_granted" -> "granted"
                     [] call.phase = "drop_refused" -> "refused"
                     [] OTHER -> "panics")
        /\ UNCHANGED <<debug, blocks, temp, out, args>>
     \/ /\ ~Check(blocks[vec.ptr]) /\ call.phase # "drop_unwinding"
        /\ vec' = NoVec
        /\ Becomes("panics")
        /\ UNCHANGED <<debug, blocks, list, temp, out, args>>
     \/ /\ ~Check(blocks[vec.ptr]) /\ call.phase = "drop_unwinding"
        /\ Aborts(call.op, call.args)

(* The call returns, or its panic leaves it; what it held is dropped.      *)
Leaves(ret, end, B) ==
  /\ Ends(call.op, call.args, ret, end)
  /\ blocks' = Dropped(B, temp)
  /\ temp' = NoList
  /\ call' = NoCall
  /\ UNCHANGED <<debug, vec>>

Granted ==
  /\ At("granted")
  /\ IF list.kind = "inline"
     THEN list' = InlineList(call.length) /\ Leaves("done", "return", blocks)
     ELSE list' = list /\ Leaves("done", "return", [blocks EXCEPT ![list.ptr].len = call.length])

Refused ==
  /\ At("refused")
  /\ IF call.op = "try_reserve" THEN Leaves("err", "return", blocks)
                                ELSE Leaves("none", "panic", blocks)
  /\ UNCHANGED list

Panicking ==
  At("panics") /\ Leaves("none", "panic", blocks) /\ UNCHANGED list

Init ==
  /\ debug \in BOOLEAN
  /\ blocks = [p \in Addresses |-> NoBlock]
  /\ list = InlineList(0)
  /\ temp = NoList
  /\ vec = NoVec
  /\ call = NoCall
  /\ out = [op |-> "new", ret |-> "done", end |-> "return"]
  /\ args = <<>>

Next ==
  \/ Zeros \/ Reverse \/ Clear \/ Clone \/ TryReserve \/ Reserve \/ PushBits
  \/ ResizeInline \/ ResizeHeap \/ Repeat \/ ShrinkToFit
  \/ RoomInline \/ RoomHeap \/ Grow \/ Shrink \/ SetVec \/ DropVec
  \/ Granted \/ Refused \/ Panicking

Spec == Init /\ [][Next]_vars

-----------------------------------------------------------------------------
(* Properties. *)

(* The address at which the block of list x is used. *)
Owns(x) == IF x.kind = "heap" THEN {x.ptr} ELSE {}
Used == IF vec # NoVec THEN {vec.ptr} ELSE Owns(list)

(* The block at p has the size by which it will be freed, and room for its *)
(* length.                                                                 *)
Sized(p) ==
  /\ blocks[p].size = (IF p = vec.ptr THEN vec.cap ELSE blocks[p].cap + HEADER)
  /\ blocks[p].len <= (blocks[p].size - HEADER) * WordSize

(* Every block alive is used by exactly one list or vector, and every one  *)
(* used is alive: nothing leaks, dangles or is freed twice, through moves, *)
(* refusals and panics (heap.rs:189-195).  A block is as large as the one  *)
(* that will free it says: the layout of dealloc (heap.rs:149, 257) is the *)
(* one it was allocated with, or the capacity of the vector.               *)
BlocksOwned ==
  out.end # "abort" =>
    /\ Live = Used \cup Owns(temp) /\ Used \cap Owns(temp) = {}
    /\ \A p \in Live : Sized(p)

(* To its owner a call is one step, with the outcome BitList gives it: the *)
(* capacity, the length and the way it ends, the panics and the abort of a *)
(* debug build included.                                                   *)
Abstract(d) ==
  INSTANCE BitList WITH
    rep <- IF call = NoCall THEN Rep ELSE call.before,
    DebugBuild <- d, Careful <- FALSE, Residues <- {{}},
    Operands <- {Str(n, {}) : n \in Positions}

ImplementsBitList ==
  [][/\ call' = NoCall \/ out'.end = "abort"
     /\ IF debug THEN Abstract(TRUE)!Next ELSE Abstract(FALSE)!Next]_(Abstract(TRUE)!vars)
=============================================================================
