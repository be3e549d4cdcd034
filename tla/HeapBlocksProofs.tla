-------------------------- MODULE HeapBlocksProofs --------------------------
(***************************************************************************)
(* Blocks are owned, for every word size, number of addresses, allocator   *)
(* answer and sequence of calls: Spec => []BlocksOwned.  BlocksOwned is    *)
(* not inductive: that a list gets back a block whose header tells its     *)
(* size, and that a failed check leaves nothing behind, depends on where   *)
(* in a call the thread is (PhaseOK).  The lemmas of the first part speak  *)
(* of memories, those of the second of the actions.                        *)
(*                                                                         *)
(* And HeapBlocks implements BitList: Spec => ImplementsBitList.  Beside   *)
(* the blocks, its invariant says at each place of a call what was asked   *)
(* and what the call may still become (Tracked).  The lemmas of its first  *)
(* part say what BitList does with lists of zeros, those of its second     *)
(* part that an ended call is one step of it.                              *)
(***************************************************************************)
EXTENDS HeapBlocks, BitWordsProofs

Headers == [size : Nat, len : Nat, cap : Nat]

Memories == [Addresses -> Headers]

Lists ==
  [kind : {"inline"}, len : Nat, ptr : {Null}] \cup [kind : {"heap"}, len : {0}, ptr : Addresses]

Vecs == [ptr : Addresses \cup {Null}, len : Nat, cap : Nat]

(* The blocks of memory B alive. *)
LiveIn(B) == {p \in Addresses : B[p] # NoBlock}

(* Sized, for a memory and a vector. *)
SizedIn(B, v, p) ==
  /\ B[p].size = (IF p = v.ptr THEN v.cap ELSE B[p].cap + HEADER)
  /\ B[p].len <= (B[p].size - HEADER) * WordSize

(* In memory B the blocks of U are alive, no others, and have their sizes. *)
Sound(B, U, v) ==
  /\ B \in Memories
  /\ LiveIn(B) = U
  /\ \A p \in U : SizedIn(B, v, p)

(* What a header says when no vector borrows its block. *)
Fits(h) ==
  h \in Headers /\ h.size = h.cap + HEADER /\ h.len <= h.cap * WordSize

-----------------------------------------------------------------------------
(* Memories. *)

LEMMA NoAddress == Null \notin Addresses /\ NoVec.ptr = Null /\ NoVec \in Vecs
BY BlocksAssumption DEF NoVec, Vecs

LEMMA NoBlockType == NoBlock \in Headers /\ NoBlock.size = 0
BY DEF NoBlock, Headers

(* A block that holds n bits in cap words fits. *)
LEMMA BlockFits ==
  ASSUME NEW cap \in Nat, NEW n \in Nat, n <= cap * WordSize
  PROVE  Fits(Block(cap, n))
BY DEF Fits, Block, Headers, HEADER

(* A header is put at p, whether a block was alive there or not. *)
LEMMA Put ==
  ASSUME NEW B, NEW U, Sound(B, U, NoVec), NEW p \in Addresses, NEW h, Fits(h)
  PROVE  Sound([B EXCEPT ![p] = h], U \cup {p}, NoVec)
<1> DEFINE C == [B EXCEPT ![p] = h]
<1>1. B \in Memories /\ C \in Memories /\ C[p] = h /\ \A q \in Addresses \ {p} : C[q] = B[q]
  BY DEF Sound, Memories, Fits
<1>2. h # NoBlock /\ h \in Headers
  BY NoBlockType DEF Fits, Headers, HEADER
<1>3. LiveIn(C) = U \cup {p}
  BY <1>1, <1>2 DEF LiveIn, Sound
<1>4. SizedIn(C, NoVec, p)
  <2>1. p # NoVec.ptr
    BY NoAddress
  <2>2. h.size - HEADER = h.cap
    BY <1>2 DEF Fits, HEADER, Headers
  <2> QED BY <1>1, <2>1, <2>2 DEF SizedIn, Fits
<1>5. ASSUME NEW q \in U, q # p PROVE SizedIn(C, NoVec, q)
  BY <1>1, <1>5 DEF Sound, SizedIn, LiveIn
<1> QED BY <1>1, <1>3, <1>4, <1>5 DEF Sound

(* A block is given back. *)
LEMMA Free ==
  ASSUME NEW B, NEW U, NEW v, Sound(B, U, v), NEW p \in Addresses
  PROVE  Sound(dealloc(B, p), U \ {p}, v)
<1> DEFINE C == dealloc(B, p)
<1>1. B \in Memories /\ C \in Memories /\ C[p] = NoBlock /\ \A q \in Addresses \ {p} : C[q] = B[q]
  BY NoBlockType DEF Sound, Memories, dealloc
<1>2. LiveIn(C) = U \ {p}
  BY <1>1 DEF LiveIn, Sound
<1>3. ASSUME NEW q \in U \ {p} PROVE SizedIn(C, v, q)
  BY <1>1 DEF Sound, SizedIn, LiveIn
<1> QED BY <1>1, <1>2, <1>3 DEF Sound

(* A list is dropped. *)
LEMMA Drop1 ==
  ASSUME NEW B, NEW U, NEW v, Sound(B, U, v), NEW x \in Lists
  PROVE  Sound(Dropped(B, x), U \ Owns(x), v)
<1>1. CASE x.kind = "heap"
  <2>1. x.ptr \in Addresses
    BY <1>1 DEF Lists
  <2> QED BY <1>1, <2>1, Free DEF Dropped, Owns
<1>2. CASE x.kind # "heap"
  <2>1. Dropped(B, x) = B /\ U \ Owns(x) = U
    BY <1>2 DEF Dropped, Owns
  <2> QED BY <2>1
<1> QED BY <1>1, <1>2

(* A vector borrows a block. *)
LEMMA Borrow ==
  ASSUME NEW B, NEW U, Sound(B, U, NoVec), NEW v \in Vecs,
         v.ptr \in U, v.cap = B[v.ptr].cap + HEADER
  PROVE  Sound(B, U, v)
<1>1. ASSUME NEW p \in U PROVE SizedIn(B, v, p)
  <2>1. p \in Addresses /\ p # NoVec.ptr /\ SizedIn(B, NoVec, p)
    BY NoAddress DEF Sound, LiveIn
  <2> QED BY <2>1 DEF SizedIn
<1> QED BY <1>1 DEF Sound

(* The vector moves its block. *)
LEMMA Move ==
  ASSUME NEW B, NEW U, NEW v \in Vecs, Sound(B, U, v), v.ptr \in U,
         NEW p \in (Addresses \ U) \cup {v.ptr}, NEW size \in Nat, HEADER <= size,
         B[v.ptr].len <= (size - HEADER) * WordSize
  PROVE  Sound([dealloc(B, v.ptr) EXCEPT ![p] = [B[v.ptr] EXCEPT !.size = size]],
               (U \ {v.ptr}) \cup {p}, [v EXCEPT !.ptr = p, !.cap = size])
<1> DEFINE h == [B[v.ptr] EXCEPT !.size = size]
           C == [dealloc(B, v.ptr) EXCEPT ![p] = h]
           w == [v EXCEPT !.ptr = p, !.cap = size]
<1>1. B \in Memories /\ v.ptr \in Addresses /\ p \in Addresses
  BY DEF Sound, LiveIn
<1>2. B[v.ptr] \in Headers
  BY <1>1 DEF Memories
<1>3. h \in Headers /\ h.size = size /\ h.len = B[v.ptr].len /\ h # NoBlock
  BY <1>2, NoBlockType DEF Headers, HEADER
<1>4. w.ptr = p /\ w.cap = size
  BY DEF Vecs
<1> HIDE DEF h, w
<1>5. C \in Memories /\ C[p] = h /\ (p # v.ptr => C[v.ptr] = NoBlock)
      /\ \A q \in Addresses \ {p, v.ptr} : C[q] = B[q]
  BY <1>1, <1>3, NoBlockType DEF Memories, dealloc
<1> HIDE DEF C
<1>6. LiveIn(C) = (U \ {v.ptr}) \cup {p}
  BY <1>1, <1>3, <1>5 DEF LiveIn, Sound
<1>7. SizedIn(C, w, p)
  BY <1>3, <1>4, <1>5 DEF SizedIn
<1>8. ASSUME NEW q \in U \ {v.ptr}, q # p PROVE SizedIn(C, w, q)
  <2>1. q \in Addresses /\ SizedIn(B, v, q) /\ C[q] = B[q]
    BY <1>5, <1>8 DEF Sound, LiveIn
  <2> QED BY <2>1, <1>4, <1>8 DEF SizedIn
<1>9. Sound(C, (U \ {v.ptr}) \cup {p}, w)
  BY <1>5, <1>6, <1>7, <1>8 DEF Sound
<1> QED BY <1>9 DEF C, h, w

(* BorrowMutVec::set writes the capacity. *)
LEMMA Update ==
  ASSUME NEW B, NEW U, NEW v \in Vecs, Sound(B, U, v), v.ptr \in U, HEADER <= v.cap
  PROVE  /\ Sound([B EXCEPT ![v.ptr] = [@ EXCEPT !.cap = v.cap - HEADER]], U, v)
         /\ [B[v.ptr] EXCEPT !.cap = v.cap - HEADER].cap = v.cap - HEADER
<1> DEFINE h == [B[v.ptr] EXCEPT !.cap = v.cap - HEADER]
           C == [B EXCEPT ![v.ptr] = h]
<1>1. B \in Memories /\ v.ptr \in Addresses /\ SizedIn(B, v, v.ptr)
  BY DEF Sound, LiveIn
<1>2. B[v.ptr] \in Headers /\ v.cap - HEADER \in Nat
  BY <1>1 DEF Memories, Vecs, HEADER
<1>3. h \in Headers /\ h.size = B[v.ptr].size /\ h.len = B[v.ptr].len /\ h.cap = v.cap - HEADER
  BY <1>2 DEF Headers
<1> HIDE DEF h
<1>4. h # NoBlock
  <2>1. B[v.ptr].size = v.cap
    BY <1>1 DEF SizedIn
  <2>2. h.size # 0
    BY <1>3, <2>1 DEF HEADER, Vecs
  <2> QED BY <2>2, NoBlockType
<1>5. C \in Memories /\ C[v.ptr] = h /\ \A q \in Addresses \ {v.ptr} : C[q] = B[q]
  BY <1>1, <1>3 DEF Memories
<1> HIDE DEF C
<1>6. LiveIn(C) = U
  BY <1>1, <1>4, <1>5 DEF LiveIn, Sound
<1>7. ASSUME NEW q \in U PROVE SizedIn(C, v, q)
  <2>1. q \in Addresses /\ SizedIn(B, v, q)
    BY DEF Sound, LiveIn
  <2>2. CASE q = v.ptr
    BY <1>1, <1>3, <1>5, <2>2 DEF SizedIn
  <2>3. CASE q # v.ptr
    BY <2>1, <1>5, <2>3 DEF SizedIn
  <2> QED BY <2>2, <2>3
<1>8. Sound(C, U, v)
  BY <1>5, <1>6, <1>7 DEF Sound
<1> QED BY <1>3, <1>8 DEF C, h

(* The vector is dropped when the header tells its size. *)
LEMMA GiveBack ==
  ASSUME NEW B, NEW U, NEW v \in Vecs, Sound(B, U, v), v.ptr \in U,
         HEADER <= v.cap, B[v.ptr].cap = v.cap - HEADER
  PROVE  Sound(B, U, NoVec)
<1>1. ASSUME NEW p \in U PROVE SizedIn(B, NoVec, p)
  <2>1. p \in Addresses /\ p # NoVec.ptr /\ SizedIn(B, v, p)
    BY NoAddress DEF Sound, LiveIn
  <2>2. v.cap = (v.cap - HEADER) + HEADER
    BY DEF Vecs, HEADER
  <2> QED BY <2>1, <2>2 DEF SizedIn
<1> QED BY <1>1 DEF Sound

(* A sound block read back: what its header says. *)
LEMMA HeaderFits ==
  ASSUME NEW B, NEW U, Sound(B, U, NoVec), NEW p \in U
  PROVE  p \in Addresses /\ Fits(B[p])
<1>1. p \in Addresses /\ B[p] \in Headers /\ SizedIn(B, NoVec, p) /\ p # NoVec.ptr
  BY NoAddress DEF Sound, LiveIn, Memories
<1>2. B[p].size = B[p].cap + HEADER /\ B[p].len <= (B[p].size - HEADER) * WordSize
  BY <1>1 DEF SizedIn
<1>3. B[p].size - HEADER = B[p].cap
  BY <1>1, <1>2 DEF Headers, HEADER
<1> QED BY <1>1, <1>2, <1>3 DEF Fits

-----------------------------------------------------------------------------
(* The invariant. *)

Borrowing == {"grow", "shrink", "set", "drop_granted", "drop_refused", "drop_unwinding"}

Phases == Borrowing \cup {"none", "ask", "granted", "refused", "panics"}

CallOK ==
  /\ call = [op |-> call.op, args |-> call.args, need |-> call.need, length |-> call.length,
             phase |-> call.phase, before |-> call.before]
  /\ call.need \in Nat /\ call.length \in Nat /\ call.phase \in Phases

(* What holds at each place of a call. *)
PhaseOK ==
  /\ call.phase = "none" => temp = NoList
  /\ call.phase \notin Borrowing => vec = NoVec
  /\ call.phase \in Borrowing =>
       list.kind = "heap" /\ vec.ptr \in Addresses /\ HEADER <= vec.cap
  /\ call.phase \in {"ask", "grow"} => call.length <= call.need /\ len <= call.need
  /\ call.phase \in {"grow", "shrink", "drop_refused"} => vec.ptr = list.ptr
  /\ call.phase = "shrink" => call.length = len
  /\ call.phase \in {"set", "drop_granted"} => call.length <= (vec.cap - HEADER) * WordSize
  /\ call.phase \in Borrowing \ {"set"} => blocks[vec.ptr].cap = vec.cap - HEADER
  /\ call.phase = "drop_granted" => Check(blocks[vec.ptr])
  /\ call.phase = "granted" /\ list.kind = "heap" =>
       call.length <= blocks[list.ptr].cap * WordSize

Inv ==
  /\ list \in Lists /\ temp \in Lists /\ vec \in Vecs
  /\ CallOK
  /\ Sound(blocks, Used \cup Owns(temp), vec)
  /\ Used \cap Owns(temp) = {}
  /\ PhaseOK

IInv == out.end # "abort" => Inv

-----------------------------------------------------------------------------
(* Facts about states of the invariant. *)

LEMMA ListTypes ==
  /\ \A n \in Nat : InlineList(n) \in Lists /\ Owns(InlineList(n)) = {}
  /\ \A p \in Addresses : HeapList(p) \in Lists /\ Owns(HeapList(p)) = {p}
  /\ NoList \in Lists /\ Owns(NoList) = {}
BY DEF InlineList, HeapList, NoList, Lists, Owns

(* Outside a borrow the list uses its own block. *)
LEMMA NotBorrowed ==
  ASSUME Inv, call.phase \notin Borrowing
  PROVE  /\ vec = NoVec /\ Used = Owns(list)
         /\ Sound(blocks, Owns(list) \cup Owns(temp), NoVec)
         /\ Owns(list) \cap Owns(temp) = {}
         /\ Live = Owns(list) \cup Owns(temp)
<1>1. vec = NoVec
  BY DEF Inv, PhaseOK
<1>2. Used = Owns(list)
  BY <1>1 DEF Used
<1> QED BY <1>1, <1>2 DEF Inv, Sound, Live, LiveIn

(* Before a call nothing is held besides the list. *)
LEMMA AtRest ==
  ASSUME Inv, call.phase = "none"
  PROVE  /\ vec = NoVec /\ Used = Owns(list) /\ temp = NoList /\ Owns(temp) = {}
         /\ Sound(blocks, Owns(list), NoVec)
         /\ Live = Owns(list)
<1>1. call.phase \notin Borrowing
  BY DEF Borrowing
<1>2. temp = NoList /\ Owns(temp) = {}
  BY ListTypes DEF Inv, PhaseOK
<1> QED BY <1>1, <1>2, NotBorrowed

(* The list of a sound memory. *)
LEMMA ListBlock ==
  ASSUME Inv, list.kind = "heap"
  PROVE  /\ list.ptr \in Addresses /\ blocks[list.ptr] \in Headers
         /\ len = blocks[list.ptr].len /\ Owns(list) = {list.ptr}
         /\ call.phase \notin Borrowing => Fits(blocks[list.ptr])
<1>1. list.ptr \in Addresses
  BY DEF Inv, Lists
<1>2. blocks[list.ptr] \in Headers
  BY <1>1 DEF Inv, Sound, Memories
<1>3. call.phase \notin Borrowing => Fits(blocks[list.ptr])
  BY NotBorrowed, HeaderFits DEF Owns
<1> QED BY <1>1, <1>2, <1>3 DEF len, Owns

LEMMA LenType ==
  ASSUME Inv
  PROVE  len \in Nat
<1>1. CASE list.kind = "heap"
  BY <1>1, ListBlock DEF Headers
<1>2. CASE list.kind # "heap"
  BY <1>2 DEF Inv, Lists, len
<1> QED BY <1>1, <1>2

(* The invariant speaks of these variables only. *)
LEMMA Unchanged ==
  ASSUME Inv, UNCHANGED <<debug, blocks, list, temp, vec, call>>
  PROVE  Inv'
BY DEF Inv, CallOK, PhaseOK, Sound, LiveIn, SizedIn, Used, Owns, len, Check

(* An abort asks nothing of the state. *)
LEMMA AbortKeeps ==
  ASSUME NEW op, NEW a, Aborts(op, a)
  PROVE  IInv'
BY DEF Aborts, Ends, IInv

(* The list is replaced. *)
LEMMA AssignKeeps ==
  ASSUME Inv, call.phase = "none", NEW op, NEW a, NEW x \in Lists, NEW B,
         Sound(B, Owns(list) \cup Owns(x), NoVec), Owns(x) \cap Owns(list) = {},
         Assign(op, a, x, B)
  PROVE  Inv'
<1>1. /\ list' = x /\ temp' = temp /\ vec' = vec /\ call' = call
      /\ blocks' = Dropped(B, list)
  BY DEF Assign
<1>2. vec = NoVec /\ temp = NoList /\ Owns(temp) = {}
  BY AtRest
<1>3. Sound(blocks', Owns(x), NoVec)
  <2>1. Sound(Dropped(B, list), (Owns(list) \cup Owns(x)) \ Owns(list), NoVec)
    BY Drop1 DEF Inv
  <2>2. (Owns(list) \cup Owns(x)) \ Owns(list) = Owns(x)
    OBVIOUS
  <2> QED BY <1>1, <2>1, <2>2
<1>4. Used' = Owns(x) /\ Owns(temp)' = {}
  BY <1>1, <1>2 DEF Used, Owns
<1>5. Sound(blocks, Used \cup Owns(temp), vec)'
  <2>1. (Used \cup Owns(temp))' = Owns(x) /\ vec' = NoVec
    BY <1>1, <1>2, <1>4
  <2> QED BY <1>3, <2>1 DEF Sound, LiveIn, SizedIn
<1>6. PhaseOK'
  BY <1>1, <1>2 DEF PhaseOK, Borrowing, NoList, NoVec, InlineList
<1> QED BY <1>1, <1>4, <1>5, <1>6 DEF Inv, CallOK

(* A call begins that needs room. *)
LEMMA AsksKeeps ==
  ASSUME Inv, call.phase = "none", NEW op, NEW a, NEW need \in Nat, NEW n \in Nat,
         n <= need, len <= need, Asks(op, a, need, n), temp' \in Lists, len' = len,
         Sound(blocks', Owns(list) \cup Owns(temp'), NoVec), Owns(list) \cap Owns(temp') = {}
  PROVE  Inv'
<1>1. /\ list' = list /\ vec' = NoVec
      /\ call' = [op |-> op, args |-> a, need |-> need, length |-> n, phase |-> "ask",
                  before |-> Rep]
  BY AtRest DEF Asks
<1>2. CallOK'
  BY <1>1 DEF CallOK, Phases
<1>3. Used' = Owns(list) /\ Owns(temp)' = Owns(temp')
  BY <1>1 DEF Used, Owns
<1>4. Sound(blocks, Used \cup Owns(temp), vec)'
  <2>1. (Used \cup Owns(temp))' = Owns(list) \cup Owns(temp') /\ vec' = NoVec
    BY <1>1, <1>3
  <2> QED BY <2>1 DEF Sound, LiveIn, SizedIn
<1>5. PhaseOK'
  BY <1>1 DEF PhaseOK, Borrowing
<1>6. list' \in Lists /\ vec' \in Vecs
  BY <1>1, NoAddress DEF Inv
<1> QED BY <1>2, <1>3, <1>4, <1>5, <1>6 DEF Inv

(* A call ends.  Of the list only its length may have changed.             *)
LEMMA LeavesKeeps ==
  ASSUME Inv, call.phase \notin Borrowing, NEW ret, NEW end, NEW B,
         Sound(B, Owns(list) \cup Owns(temp), NoVec),
         list' \in Lists, Owns(list') = Owns(list), Leaves(ret, end, B)
  PROVE  Inv'
<1>1. /\ vec' = NoVec /\ temp' = NoList /\ call' = NoCall
      /\ blocks' = Dropped(B, temp)
  BY NotBorrowed DEF Leaves
<1>2. Sound(blocks', Owns(list), NoVec)
  <2>1. Sound(Dropped(B, temp), (Owns(list) \cup Owns(temp)) \ Owns(temp), NoVec)
    BY Drop1 DEF Inv
  <2>2. (Owns(list) \cup Owns(temp)) \ Owns(temp) = Owns(list)
    BY NotBorrowed
  <2> QED BY <1>1, <2>1, <2>2
<1>3. Used' = Owns(list) /\ Owns(temp)' = {}
  BY <1>1, ListTypes DEF Used, Owns
<1>4. Sound(blocks, Used \cup Owns(temp), vec)'
  <2>1. (Used \cup Owns(temp))' = Owns(list) /\ vec' = NoVec
    BY <1>1, <1>3
  <2> QED BY <1>2, <2>1 DEF Sound, LiveIn, SizedIn
<1>5. CallOK'
  BY <1>1 DEF CallOK, NoCall, Phases
<1>6. PhaseOK'
  BY <1>1 DEF PhaseOK, Borrowing, NoCall
<1>7. temp' \in Lists /\ vec' \in Vecs
  BY <1>1, ListTypes, NoAddress
<1> QED BY <1>3, <1>4, <1>5, <1>6, <1>7 DEF Inv

-----------------------------------------------------------------------------
(* The owner's calls keep the invariant. *)

LEMMA IdlePhase == ASSUME Idle PROVE call.phase = "none" /\ out.end # "abort"
BY DEF Idle, At

LEMMA BuildsKeeps ==
  ASSUME Inv, call.phase = "none", NEW op, NEW a, NEW n \in Nat, Builds(op, a, n)
  PROVE  IInv'
<1>1. CASE Assign(op, a, InlineList(n), blocks)
  <2>1. Sound(blocks, Owns(list) \cup Owns(InlineList(n)), NoVec)
    BY AtRest, ListTypes
  <2>2. Inv'
    BY <1>1, <2>1, AssignKeeps, ListTypes
  <2> QED BY <2>2 DEF IInv
<1>2. CASE Aborts(op, a)
  BY <1>2, AbortKeeps
<1>3. ASSUME NEW p \in Addresses \ Live,
             Assign(op, a, HeapList(p), [blocks EXCEPT ![p] = Block(words_for(n), n)])
      PROVE  IInv'
  <2>1. Fits(Block(words_for(n), n))
    BY BlockFits, WordsForBounds
  <2>2. Sound([blocks EXCEPT ![p] = Block(words_for(n), n)], Owns(list) \cup {p}, NoVec)
    BY <2>1, AtRest, Put
  <2>3. Owns(HeapList(p)) = {p} /\ HeapList(p) \in Lists /\ p \notin Owns(list)
    BY ListTypes, AtRest
  <2>4. Inv'
    BY <1>3, <2>2, <2>3, AssignKeeps
  <2> QED BY <2>4 DEF IInv
<1> QED BY <1>1, <1>2, <1>3 DEF Builds

LEMMA ClearedKeeps ==
  ASSUME Inv, call.phase = "none", NEW op, NEW a, Cleared(op, a)
  PROVE  IInv'
<1>1. vec = NoVec /\ temp = NoList /\ Owns(temp) = {} /\ Used = Owns(list)
      /\ Sound(blocks, Owns(list), NoVec)
  BY AtRest
<1>2. vec' = vec /\ temp' = temp /\ call' = call
  BY DEF Cleared
<1>3. list' \in Lists /\ Owns(list') = Owns(list) /\ Sound(blocks', Owns(list), NoVec)
  <2>1. CASE list.kind = "inline"
    <3>1. Owns(list) = {}
      BY <2>1 DEF Owns
    <3> QED BY <2>1, <3>1, <1>1, ListTypes DEF Cleared
  <2>2. CASE list.kind = "heap"
    <3> DEFINE h == [blocks[list.ptr] EXCEPT !.len = 0]
    <3>1. list' = list /\ blocks' = [blocks EXCEPT ![list.ptr] = h]
      BY <2>2 DEF Cleared
    <3>2. call.phase \notin Borrowing
      BY DEF Borrowing
    <3>3. Fits(blocks[list.ptr]) /\ list.ptr \in Addresses /\ Owns(list) = {list.ptr}
      BY <2>2, <3>2, ListBlock
    <3>4. Fits(h)
      <4>1. h \in Headers /\ h.size = blocks[list.ptr].size /\ h.cap = blocks[list.ptr].cap
            /\ h.len = 0
        BY <3>3 DEF Fits, Headers
      <4>2. 0 <= h.cap * WordSize
        BY <4>1, TimesMono, WordSizeType DEF Headers
      <4> QED BY <3>3, <4>1, <4>2 DEF Fits
    <3> HIDE DEF h
    <3>5. Sound(blocks', Owns(list) \cup {list.ptr}, NoVec)
      BY <1>1, <3>1, <3>3, <3>4, Put
    <3>6. Owns(list) \cup {list.ptr} = Owns(list)
      BY <3>3
    <3> QED BY <3>1, <3>5, <3>6 DEF Inv
  <2> QED BY <2>1, <2>2 DEF Inv, Lists
<1>4. Used' = Owns(list) /\ Owns(temp)' = {} /\ vec' = NoVec
  BY <1>1, <1>2, <1>3 DEF Used, Owns
<1>5. Sound(blocks, Used \cup Owns(temp), vec)'
  <2>1. (Used \cup Owns(temp))' = Owns(list)
    BY <1>4
  <2> QED BY <1>3, <1>4, <2>1 DEF Sound, LiveIn, SizedIn
<1>6. PhaseOK'
  BY <1>1, <1>2 DEF PhaseOK, Borrowing, NoList, InlineList
<1>7. CallOK' /\ temp' \in Lists /\ vec' \in Vecs
  BY <1>2 DEF Inv, CallOK
<1> QED BY <1>3, <1>4, <1>5, <1>6, <1>7 DEF Inv, IInv

(* The copy of a long list. *)
LEMMA CopySound ==
  ASSUME Inv, call.phase = "none", Long, NEW p \in Addresses \ Live
  PROVE  /\ Sound(CopyAt(p), Owns(list) \cup {p}, NoVec) /\ p \notin Owns(list)
         /\ CopyAt(p)[list.ptr] = blocks[list.ptr]
<1>1. call.phase \notin Borrowing
  BY DEF Borrowing
<1>2. Fits(blocks[list.ptr]) /\ list.ptr \in Addresses /\ len = blocks[list.ptr].len
      /\ Owns(list) = {list.ptr}
  BY <1>1, ListBlock DEF Long
<1>3. Fits(Block(blocks[list.ptr].cap, len))
  BY <1>2, BlockFits DEF Fits, Headers
<1>4. p \notin Owns(list) /\ Sound(blocks, Owns(list), NoVec)
  BY AtRest
<1>5. Sound(CopyAt(p), Owns(list) \cup {p}, NoVec)
  BY <1>3, <1>4, Put DEF CopyAt
<1>6. CopyAt(p)[list.ptr] = blocks[list.ptr]
  BY <1>2, <1>4 DEF CopyAt, Sound, Memories
<1> QED BY <1>4, <1>5, <1>6

LEMMA CloneKeeps ==
  ASSUME Inv, Clone
  PROVE  IInv'
<1>1. call.phase = "none"
  BY IdlePhase DEF Clone
<1>2. CASE Aborts("clone", <<>>)
  BY <1>2, AbortKeeps
<1>3. ASSUME Long, NEW p \in Addresses \ Live, Assign("clone", <<>>, HeapList(p), CopyAt(p))
      PROVE  IInv'
  <2>1. Sound(CopyAt(p), Owns(list) \cup {p}, NoVec) /\ p \notin Owns(list)
    BY <1>1, <1>3, CopySound
  <2>2. HeapList(p) \in Lists /\ Owns(HeapList(p)) = {p}
    BY ListTypes
  <2>3. Inv'
    BY <1>1, <1>3, <2>1, <2>2, AssignKeeps
  <2> QED BY <2>3 DEF IInv
<1>4. CASE Assign("clone", <<>>, InlineList(len), blocks)
  <2>1. InlineList(len) \in Lists /\ Owns(InlineList(len)) = {}
    BY LenType, ListTypes
  <2>2. Sound(blocks, Owns(list) \cup {}, NoVec)
    BY <1>1, AtRest
  <2>3. Inv'
    BY <1>1, <1>4, <2>1, <2>2, AssignKeeps
  <2> QED BY <2>3 DEF IInv
<1> QED BY <1>2, <1>3, <1>4 DEF Clone

LEMMA ReverseKeeps ==
  ASSUME Inv, Reverse
  PROVE  IInv'
<1>1. call.phase = "none"
  BY IdlePhase DEF Reverse
<1>2. CASE list.kind = "heap"
  BY <1>1, <1>2, LenType, BuildsKeeps DEF Reverse
<1>3. CASE list.kind # "heap"
  <2>1. Inv'
    BY <1>3, Unchanged DEF Reverse
  <2> QED BY <2>1 DEF IInv
<1> QED BY <1>2, <1>3

(* The calls that ask for room and hold nothing. *)
LEMMA PlainAskKeeps ==
  ASSUME Inv, call.phase = "none", NEW op, NEW a, NEW need \in Nat, NEW n \in Nat,
         n <= need, len <= need, Asks(op, a, need, n), UNCHANGED <<blocks, temp>>
  PROVE  IInv'
<1>1. Owns(list) \cap Owns(temp') = {} /\ temp' \in Lists
      /\ Sound(blocks', Owns(list) \cup Owns(temp'), NoVec)
  BY AtRest DEF Inv
<1>2. len' = len
  BY DEF len, Asks
<1>3. Inv'
  BY <1>1, <1>2, AsksKeeps
<1> QED BY <1>3 DEF IInv

LEMMA AskingKeeps ==
  ASSUME Inv, TryReserve \/ Reserve \/ PushBits \/ ResizeHeap
  PROVE  IInv'
<1>1. call.phase = "none"
  BY IdlePhase DEF TryReserve, Reserve, PushBits, ResizeHeap
<1>2. len \in Nat /\ Reserves \subseteq Nat /\ Positions \subseteq Nat
  BY LenType, BlocksAssumption
<1>3. CASE TryReserve
  <2>1. PICK n \in Reserves : Asks("try_reserve", <<n>>, len + n, len)
    BY <1>3 DEF TryReserve
  <2>2. len + n \in Nat /\ len <= len + n
    BY <1>2
  <2> QED BY <1>1, <1>2, <1>3, <2>1, <2>2, PlainAskKeeps DEF TryReserve
<1>4. CASE Reserve
  <2>1. PICK n \in Reserves : Asks("reserve", <<n>>, len + n, len)
    BY <1>4 DEF Reserve
  <2>2. len + n \in Nat /\ len <= len + n
    BY <1>2
  <2> QED BY <1>1, <1>2, <1>4, <2>1, <2>2, PlainAskKeeps DEF Reserve
<1>5. CASE PushBits
  <2>1. PICK n \in Positions : Asks("push_bits", <<Str(n, {})>>, len + n, len + n)
    BY <1>5 DEF PushBits
  <2>2. len + n \in Nat /\ len <= len + n /\ len + n <= len + n
    BY <1>2
  <2> QED BY <1>1, <1>2, <1>5, <2>1, <2>2, PlainAskKeeps DEF PushBits
<1>6. CASE ResizeHeap
  <2>1. PICK n \in Positions : n > len /\ Asks("resize", <<n, "zero">>, n, n)
    BY <1>6 DEF ResizeHeap
  <2>2. n \in Nat /\ len <= n /\ n <= n
    BY <1>2, <2>1
  <2> QED BY <1>1, <1>2, <1>6, <2>1, <2>2, PlainAskKeeps DEF ResizeHeap
<1> QED BY <1>3, <1>4, <1>5, <1>6

LEMMA RepeatKeeps ==
  ASSUME Inv, Repeat
  PROVE  IInv'
<1>1. call.phase = "none"
  BY IdlePhase DEF Repeat
<1>2. PICK k \in Repeats :
        \/ k = 0 /\ Cleared("repeat", <<k>>)
        \/ k > 0 /\ Long /\ Aborts("repeat", <<k>>)
        \/ /\ k > 0 /\ Asks("repeat", <<k>>, len * k, len * k)
           /\ IF Long THEN \E p \in Addresses \ Live : temp' = HeapList(p) /\ blocks' = CopyAt(p)
                      ELSE temp' = InlineList(len) /\ blocks' = blocks
  BY DEF Repeat
<1>3. CASE Cleared("repeat", <<k>>)
  BY <1>1, <1>3, ClearedKeeps
<1>4. CASE Aborts("repeat", <<k>>)
  BY <1>4, AbortKeeps
<1>5. ASSUME k > 0, Asks("repeat", <<k>>, len * k, len * k),
             IF Long THEN \E p \in Addresses \ Live : temp' = HeapList(p) /\ blocks' = CopyAt(p)
                     ELSE temp' = InlineList(len) /\ blocks' = blocks
      PROVE  IInv'
  <2>1. len \in Nat /\ k \in Nat
    BY LenType, BlocksAssumption
  <2>2. len * k \in Nat /\ len <= len * k /\ len * k <= len * k
    <3>1. 1 * len <= k * len
      BY <1>5, <2>1, TimesMono
    <3>2. k * len = len * k /\ 1 * len = len /\ len * k \in Nat
      BY <2>1
    <3> QED BY <2>1, <3>1, <3>2
  <2>3. list' = list
    BY <1>5 DEF Asks
  <2>4. temp' \in Lists /\ len' = len /\ Sound(blocks', Owns(list) \cup Owns(temp'), NoVec)
        /\ Owns(list) \cap Owns(temp') = {}
    <3>1. CASE Long
      <4>1. PICK p \in Addresses \ Live : temp' = HeapList(p) /\ blocks' = CopyAt(p)
        BY <1>5, <3>1
      <4>2. len' = len
        BY <1>1, <2>3, <3>1, <4>1, CopySound DEF len, Long
      <4> QED BY <1>1, <3>1, <4>1, <4>2, CopySound, ListTypes
    <3>2. CASE ~Long
      <4>1. temp' = InlineList(len) /\ blocks' = blocks
        BY <1>5, <3>2
      <4>2. temp' \in Lists /\ Owns(temp') = {}
        BY <2>1, <4>1, ListTypes
      <4>3. len' = len
        BY <2>3, <4>1 DEF len
      <4> QED BY <1>1, <4>1, <4>2, <4>3, AtRest
    <3> QED BY <3>1, <3>2
  <2>5. Inv'
    BY <1>1, <1>5, <2>2, <2>4, AsksKeeps
  <2> QED BY <2>5 DEF IInv
<1> QED BY <1>2, <1>3, <1>4, <1>5

LEMMA ShrinkToFitKeeps ==
  ASSUME Inv, ShrinkToFit
  PROVE  IInv'
<1>1. call.phase = "none"
  BY IdlePhase DEF ShrinkToFit
<1>2. CASE ~Long
  <2>1. Assign("shrink_to_fit", <<>>, InlineList(len), blocks)
    BY <1>2 DEF ShrinkToFit
  <2>2. InlineList(len) \in Lists /\ Owns(InlineList(len)) = {}
    BY LenType, ListTypes
  <2>3. Sound(blocks, Owns(list) \cup {}, NoVec)
    BY <1>1, AtRest
  <2>4. Inv'
    BY <1>1, <2>1, <2>2, <2>3, AssignKeeps
  <2> QED BY <2>4 DEF IInv
<1>3. CASE Long
  <2> DEFINE v == [ptr |-> list.ptr, len |-> words_for(len) + HEADER,
                   cap |-> blocks[list.ptr].cap + HEADER]
  <2>1. /\ vec' = v /\ blocks' = blocks /\ list' = list /\ temp' = temp
        /\ call' = [op |-> "shrink_to_fit", args |-> <<>>, need |-> 0, length |-> len,
                    phase |-> "shrink", before |-> Rep]
    BY <1>3 DEF ShrinkToFit
  <2>2. list.kind = "heap" /\ list.ptr \in Addresses /\ blocks[list.ptr] \in Headers
        /\ Owns(list) = {list.ptr}
    BY <1>3, ListBlock DEF Long
  <2>3. len \in Nat /\ words_for(len) \in Nat
    BY LenType, WordsForBounds
  <2>4. v \in Vecs /\ v.ptr = list.ptr /\ v.cap = blocks[list.ptr].cap + HEADER
        /\ HEADER <= v.cap /\ v.cap - HEADER = blocks[list.ptr].cap
    BY <2>2, <2>3 DEF Vecs, Headers, HEADER
  <2> HIDE DEF v
  <2>5. Sound(blocks, Owns(list), v)
    BY <1>1, <2>2, <2>4, AtRest, Borrow
  <2>6. Used' = Owns(list) /\ Owns(temp)' = {} /\ temp' = NoList
    BY <1>1, <2>1, <2>2, <2>4, AtRest, NoAddress DEF Used, Owns
  <2>7. Sound(blocks, Used \cup Owns(temp), vec)'
    <3>1. (Used \cup Owns(temp))' = Owns(list)
      BY <2>6
    <3> QED BY <2>1, <2>5, <3>1 DEF Sound, LiveIn, SizedIn
  <2>8. CallOK'
    BY <2>1, <2>3 DEF CallOK, Phases, Borrowing
  <2>9. len' = len
    BY <2>1 DEF len
  <2>10. PhaseOK'
    BY <2>1, <2>2, <2>4, <2>9 DEF PhaseOK, Borrowing
  <2>11. list' \in Lists /\ temp' \in Lists /\ vec' \in Vecs
    BY <2>1, <2>4 DEF Inv
  <2> QED BY <2>6, <2>7, <2>8, <2>10, <2>11 DEF Inv, IInv
<1> QED BY <1>2, <1>3

-----------------------------------------------------------------------------
(* The steps of a call keep the invariant. *)

LEMMA AtPhase ==
  ASSUME NEW phase, At(phase)
  PROVE  call.phase = phase /\ out.end # "abort"
BY DEF At

LEMMA BecomesOK ==
  ASSUME Inv, NEW phase \in Phases, Becomes(phase)
  PROVE  /\ CallOK' /\ call'.phase = phase
         /\ call'.need = call.need /\ call'.length = call.length
BY DEF Inv, CallOK, Becomes

(* Only the place in the call changes, outside a borrow. *)
LEMMA TurnKeeps ==
  ASSUME Inv, call.phase \notin Borrowing, NEW phase \in {"granted", "refused", "panics"},
         Becomes(phase), UNCHANGED <<blocks, list, temp, vec>>,
         phase = "granted" /\ list.kind = "heap" => call.length <= blocks[list.ptr].cap * WordSize
  PROVE  Inv'
<1>1. CallOK' /\ call'.phase = phase /\ call'.length = call.length
  BY BecomesOK DEF Phases
<1>2. vec = NoVec
  BY NotBorrowed
<1>3. PhaseOK'
  BY <1>1, <1>2 DEF PhaseOK, Borrowing
<1>4. Used' = Used /\ Owns(temp)' = Owns(temp)
  BY DEF Used, Owns
<1>5. Sound(blocks, Used \cup Owns(temp), vec)'
  BY <1>4 DEF Inv, Sound, LiveIn, SizedIn
<1> QED BY <1>1, <1>3, <1>4, <1>5 DEF Inv

LEMMA RoomInlineKeeps ==
  ASSUME Inv, RoomInline
  PROVE  IInv'
<1>1. call.phase = "ask" /\ call.phase \notin Borrowing /\ list.kind = "inline"
  BY AtPhase DEF RoomInline, Borrowing
<1>2. CASE \E phase \in {"granted", "refused"} : Becomes(phase) /\ UNCHANGED <<blocks, list>>
  <2>1. Inv'
    BY <1>1, <1>2, TurnKeeps DEF RoomInline
  <2> QED BY <2>1 DEF IInv
<1>3. ASSUME NEW p \in Addresses \ Live, Becomes("granted"), list' = HeapList(p),
             blocks' = [blocks EXCEPT ![p] = Block(words_for(call.need), list.len)]
      PROVE  IInv'
  <2>1. temp' = temp /\ vec' = NoVec
    BY <1>1, NotBorrowed DEF RoomInline
  <2>2. CallOK' /\ call'.phase = "granted" /\ call'.length = call.length
    BY <1>3, BecomesOK DEF Phases
  <2>3. /\ call.need \in Nat /\ call.length \in Nat /\ list.len \in Nat
        /\ call.length <= call.need /\ list.len <= call.need
    BY <1>1, LenType DEF Inv, CallOK, PhaseOK, len
  <2>4. /\ words_for(call.need) \in Nat /\ words_for(call.need) * WordSize \in Nat
        /\ call.need <= words_for(call.need) * WordSize
    BY <2>3, WordsForBounds
  <2>5. call.length <= words_for(call.need) * WordSize
        /\ list.len <= words_for(call.need) * WordSize
    BY <2>3, <2>4
  <2>6. Fits(Block(words_for(call.need), list.len))
    BY <2>3, <2>4, <2>5, BlockFits
  <2>7. Owns(list) = {} /\ Sound(blocks, Owns(temp), NoVec) /\ Live = Owns(temp)
    <3>1. Owns(list) = {}
      BY <1>1 DEF Owns
    <3>2. Owns(list) \cup Owns(temp) = Owns(temp)
      BY <3>1
    <3> QED BY <1>1, <3>1, <3>2, NotBorrowed
  <2>8. Sound(blocks', Owns(temp) \cup {p}, NoVec)
    BY <1>3, <2>6, <2>7, Put
  <2>9. list' \in Lists /\ Owns(list') = {p} /\ p \notin Owns(temp)
    BY <1>3, <2>7, ListTypes
  <2>10. Used' = {p} /\ Owns(temp)' = Owns(temp)
    BY <2>1, <2>9 DEF Used, Owns
  <2>11. Sound(blocks, Used \cup Owns(temp), vec)'
    <3>1. (Used \cup Owns(temp))' = Owns(temp) \cup {p}
      BY <2>10
    <3> QED BY <2>1, <2>8, <3>1 DEF Sound, LiveIn, SizedIn
  <2>12. blocks'[p].cap = words_for(call.need) /\ list'.ptr = p
    BY <1>3 DEF Inv, Sound, Memories, Block, HeapList
  <2>13. PhaseOK'
    BY <2>1, <2>2, <2>5, <2>12 DEF PhaseOK, Borrowing
  <2>14. temp' \in Lists /\ vec' \in Vecs
    BY <2>1, NoAddress DEF Inv
  <2> QED BY <2>2, <2>9, <2>10, <2>11, <2>13, <2>14 DEF Inv, IInv
<1> QED BY <1>2, <1>3 DEF RoomInline

LEMMA RoomHeapKeeps ==
  ASSUME Inv, RoomHeap
  PROVE  IInv'
<1>1. call.phase = "ask" /\ call.phase \notin Borrowing /\ list.kind = "heap"
  BY AtPhase DEF RoomHeap, Borrowing
<1>2. /\ call.need \in Nat /\ call.length \in Nat /\ call.length <= call.need
      /\ len \in Nat /\ len <= call.need
  BY <1>1, LenType DEF Inv, CallOK, PhaseOK
<1>3. list.ptr \in Addresses /\ blocks[list.ptr] \in Headers /\ Owns(list) = {list.ptr}
  BY <1>1, ListBlock
<1>4. CASE Becomes("refused") /\ UNCHANGED vec
  <2>1. Inv'
    BY <1>1, <1>4, TurnKeeps DEF RoomHeap
  <2> QED BY <2>1 DEF IInv
<1>5. CASE call.need <= blocks[list.ptr].cap * WordSize /\ Becomes("granted") /\ UNCHANGED vec
  <2>1. call.length <= blocks[list.ptr].cap * WordSize
    <3>1. blocks[list.ptr].cap * WordSize \in Int
      BY <1>3, WordSizeType DEF Headers
    <3> QED BY <1>2, <1>5, <3>1
  <2>2. Inv'
    BY <1>1, <1>5, <2>1, TurnKeeps DEF RoomHeap
  <2> QED BY <2>2 DEF IInv
<1>6. CASE /\ Becomes("grow")
           /\ vec' = [ptr |-> list.ptr, len |-> words_for(len) + HEADER,
                      cap |-> blocks[list.ptr].cap + HEADER]
  <2> DEFINE v == [ptr |-> list.ptr, len |-> words_for(len) + HEADER,
                   cap |-> blocks[list.ptr].cap + HEADER]
  <2>1. vec' = v /\ blocks' = blocks /\ list' = list /\ temp' = temp
    BY <1>6 DEF RoomHeap
  <2>2. CallOK' /\ call'.phase = "grow" /\ call'.need = call.need /\ call'.length = call.length
    BY <1>6, BecomesOK DEF Phases, Borrowing
  <2>3. words_for(len) \in Nat
    BY <1>2, WordsForBounds
  <2>4. v \in Vecs /\ v.ptr = list.ptr /\ v.cap = blocks[list.ptr].cap + HEADER
        /\ HEADER <= v.cap /\ v.cap - HEADER = blocks[list.ptr].cap
    BY <1>3, <2>3 DEF Vecs, Headers, HEADER
  <2> HIDE DEF v
  <2>5. Sound(blocks, Owns(list) \cup Owns(temp), v)
    BY <1>1, <1>3, <2>4, NotBorrowed, Borrow
  <2>6. Used' = Owns(list) /\ Owns(temp)' = Owns(temp)
    BY <1>3, <2>1, <2>4, NoAddress DEF Used, Owns
  <2>7. Sound(blocks, Used \cup Owns(temp), vec)'
    <3>1. (Used \cup Owns(temp))' = Owns(list) \cup Owns(temp)
      BY <2>6
    <3> QED BY <2>1, <2>5, <3>1 DEF Sound, LiveIn, SizedIn
  <2>8. len' = len
    BY <2>1 DEF len
  <2>9. PhaseOK'
    BY <1>1, <1>2, <1>3, <2>1, <2>2, <2>4, <2>8 DEF PhaseOK, Borrowing
  <2>10. list' \in Lists /\ temp' \in Lists /\ vec' \in Vecs
    BY <2>1, <2>4 DEF Inv
  <2>11. Used' \cap Owns(temp)' = {}
    BY <1>1, <2>6, NotBorrowed
  <2> QED BY <2>2, <2>7, <2>9, <2>10, <2>11 DEF Inv, IInv
<1> QED BY <1>4, <1>5, <1>6 DEF RoomHeap

(* What holds while a vector borrows the block of the list. *)
LEMMA Borrowed ==
  ASSUME Inv, call.phase \in Borrowing
  PROVE  /\ list.kind = "heap" /\ list.ptr \in Addresses
         /\ vec.ptr \in Addresses /\ vec # NoVec /\ HEADER <= vec.cap
         /\ Used = {vec.ptr} /\ vec.ptr \notin Owns(temp)
         /\ Live = Used \cup Owns(temp) /\ blocks[vec.ptr] \in Headers
         /\ vec.cap \in Nat /\ vec.cap - HEADER \in Nat
<1>1. list.kind = "heap" /\ vec.ptr \in Addresses /\ HEADER <= vec.cap
  BY DEF Inv, PhaseOK
<1>2. list.ptr \in Addresses /\ vec # NoVec
  BY <1>1, ListBlock, NoAddress
<1>3. Used = {vec.ptr} /\ vec.ptr \notin Owns(temp)
  BY <1>2 DEF Used, Inv
<1>4. Live = Used \cup Owns(temp) /\ blocks[vec.ptr] \in Headers
  BY <1>1 DEF Inv, Sound, Memories, Live, LiveIn
<1>5. vec.cap \in Nat /\ vec.cap - HEADER \in Nat
  BY <1>1 DEF Inv, Vecs, HEADER
<1> QED BY <1>1, <1>2, <1>3, <1>4, <1>5

(* The vector moves, to a block that has room for what the call goes on to. *)
LEMMA MovesKeeps ==
  ASSUME Inv, call.phase \in {"grow", "shrink"}, NEW c \in Nat,
         call.length <= c * WordSize, len <= c * WordSize,
         Moves(c + HEADER), Becomes("set"), UNCHANGED <<list, temp>>
  PROVE  IInv'
<1>1. call.phase \in Borrowing /\ vec.ptr = list.ptr
  BY DEF Borrowing, Inv, PhaseOK
<1>2. /\ list.kind = "heap" /\ Used = {vec.ptr} /\ vec.ptr \notin Owns(temp)
      /\ Live = Used \cup Owns(temp)
  BY <1>1, Borrowed
<1> DEFINE size == c + HEADER
           U == Used \cup Owns(temp)
<1>3. size \in Nat /\ HEADER <= size /\ size - HEADER = c
  BY DEF HEADER
<1>4. blocks[vec.ptr].len <= (size - HEADER) * WordSize
  BY <1>1, <1>2, <1>3, ListBlock
<1> HIDE DEF size
<1>5. PICK p \in (Addresses \ U) \cup {vec.ptr} :
        /\ blocks' = [dealloc(blocks, vec.ptr) EXCEPT ![p] = [blocks[vec.ptr] EXCEPT !.size = size]]
        /\ vec' = [vec EXCEPT !.ptr = p, !.cap = size]
  BY <1>2 DEF Moves, size
<1>6. Sound(blocks, U, vec) /\ vec \in Vecs /\ vec.ptr \in U
  BY <1>2 DEF Inv
<1>7. Sound(blocks', (U \ {vec.ptr}) \cup {p}, vec')
  BY <1>3, <1>4, <1>5, <1>6, Move
<1>8. p \in Addresses /\ vec' \in Vecs /\ vec'.ptr = p /\ vec'.cap = size /\ vec' # NoVec
  <2>1. p \in Addresses
    BY <1>1, Borrowed
  <2> QED BY <1>3, <1>5, <1>6, <2>1, NoAddress DEF Vecs
<1>9. Used' = {p} /\ Owns(temp)' = Owns(temp)
  BY <1>8 DEF Used, Owns
<1>10. (U \ {vec.ptr}) \cup {p} = {p} \cup Owns(temp) /\ p \notin Owns(temp)
  BY <1>2
<1>11. Sound(blocks, Used \cup Owns(temp), vec)'
  <2>1. (Used \cup Owns(temp))' = (U \ {vec.ptr}) \cup {p}
    BY <1>9, <1>10
  <2> QED BY <1>7, <2>1 DEF Sound, LiveIn, SizedIn
<1>12. CallOK' /\ call'.phase = "set" /\ call'.length = call.length
  BY BecomesOK DEF Phases, Borrowing
<1>13. PhaseOK'
  BY <1>2, <1>3, <1>8, <1>12 DEF PhaseOK, Borrowing
<1>14. list' \in Lists /\ temp' \in Lists
  BY DEF Inv
<1> QED BY <1>8, <1>9, <1>10, <1>11, <1>12, <1>13, <1>14 DEF Inv, IInv

LEMMA GrowKeeps ==
  ASSUME Inv, Grow
  PROVE  IInv'
<1>1. call.phase = "grow"
  BY AtPhase DEF Grow
<1>2. /\ call.need \in Nat /\ call.length \in Nat /\ call.length <= call.need
      /\ len \in Nat /\ len <= call.need
  BY <1>1, LenType DEF Inv, CallOK, PhaseOK
<1>3. CASE Becomes("drop_refused") /\ UNCHANGED <<blocks, vec>>
  <2>1. list' = list /\ temp' = temp
    BY DEF Grow
  <2>2. CallOK' /\ call'.phase = "drop_refused"
    BY <1>3, BecomesOK DEF Phases, Borrowing
  <2>3. PhaseOK'
    BY <1>1, <1>3, <2>1, <2>2 DEF Inv, PhaseOK, Borrowing
  <2>4. Used' = Used /\ Owns(temp)' = Owns(temp)
    BY <1>3, <2>1 DEF Used, Owns
  <2>5. Sound(blocks, Used \cup Owns(temp), vec)'
    BY <1>3, <2>4 DEF Inv, Sound, LiveIn, SizedIn
  <2> QED BY <1>3, <2>1, <2>2, <2>3, <2>4, <2>5 DEF Inv, IInv
<1>4. ASSUME NEW c \in words_for(call.need) .. MaxWords, Moves(c + HEADER), Becomes("set")
      PROVE  IInv'
  <2>1. c \in Nat /\ words_for(call.need) <= c
    BY <1>2, WordsForBounds, BlocksAssumption
  <2>2. call.need <= c * WordSize /\ c * WordSize \in Int
    BY <1>2, <2>1, WordsForLeast, WordSizeType
  <2>3. call.length <= c * WordSize /\ len <= c * WordSize
    BY <1>2, <2>2
  <2> QED BY <1>1, <1>4, <2>1, <2>3, MovesKeeps DEF Grow
<1> QED BY <1>3, <1>4 DEF Grow

LEMMA ShrinkKeeps ==
  ASSUME Inv, Shrink
  PROVE  IInv'
<1>1. call.phase = "shrink" /\ call.phase \in Borrowing
  BY AtPhase DEF Shrink, Borrowing
<1>2. len \in Nat /\ call.length = len
  BY <1>1, LenType DEF Inv, PhaseOK
<1>3. CASE Aborts(call.op, call.args)
  BY <1>3, AbortKeeps
<1>4. ASSUME NEW c \in words_for(len) .. (vec.cap - HEADER), Moves(c + HEADER), Becomes("set"),
             UNCHANGED <<list, temp>>
      PROVE  IInv'
  <2>1. c \in Nat /\ words_for(len) <= c
    BY <1>1, <1>2, WordsForBounds, Borrowed
  <2>2. call.length <= c * WordSize /\ len <= c * WordSize
    BY <1>2, <2>1, WordsForLeast
  <2> QED BY <1>1, <1>4, <2>1, <2>2, MovesKeeps
<1> QED BY <1>3, <1>4 DEF Shrink

LEMMA SetVecKeeps ==
  ASSUME Inv, SetVec
  PROVE  IInv'
<1>1. call.phase = "set" /\ call.phase \in Borrowing
  BY AtPhase DEF SetVec, Borrowing
<1>2. /\ vec.ptr \in Addresses /\ Used = {vec.ptr} /\ HEADER <= vec.cap
      /\ vec.ptr \notin Owns(temp) /\ blocks[vec.ptr] \in Headers /\ list.kind = "heap"
  BY <1>1, Borrowed
<1> DEFINE h == update_capacity(blocks[vec.ptr])
           U == Used \cup Owns(temp)
<1>3. blocks' = [blocks EXCEPT ![vec.ptr] = h] /\ list' = list /\ temp' = temp /\ vec' = vec
      /\ debug' = debug
  BY DEF SetVec
<1>4. Sound(blocks', U, vec) /\ h.cap = vec.cap - HEADER
  BY <1>2, <1>3, Update DEF Inv, update_capacity
<1>5. blocks'[vec.ptr] = h
  BY <1>2, <1>3 DEF Inv, Sound, Memories
<1> HIDE DEF h
<1>6. Used' = Used /\ Owns(temp)' = Owns(temp)
  BY <1>1, <1>3, Borrowed DEF Used, Owns
<1>7. Sound(blocks, Used \cup Owns(temp), vec)'
  BY <1>3, <1>4, <1>6 DEF Sound, LiveIn, SizedIn
<1>8. PICK phase \in {"drop_granted", "drop_unwinding"} :
        Becomes(phase) /\ (phase = "drop_granted" => Check(h))
  BY DEF SetVec, h
<1>9. CallOK' /\ call'.phase = phase /\ call'.length = call.length
  BY <1>8, BecomesOK DEF Phases, Borrowing
<1>10. Check(h) => Check(blocks[vec.ptr])'
  BY <1>3, <1>5 DEF Check
<1>11. PhaseOK'
  <2>1. call.length <= (vec.cap - HEADER) * WordSize
    BY <1>1 DEF Inv, PhaseOK
  <2> QED BY <1>2, <1>3, <1>4, <1>5, <1>8, <1>9, <1>10, <2>1 DEF PhaseOK, Borrowing
<1>12. list' \in Lists /\ temp' \in Lists /\ vec' \in Vecs /\ Used' \cap Owns(temp)' = {}
  BY <1>3, <1>6 DEF Inv
<1> QED BY <1>7, <1>9, <1>11, <1>12 DEF Inv, IInv

(* The list has the block back, where the vector left it. *)
LEMMA TakenBackKeeps ==
  ASSUME Inv, call.phase \in Borrowing, blocks[vec.ptr].cap = vec.cap - HEADER,
         NEW phase \in {"granted", "refused", "panics"}, Becomes(phase),
         list' = taken_back(list, vec.ptr), vec' = NoVec, UNCHANGED <<blocks, temp>>,
         phase = "granted" => call.length <= blocks[vec.ptr].cap * WordSize
  PROVE  IInv'
<1>1. /\ list.kind = "heap" /\ vec.ptr \in Addresses /\ Used = {vec.ptr}
      /\ HEADER <= vec.cap /\ vec.ptr \notin Owns(temp)
  BY Borrowed
<1>2. list' \in Lists /\ list'.kind = "heap" /\ list'.ptr = vec.ptr
  BY <1>1 DEF Inv, Lists, taken_back
<1>3. Used' = Used /\ Owns(temp)' = Owns(temp)
  BY <1>1, <1>2 DEF Used, Owns
<1>4. Sound(blocks, Used \cup Owns(temp), NoVec)
  BY <1>1, GiveBack DEF Inv
<1>5. Sound(blocks, Used \cup Owns(temp), vec)'
  <2>1. (Used \cup Owns(temp))' = Used \cup Owns(temp)
    BY <1>3
  <2> QED BY <1>4, <2>1 DEF Sound, LiveIn, SizedIn
<1>6. CallOK' /\ call'.phase = phase /\ call'.length = call.length
  BY BecomesOK DEF Phases
<1>7. PhaseOK'
  BY <1>2, <1>6 DEF PhaseOK, Borrowing
<1>8. temp' \in Lists /\ vec' \in Vecs /\ Used' \cap Owns(temp)' = {}
  BY <1>1, <1>3, NoAddress DEF Inv
<1> QED BY <1>2, <1>5, <1>6, <1>7, <1>8 DEF Inv, IInv

LEMMA DropVecKeeps ==
  ASSUME Inv, DropVec
  PROVE  IInv'
<1>1. call.phase \in {"drop_granted", "drop_refused", "drop_unwinding"}
  BY DEF DropVec, At
<1>2. call.phase \in Borrowing /\ blocks[vec.ptr].cap = vec.cap - HEADER
  BY <1>1 DEF Inv, PhaseOK, Borrowing
<1>3. CASE /\ list' = taken_back(list, vec.ptr) /\ vec' = NoVec
           /\ Becomes(CASE call.phase = "drop_granted" -> "granted"
                         [] call.phase = "drop_refused" -> "refused"
                         [] OTHER -> "panics")
           /\ UNCHANGED <<debug, blocks, temp, out, args>>
  <2>1. PICK phase \in {"granted", "refused", "panics"} :
          Becomes(phase) /\ (phase = "granted" => call.phase = "drop_granted")
    <3>1. CASE call.phase = "drop_granted"
      BY <1>3, <3>1
    <3>2. CASE call.phase = "drop_refused"
      BY <1>3, <3>2
    <3>3. CASE call.phase = "drop_unwinding"
      BY <1>3, <3>3
    <3> QED BY <1>1, <3>1, <3>2, <3>3
  <2>2. phase = "granted" => call.length <= blocks[vec.ptr].cap * WordSize
    BY <1>2, <2>1 DEF Inv, PhaseOK
  <2> QED BY <1>2, <1>3, <2>1, <2>2, TakenBackKeeps
<1>4. CASE /\ ~Check(blocks[vec.ptr]) /\ call.phase # "drop_unwinding"
           /\ vec' = NoVec /\ Becomes("panics")
           /\ UNCHANGED <<debug, blocks, list, temp, out, args>>
  <2>1. vec.ptr = list.ptr
    BY <1>1, <1>4 DEF Inv, PhaseOK
  <2>2. list' = taken_back(list, vec.ptr)
    BY <1>4, <2>1 DEF taken_back, Inv, Lists
  <2> QED BY <1>2, <1>4, <2>2, TakenBackKeeps
<1>5. CASE Aborts(call.op, call.args)
  BY <1>5, AbortKeeps
<1> QED BY <1>3, <1>4, <1>5 DEF DropVec

LEMMA GrantedKeeps ==
  ASSUME Inv, Granted
  PROVE  IInv'
<1>1. call.phase = "granted" /\ call.phase \notin Borrowing /\ call.length \in Nat
  BY AtPhase DEF Granted, Borrowing, Inv, CallOK
<1>2. Sound(blocks, Owns(list) \cup Owns(temp), NoVec)
  BY <1>1, NotBorrowed
<1>3. CASE list.kind = "inline"
  <2>1. list' = InlineList(call.length) /\ Leaves("done", "return", blocks)
    BY <1>3 DEF Granted
  <2>2. list' \in Lists /\ Owns(list') = Owns(list)
    BY <1>1, <1>3, <2>1, ListTypes DEF Owns
  <2>3. Inv'
    BY <1>1, <1>2, <2>1, <2>2, LeavesKeeps
  <2> QED BY <2>3 DEF IInv
<1>4. CASE list.kind # "inline"
  <2> DEFINE h == [blocks[list.ptr] EXCEPT !.len = call.length]
             B == [blocks EXCEPT ![list.ptr] = h]
  <2>1. list' = list /\ Leaves("done", "return", B)
    BY <1>4 DEF Granted
  <2>2. list.kind = "heap"
    BY <1>4 DEF Inv, Lists
  <2>3. Fits(blocks[list.ptr]) /\ list.ptr \in Addresses /\ Owns(list) = {list.ptr}
    BY <1>1, <2>2, ListBlock
  <2>4. call.length <= blocks[list.ptr].cap * WordSize
    BY <1>1, <2>2 DEF Inv, PhaseOK
  <2>5. Fits(h)
    <3>1. h \in Headers /\ h.size = blocks[list.ptr].size /\ h.cap = blocks[list.ptr].cap
          /\ h.len = call.length
      BY <1>1, <2>3 DEF Fits, Headers
    <3> QED BY <2>3, <2>4, <3>1 DEF Fits
  <2> HIDE DEF h
  <2>6. Sound(B, Owns(list) \cup Owns(temp) \cup {list.ptr}, NoVec)
    BY <1>2, <2>3, <2>5, Put
  <2>7. Owns(list) \cup Owns(temp) \cup {list.ptr} = Owns(list) \cup Owns(temp)
    BY <2>3
  <2> HIDE DEF B
  <2>8. list' \in Lists /\ Owns(list') = Owns(list)
    BY <2>1 DEF Inv
  <2>9. Inv'
    BY <1>1, <2>1, <2>6, <2>7, <2>8, LeavesKeeps
  <2> QED BY <2>9 DEF IInv
<1> QED BY <1>3, <1>4

LEMMA FailingKeeps ==
  ASSUME Inv, Refused \/ Panicking
  PROVE  IInv'
<1>1. call.phase \notin Borrowing
  BY DEF Refused, Panicking, At, Borrowing
<1>2. Sound(blocks, Owns(list) \cup Owns(temp), NoVec)
  BY <1>1, NotBorrowed
<1>3. list' \in Lists /\ Owns(list') = Owns(list)
  BY DEF Refused, Panicking, Inv
<1>4. PICK ret \in {"err", "none"}, end \in {"return", "panic"} : Leaves(ret, end, blocks)
  BY DEF Refused, Panicking
<1>5. Inv'
  BY <1>1, <1>2, <1>3, <1>4, LeavesKeeps
<1> QED BY <1>5 DEF IInv

-----------------------------------------------------------------------------
(* The theorem. *)

LEMMA InitInv ==
  ASSUME Init
  PROVE  IInv
<1>1. /\ blocks \in Memories /\ LiveIn(blocks) = {}
  BY NoBlockType DEF Init, Memories, LiveIn
<1>2. Used = {} /\ Owns(temp) = {} /\ list \in Lists /\ temp \in Lists /\ vec \in Vecs
  BY ListTypes, NoAddress DEF Init, Used
<1>3. Sound(blocks, Used \cup Owns(temp), vec)
  BY <1>1, <1>2 DEF Sound
<1>4. CallOK
  BY DEF Init, NoCall, CallOK, Phases
<1>5. PhaseOK
  BY DEF Init, NoCall, PhaseOK, Borrowing
<1> QED BY <1>2, <1>3, <1>4, <1>5 DEF Inv, IInv

LEMMA NextKeeps ==
  ASSUME IInv, [Next]_vars
  PROVE  IInv'
<1>1. CASE UNCHANGED vars
  <2>1. Inv => Inv'
    BY <1>1, Unchanged DEF vars
  <2> QED BY <1>1, <2>1 DEF IInv, vars
<1>2. CASE Next
  <2>1. out.end # "abort"
    BY <1>2 DEF Next, Zeros, Reverse, Clear, Clone, TryReserve, Reserve, PushBits,
         ResizeInline, ResizeHeap, Repeat, ShrinkToFit, RoomInline, RoomHeap, Grow, Shrink,
         SetVec, DropVec, Granted, Refused, Panicking, Idle, At
  <2>2. Inv
    BY <2>1 DEF IInv
  <2>3. CASE Zeros
    <3>1. call.phase = "none" /\ Positions \subseteq Nat
      BY <2>3, IdlePhase, BlocksAssumption DEF Zeros
    <3> QED BY <2>2, <2>3, <3>1, BuildsKeeps DEF Zeros
  <2>4. CASE ResizeInline
    <3>1. call.phase = "none" /\ Positions \subseteq Nat
      BY <2>4, IdlePhase, BlocksAssumption DEF ResizeInline
    <3> QED BY <2>2, <2>4, <3>1, BuildsKeeps DEF ResizeInline
  <2>5. CASE Clear
    BY <2>2, <2>5, IdlePhase, ClearedKeeps DEF Clear
  <2>6. CASE Reverse
    BY <2>2, <2>6, ReverseKeeps
  <2>7. CASE Clone
    BY <2>2, <2>7, CloneKeeps
  <2>8. CASE TryReserve \/ Reserve \/ PushBits \/ ResizeHeap
    BY <2>2, <2>8, AskingKeeps
  <2>9. CASE Repeat
    BY <2>2, <2>9, RepeatKeeps
  <2>10. CASE ShrinkToFit
    BY <2>2, <2>10, ShrinkToFitKeeps
  <2>11. CASE RoomInline
    BY <2>2, <2>11, RoomInlineKeeps
  <2>12. CASE RoomHeap
    BY <2>2, <2>12, RoomHeapKeeps
  <2>13. CASE Grow
    BY <2>2, <2>13, GrowKeeps
  <2>14. CASE Shrink
    BY <2>2, <2>14, ShrinkKeeps
  <2>15. CASE SetVec
    BY <2>2, <2>15, SetVecKeeps
  <2>16. CASE DropVec
    BY <2>2, <2>16, DropVecKeeps
  <2>17. CASE Granted
    BY <2>2, <2>17, GrantedKeeps
  <2>18. CASE Refused \/ Panicking
    BY <2>2, <2>18, FailingKeeps
  <2> QED BY <1>2, <2>3, <2>4, <2>5, <2>6, <2>7, <2>8, <2>9, <2>10, <2>11, <2>12, <2>13,
         <2>14, <2>15, <2>16, <2>17, <2>18 DEF Next
<1> QED BY <1>1, <1>2

LEMMA InvImpliesOwned ==
  ASSUME IInv
  PROVE  BlocksOwned
<1> SUFFICES ASSUME Inv
             PROVE  /\ Live = Used \cup Owns(temp) /\ Used \cap Owns(temp) = {}
                    /\ \A p \in Live : Sized(p)
  BY DEF IInv, BlocksOwned
<1>1. Live = Used \cup Owns(temp) /\ Used \cap Owns(temp) = {}
  BY DEF Inv, Sound, Live, LiveIn
<1>2. ASSUME NEW p \in Live PROVE Sized(p)
  BY <1>1 DEF Inv, Sound, SizedIn, Sized
<1> QED BY <1>1, <1>2

(* Whatever the allocator answers and whichever calls are made, in debug   *)
(* and release builds, every block alive is used by exactly one list or    *)
(* vector and has the size by which it will be freed (heap.rs:149-196).    *)
THEOREM BlocksAreOwned == Spec => []BlocksOwned
<1>1. Init => IInv
  BY InitInv
<1>2. IInv /\ [Next]_vars => IInv'
  BY NextKeeps
<1>3. IInv => BlocksOwned
  BY InvImpliesOwned
<1> QED BY <1>1, <1>2, <1>3, PTL DEF Spec

-----------------------------------------------------------------------------
(* What BitList does with lists of zeros.                                  *)

Zero(kind, n, c) == [kind |-> kind, len |-> n, ones |-> {}, cap |-> c]

Outcome(r, x, e) == [rep |-> r, ret |-> x, end |-> e]

LEMMA ZeroIs ==
  \A k, n, c : /\ Zero(k, n, c).kind = k /\ Zero(k, n, c).len = n
               /\ Zero(k, n, c).ones = {} /\ Zero(k, n, c).cap = c
               /\ \A e : [Zero(k, n, c) EXCEPT !.cap = e] = Zero(k, n, e)
               /\ \A e : [Zero(k, n, c) EXCEPT !.ones = {}] = Zero(k, n, c)
BY DEF Zero

LEMMA OutcomeIs ==
  \A r, x, e : Outcome(r, x, e).rep = r /\ Outcome(r, x, e).ret = x /\ Outcome(r, x, e).end = e
BY DEF Outcome

LEMMA SameWords ==
  ASSUME NEW d
  PROVE  /\ Abstract(d)!DATA_BITS = DATA_BITS /\ Abstract(d)!UsizeMax = UsizeMax
         /\ \A n : Abstract(d)!words_for(n) = words_for(n)
         /\ \A n, s : Abstract(d)!Str(n, s) = Str(n, s)
BY DEF Abstract!DATA_BITS, DATA_BITS, Abstract!UsizeMax, UsizeMax, Abstract!words_for, words_for,
       Abstract!word_index, word_index, Abstract!bit_in_word_index, bit_in_word_index,
       Abstract!Str, Str

LEMMA SameOutcomes ==
  ASSUME NEW d
  PROVE  /\ \A r, x : Abstract(d)!Returns(r, x) = Outcome(r, x, "return")
         /\ \A r : Abstract(d)!Panics(r) = Outcome(r, "none", "panic")
         /\ \A r : Abstract(d)!Aborts(r) = Outcome(r, "none", "abort")
BY DEF Abstract!Returns, Abstract!Panics, Abstract!Aborts, Outcome

LEMMA ZeroForms ==
  ASSUME NEW d
  PROVE  /\ \A n : Abstract(d)!Inline(n, {}) = Zero("inline", n, 0)
         /\ \A n : Abstract(d)!new_masked({}, n) = Zero("inline", n, 0)
         /\ Abstract(d)!NO_BITS = Zero("inline", 0, 0)
         /\ \A n, c : Abstract(d)!Heap(n, c, {}) = Zero("heap", n, c)
         /\ \A n : Abstract(d)!MaskLast({}, n) = {}
         /\ \A n : Abstract(d)!Mirror(Str(n, {})) = Str(n, {})
         /\ \A n, k : Abstract(d)!Replicate(Str(n, {}), k) = Str(n * k, {})
         /\ \A k, n, c : Abstract(d)!Value(Zero(k, n, c)) = Str(n, {})
<1>1. \A n : Abstract(d)!Inline(n, {}) = Zero("inline", n, 0)
  BY DEF Abstract!Inline, Zero
<1>2. \A n : Abstract(d)!new_masked({}, n) = Zero("inline", n, 0)
  BY DEF Abstract!new_masked, Abstract!Inline, Zero
<1>3. Abstract(d)!NO_BITS = Zero("inline", 0, 0)
  BY DEF Abstract!NO_BITS, Abstract!Inline, Zero
<1>4. \A n, c : Abstract(d)!Heap(n, c, {}) = Zero("heap", n, c)
  BY DEF Abstract!Heap, Zero
<1>5. \A n : Abstract(d)!MaskLast({}, n) = {}
  BY DEF Abstract!MaskLast
<1>6. \A n : Abstract(d)!Mirror(Str(n, {})) = Str(n, {})
  BY DEF Abstract!Mirror, Abstract!Str, Str
<1>7. \A n, k : Abstract(d)!Replicate(Str(n, {}), k) = Str(n * k, {})
  <2> SUFFICES ASSUME NEW n, NEW k PROVE Abstract(d)!Replicate(Str(n, {}), k) = Str(n * k, {})
    OBVIOUS
  <2>1. Str(n, {}).len = n /\ Str(n, {}).ones = {}
    BY DEF Str
  <2>2. {Str(n, {}).len * j + i : j \in 0 .. (k - 1), i \in Str(n, {}).ones} = {}
    BY <2>1
  <2> QED BY <2>1, <2>2 DEF Abstract!Replicate, Abstract!Str, Str
<1>8. \A k, n, c : Abstract(d)!Value(Zero(k, n, c)) = Str(n, {})
  BY DEF Abstract!Value, Abstract!Str, Str, Zero
<1> QED BY <1>1, <1>2, <1>3, <1>4, <1>5, <1>6, <1>7, <1>8

(* A list of zeros that gets a new block, or is inline. *)
LEMMA WithCapacity ==
  ASSUME NEW d, NEW r, NEW n \in Nat
  PROVE  /\ Outcome(r, "none", "abort") \in Abstract(d)!with_capacity(r, n, {})
         /\ words_for(n) <= MaxWords =>
              Outcome(Zero("heap", n, words_for(n)), "done", "return")
                \in Abstract(d)!with_capacity(r, n, {})
<1>1. words_for(n) \in Nat
  BY WordsForBounds
<1> DEFINE C == {Abstract(d)!words_for(n)} \cap (0 .. MaxWords)
           new(c) == Abstract(d)!Returns(Abstract(d)!Heap(n, c, {}), "done")
<1>2. Abstract(d)!with_capacity(r, n, {}) = {Abstract(d)!Aborts(r)} \cup {new(c) : c \in C}
  BY DEF Abstract!with_capacity
<1>3. \A c : new(c) = Outcome(Zero("heap", n, c), "done", "return")
  BY SameOutcomes, ZeroForms
<1>4. words_for(n) <= MaxWords => words_for(n) \in C
  <2>1. MaxWords \in Nat
    BY BlocksAssumption
  <2> QED BY <1>1, <2>1, SameWords
<1> HIDE DEF new, C
<1>5. words_for(n) <= MaxWords => new(words_for(n)) \in {new(c) : c \in C}
  BY <1>4
<1> QED BY <1>2, <1>3, <1>5, SameOutcomes

(* What a list of n zeros built anew may be. *)
Built(r, n) ==
  IF n <= DATA_BITS THEN {Outcome(Zero("inline", n, 0), "done", "return")}
  ELSE {Outcome(r, "none", "abort")} \cup
       {o \in {Outcome(Zero("heap", n, words_for(n)), "done", "return")} : words_for(n) <= MaxWords}

LEMMA BuiltZeros ==
  ASSUME NEW d, NEW r, NEW n \in Nat, NEW o \in Built(r, n)
  PROVE  /\ o \in Abstract(d)!zeros(r, n) /\ o \in Abstract(d)!from_bits(r, Str(n, {}))
<1>1. CASE n <= DATA_BITS
  BY <1>1, SameWords, SameOutcomes, ZeroForms DEF Built, Abstract!zeros, Abstract!from_bits, Str
<1>2. CASE ~(n <= DATA_BITS)
  <2>1. o \in Abstract(d)!with_capacity(r, n, {})
    BY <1>2, WithCapacity DEF Built
  <2>2. Abstract(d)!MaskLast(Str(n, {}).ones, Str(n, {}).len) = {} /\ Str(n, {}).len = n
    BY ZeroForms DEF Str
  <2> QED BY <1>2, <2>1, <2>2, SameWords DEF Abstract!zeros, Abstract!from_bits
<1> QED BY <1>1, <1>2

(* Appending zeros to zeros, where memory never written holds zeros. *)
LEMMA AppendedZeros ==
  ASSUME NEW d, NEW n, NEW m, NEW c
  PROVE  /\ Zero("inline", n + m, 0) \in Abstract(d)!Appended(Zero("inline", n, 0), Str(m, {}))
         /\ Zero("heap", n + m, c) \in Abstract(d)!Appended(Zero("heap", n, c), Str(m, {}))
<1>1. Str(m, {}).len = m /\ Str(m, {}).ones = {}
  BY DEF Str
<1>2. Abstract(d)!Up({}, n) = {} /\ {} \cup {} = {}
  BY DEF Abstract!Up
<1>3. Zero("inline", n + m, 0) \in Abstract(d)!Appended(Zero("inline", n, 0), Str(m, {}))
  <2> DEFINE r == Zero("inline", n, 0)
             b == Str(m, {})
  <2>1. r.kind = "inline" /\ r.len = n /\ r.ones = {}
    BY ZeroIs
  <2> HIDE DEF r, b
  <2>2. Abstract(d)!Appended(r, b) = {Abstract(d)!Inline(n + m, {} \cup Abstract(d)!Up({}, n))}
    BY <1>1, <2>1 DEF Abstract!Appended, b
  <2> QED BY <1>2, <2>2, ZeroForms DEF r, b
<1>4. {} \in Abstract(d)!Garbage(n, n + m)
  BY DEF Abstract!Garbage
<1>5. Abstract(d)!copy_bits({}, n, Str(m, {})) = {}
  BY <1>1, <1>2 DEF Abstract!copy_bits
<1>6. Zero("heap", n + m, c) \in Abstract(d)!Appended(Zero("heap", n, c), Str(m, {}))
  <2> DEFINE new == Abstract(d)!words_for(n) # Abstract(d)!words_for(n + m)
             cleared(g) == IF new
                 THEN ({} \cup g) \ Abstract(d)!Word(Abstract(d)!words_for(n + m) - 1)
                           ELSE {}
             r == Zero("heap", n, c)
             b == Str(m, {})
  <2>0. r.kind = "heap" /\ r.kind # "inline" /\ r.len = n /\ r.ones = {} /\ r.cap = c
    BY ZeroIs
  <2> HIDE DEF r, b
  <2>1. Abstract(d)!Appended(r, b) =
          {Abstract(d)!Heap(n + m, c, Abstract(d)!copy_bits(cleared(g), n, b)) :
             g \in Abstract(d)!Garbage(n, n + m)}
    BY <1>1, <2>0, Zenon DEF Abstract!Appended, b
  <2>2. cleared({}) = {}
    OBVIOUS
  <2> HIDE DEF cleared
  <2>3. Abstract(d)!Heap(n + m, c, Abstract(d)!copy_bits(cleared({}), n, Str(m, {}))) =
        Zero("heap", n + m, c)
    BY <1>5, <2>2, ZeroForms
  <2> QED BY <1>4, <2>1, <2>3 DEF r, b
<1> QED BY <1>3, <1>6

(* A list of zeros. *)
IsZero(r) ==
  /\ r = Zero(r.kind, r.len, r.cap)
  /\ r.kind \in {"inline", "heap"}
  /\ r.len \in Nat /\ r.cap \in Nat
  /\ r.kind = "inline" => r.cap = 0

(* The bits list r has room for. *)
room(r) == IF r.kind = "inline" THEN DATA_BITS ELSE r.cap * WordSize

(* List q is what r becomes when there is room for t bits. *)
Grants(d, r, t, q) ==
  \/ q = r /\ t <= room(r)
  \/ /\ r.kind = "inline" /\ DATA_BITS < t /\ words_for(t) <= MaxWords
     /\ q = Zero("heap", r.len, words_for(t))
  \/ /\ r.kind = "heap" /\ room(r) < t /\ ~(d /\ r.len = 0)
     /\ \E c \in words_for(t) .. MaxWords : q = Zero("heap", r.len, c)

(* The allocator may refuse. *)
Refuses(d, r, t) == room(r) < t /\ ~(r.kind = "heap" /\ d /\ r.len = 0)

(* The check of a debug build fails. *)
Breaks(d, r, t) == room(r) < t /\ r.kind = "heap" /\ d /\ r.len = 0

LEMMA EnsureZeros ==
  ASSUME NEW d \in BOOLEAN, NEW r, IsZero(r), r.kind = "heap", NEW t \in Nat
  PROVE  LET E == Abstract(d)!try_ensure_capacity(r, t)
         IN  /\ \A q : Grants(d, r, t, q) => Outcome(q, "done", "return") \in E
             /\ Refuses(d, r, t) => Outcome(r, "err", "return") \in E
             /\ Breaks(d, r, t) => /\ Outcome(r, "none", "panic") \in E
                                   /\ words_for(t) <= MaxWords => Outcome(r, "none", "abort") \in E
<1> DEFINE E == Abstract(d)!try_ensure_capacity(r, t)
           C == words_for(t) .. MaxWords
           Err == Outcome(r, "err", "return")
           Done(q) == Outcome(q, "done", "return")
           Panic == Outcome(r, "none", "panic")
           Abort == Outcome(r, "none", "abort")
<1>1. words_for(t) \in Nat /\ room(r) \in Nat /\ room(r) = r.cap * WordSize
  BY WordsForBounds, WordSizeType DEF IsZero, room
<1>2. t <= room(r) => E = {Done(r)}
  BY <1>1, SameOutcomes DEF Abstract!try_ensure_capacity
<1>3. ~(t <= room(r)) /\ ~(d /\ r.len = 0) =>
      E = {Err} \cup {Done(Zero("heap", r.len, c)) : c \in C}
  <2> SUFFICES ASSUME ~(t <= room(r)), ~(d /\ r.len = 0)
               PROVE  E = {Err} \cup {Done(Zero("heap", r.len, c)) : c \in C}
    OBVIOUS
  <2>1. \A c : [r EXCEPT !.cap = c] = Zero("heap", r.len, c)
    BY ZeroIs DEF IsZero
  <2>2. E = {Abstract(d)!Returns(r, "err")}
        \cup {Abstract(d)!Returns([r EXCEPT !.cap = c], "done") : c \in C}
    BY <1>1, SameWords, Zenon DEF Abstract!try_ensure_capacity
  <2>3. \A c : Abstract(d)!Returns([r EXCEPT !.cap = c], "done") = Done(Zero("heap", r.len, c))
    BY <2>1, SameOutcomes
  <2> QED BY <2>2, <2>3, SameOutcomes
<1>4. ~(t <= room(r)) /\ d /\ r.len = 0 => E = {Panic} \cup {Abort : c \in C}
  BY <1>1, SameWords, SameOutcomes DEF Abstract!try_ensure_capacity
<1>5. words_for(t) <= MaxWords => words_for(t) \in C
  BY <1>1, BlocksAssumption
<1> HIDE DEF E, C, Err, Done, Panic, Abort
<1>6. ASSUME NEW q, Grants(d, r, t, q) PROVE Done(q) \in E
  <2>1. CASE q = r /\ t <= room(r)
    BY <1>2, <2>1
  <2>2. ASSUME room(r) < t, ~(d /\ r.len = 0), NEW c \in C, q = Zero("heap", r.len, c)
        PROVE  Done(q) \in E
    BY <1>1, <1>3, <2>2
  <2> QED BY <1>6, <2>1, <2>2 DEF Grants, C
<1>7. Refuses(d, r, t) => Err \in E
  BY <1>1, <1>3 DEF Refuses
<1>8. Breaks(d, r, t) => Panic \in E /\ (words_for(t) <= MaxWords => Abort \in E)
  BY <1>1, <1>4, <1>5 DEF Breaks
<1> QED BY <1>6, <1>7, <1>8 DEF E, Err, Done, Panic, Abort

LEMMA TryReserveZeros ==
  ASSUME NEW d \in BOOLEAN, NEW r, IsZero(r), NEW m \in Nat, NEW t, t = r.len + m
  PROVE  LET E == Abstract(d)!try_reserve(r, m)
         IN  /\ t > UsizeMax => Outcome(r, "err", "return") \in E
             /\ t <= UsizeMax =>
                  /\ \A q : Grants(d, r, t, q) => Outcome(q, "done", "return") \in E
                  /\ Refuses(d, r, t) => Outcome(r, "err", "return") \in E
                  /\ Breaks(d, r, t) => /\ Outcome(r, "none", "panic") \in E
                                        /\ words_for(t) <= MaxWords =>
                                             Outcome(r, "none", "abort") \in E
<1> DEFINE E == Abstract(d)!try_reserve(r, m)
           Err == Outcome(r, "err", "return")
           Done(q) == Outcome(q, "done", "return")
<1>1. t \in Nat /\ r.len \in Nat /\ UsizeMax \in Int /\ DATA_BITS \in Nat /\ words_for(t) \in Nat
  <2>1. t \in Nat
    BY DEF IsZero
  <2> QED BY <2>1, UsizeType, DataBitsType, WordsForBounds DEF IsZero
<1>2. t > UsizeMax => E = {Err}
  BY <1>1, SameWords, SameOutcomes DEF Abstract!try_reserve
<1>3. CASE r.kind = "heap"
  <2>1. t <= UsizeMax => E = Abstract(d)!try_ensure_capacity(r, t)
    BY <1>1, <1>3, SameWords DEF Abstract!try_reserve
  <2> HIDE DEF E
  <2> QED BY <1>1, <1>2, <1>3, <2>1, EnsureZeros DEF E
<1>4. CASE r.kind = "inline"
  <2>1. room(r) = DATA_BITS
    BY <1>4 DEF room
  <2>2. t <= UsizeMax /\ t <= DATA_BITS => E = {Done(r)}
    BY <1>1, <1>4, SameWords, SameOutcomes DEF Abstract!try_reserve
  <2> DEFINE C == {words_for(t)} \cap (0 .. MaxWords)
             new(c) == Done(Zero("heap", r.len, c))
  <2>3. t <= UsizeMax /\ DATA_BITS < t => E = {Err} \cup {new(c) : c \in C}
    <3> SUFFICES ASSUME t <= UsizeMax, DATA_BITS < t PROVE E = {Err} \cup {new(c) : c \in C}
      OBVIOUS
    <3>1. ~(t > UsizeMax) /\ ~(t <= DATA_BITS) /\ r.kind # "heap"
      BY <1>1, <1>4
    <3>2. r.ones = {}
      BY ZeroIs DEF IsZero
    <3>3. E = {Abstract(d)!Returns(r, "err")} \cup
              {Abstract(d)!Returns(Abstract(d)!Heap(r.len, c, {}), "done") : c \in C}
      BY <3>1, <3>2, SameWords, Zenon DEF Abstract!try_reserve
    <3>4. \A c : Abstract(d)!Returns(Abstract(d)!Heap(r.len, c, {}), "done") = new(c)
      BY SameOutcomes, ZeroForms
    <3> QED BY <3>3, <3>4, SameOutcomes
  <2>4. words_for(t) <= MaxWords => words_for(t) \in C
    BY <1>1, BlocksAssumption
  <2> HIDE DEF E, C, Err, Done
  <2>5. ~Breaks(d, r, t)
    BY <1>4 DEF Breaks
  <2>6. t <= UsizeMax /\ Refuses(d, r, t) => Err \in E
    BY <1>1, <2>1, <2>3 DEF Refuses
  <2>7. ASSUME t <= UsizeMax, NEW q, Grants(d, r, t, q) PROVE Done(q) \in E
    <3>1. CASE q = r /\ t <= room(r)
      BY <2>1, <2>2, <2>7, <3>1
    <3>2. CASE DATA_BITS < t /\ words_for(t) <= MaxWords /\ q = Zero("heap", r.len, words_for(t))
      BY <2>3, <2>4, <2>7, <3>2
    <3> QED BY <1>4, <2>7, <3>1, <3>2 DEF Grants
  <2> QED BY <1>2, <2>5, <2>6, <2>7 DEF E, Err, Done
<1> QED BY <1>3, <1>4 DEF IsZero

LEMMA GrantedZero ==
  ASSUME NEW d, NEW r, IsZero(r), NEW t \in Nat, NEW q, Grants(d, r, t, q)
  PROVE  IsZero(q) /\ q.len = r.len
<1>1. words_for(t) \in Nat
  BY WordsForBounds
<1>2. CASE q = r
  BY <1>2
<1>3. ASSUME NEW c \in Nat, q = Zero("heap", r.len, c) PROVE IsZero(q) /\ q.len = r.len
  BY <1>3, ZeroIs DEF IsZero
<1> QED BY <1>1, <1>2, <1>3, BlocksAssumption DEF Grants

LEMMA UnwrappedZeros ==
  ASSUME NEW d, NEW S
  PROVE  /\ \A q : Outcome(q, "done", "return") \in S =>
              Outcome(q, "done", "return") \in Abstract(d)!Unwrapped(S)
         /\ \A r : Outcome(r, "err", "return") \in S =>
              Outcome(r, "none", "panic") \in Abstract(d)!Unwrapped(S)
         /\ \A r : Outcome(r, "none", "panic") \in S =>
              Outcome(r, "none", "panic") \in Abstract(d)!Unwrapped(S)
         /\ \A r : Outcome(r, "none", "abort") \in S =>
              Outcome(r, "none", "abort") \in Abstract(d)!Unwrapped(S)
<1> DEFINE U(o) == IF o.end = "return" /\ o.ret = "err" THEN Abstract(d)!Panics(o.rep) ELSE o
<1>1. Abstract(d)!Unwrapped(S) = {U(o) : o \in S}
  BY DEF Abstract!Unwrapped
<1>2. /\ \A q : U(Outcome(q, "done", "return")) = Outcome(q, "done", "return")
      /\ \A r : U(Outcome(r, "err", "return")) = Outcome(r, "none", "panic")
      /\ \A r : U(Outcome(r, "none", "panic")) = Outcome(r, "none", "panic")
      /\ \A r : U(Outcome(r, "none", "abort")) = Outcome(r, "none", "abort")
  BY OutcomeIs, SameOutcomes
<1> HIDE DEF U
<1>3. \A o \in S : U(o) \in Abstract(d)!Unwrapped(S)
  BY <1>1
<1> QED BY <1>2, <1>3

(* What a call that panics when it is refused does, if it wants t bits.    *)
Gets(d, r, t, S) ==
  /\ t > UsizeMax \/ Refuses(d, r, t) \/ Breaks(d, r, t) => Outcome(r, "none", "panic") \in S
  /\ t <= UsizeMax /\ Breaks(d, r, t) /\ words_for(t) <= MaxWords =>
       Outcome(r, "none", "abort") \in S

LEMMA ReserveZeros ==
  ASSUME NEW d \in BOOLEAN, NEW r, IsZero(r), NEW m \in Nat, NEW t, t = r.len + m
  PROVE  LET E == Abstract(d)!reserve(r, m)
         IN  /\ Gets(d, r, t, E)
             /\ \A q : t <= UsizeMax /\ Grants(d, r, t, q) => Outcome(q, "done", "return") \in E
<1> DEFINE S == Abstract(d)!try_reserve(r, m)
           E == Abstract(d)!reserve(r, m)
<1>1. E = Abstract(d)!Unwrapped(S)
  BY DEF Abstract!reserve
<1>2. /\ t > UsizeMax => Outcome(r, "err", "return") \in S
      /\ t <= UsizeMax =>
           /\ \A q : Grants(d, r, t, q) => Outcome(q, "done", "return") \in S
           /\ Refuses(d, r, t) => Outcome(r, "err", "return") \in S
           /\ Breaks(d, r, t) => /\ Outcome(r, "none", "panic") \in S
                                 /\ words_for(t) <= MaxWords => Outcome(r, "none", "abort") \in S
  BY TryReserveZeros
<1> HIDE DEF S, E
<1>3. t <= UsizeMax \/ t > UsizeMax
  BY UsizeType DEF IsZero
<1> QED BY <1>1, <1>2, <1>3, UnwrappedZeros DEF Gets, E

(* What goes on after a call inside another, and what does not. *)
LEMMA GoesOn ==
  ASSUME NEW d, NEW S
  PROVE  /\ \A q, x : Outcome(q, x, "return") \in S => q \in Abstract(d)!Onward(S)
         /\ \A r : Outcome(r, "none", "panic") \in S =>
              Outcome(r, "none", "panic") \in Abstract(d)!Stopped(S)
         /\ \A r : Outcome(r, "none", "abort") \in S =>
              Outcome(r, "none", "abort") \in Abstract(d)!Stopped(S)
<1>1. \A o \in S : o.end = "return" => o.rep \in Abstract(d)!Onward(S)
  BY DEF Abstract!Onward, Abstract!Stopped
<1>2. \A o \in S : o.end # "return" => o \in Abstract(d)!Stopped(S)
  BY DEF Abstract!Stopped
<1> QED BY <1>1, <1>2, OutcomeIs

LEMMA PushZeros ==
  ASSUME NEW d \in BOOLEAN, NEW r, IsZero(r), NEW m \in Nat, NEW t, t = r.len + m
  PROVE  LET E == Abstract(d)!push_bits(r, Str(m, {}))
         IN  /\ Gets(d, r, t, E)
             /\ \A q : t <= UsizeMax /\ Grants(d, r, t, q) =>
                         Outcome(Zero(q.kind, t, q.cap), "done", "return") \in E
<1> DEFINE b == Str(m, {})
           S == Abstract(d)!reserve(r, m)
           E == Abstract(d)!push_bits(r, b)
           Q == UNION {Abstract(d)!Appended(p, b) : p \in Abstract(d)!Onward(S)}
<1>0. b.len = m
  BY DEF Str
<1>1. E = Abstract(d)!Stopped(S) \cup {Abstract(d)!Returns(q, "done") : q \in Q}
  BY <1>0 DEF Abstract!push_bits
<1>2. /\ Gets(d, r, t, S)
      /\ \A q : t <= UsizeMax /\ Grants(d, r, t, q) => Outcome(q, "done", "return") \in S
  BY ReserveZeros
<1>3. t \in Nat
  BY DEF IsZero
<1> HIDE DEF S, E
<1>4. Gets(d, r, t, E)
  BY <1>1, <1>2, GoesOn DEF Gets
<1>5. ASSUME NEW q, t <= UsizeMax, Grants(d, r, t, q)
      PROVE  Outcome(Zero(q.kind, t, q.cap), "done", "return") \in E
  <2>1. q \in Abstract(d)!Onward(S)
    BY <1>2, <1>5, GoesOn
  <2>2. IsZero(q) /\ q.len = r.len
    BY <1>3, <1>5, GrantedZero
  <2>3. Zero(q.kind, t, q.cap) \in Abstract(d)!Appended(q, b)
    <3>1. CASE q.kind = "inline"
      <4>1. q = Zero("inline", r.len, 0) /\ q.cap = 0
        BY <2>2, <3>1 DEF IsZero
      <4> QED BY <3>1, <4>1, AppendedZeros
    <3>2. CASE q.kind = "heap"
      <4>1. q = Zero("heap", r.len, q.cap)
        BY <2>2, <3>2 DEF IsZero
      <4> HIDE DEF b
      <4>2. Zero("heap", r.len + m, q.cap) \in Abstract(d)!Appended(Zero("heap", r.len, q.cap), b)
        BY AppendedZeros DEF b
      <4> QED BY <3>2, <4>1, <4>2
    <3> QED BY <2>2, <3>1, <3>2 DEF IsZero
  <2>4. Zero(q.kind, t, q.cap) \in Q
    BY <2>1, <2>3
  <2> HIDE DEF Q
  <2> QED BY <1>1, <2>4, SameOutcomes
<1> QED BY <1>4, <1>5 DEF E

(* A heap list made longer. *)
LEMMA ResizeZeros ==
  ASSUME NEW d \in BOOLEAN, NEW r, IsZero(r), r.kind = "heap", NEW t \in Nat, t > r.len,
         t > UsizeMax => room(r) < t
  PROVE  LET E == Abstract(d)!resize(r, t, "zero")
         IN  /\ Gets(d, r, t, E)
             /\ \A q : Grants(d, r, t, q) => Outcome(Zero(q.kind, t, q.cap), "done", "return") \in E
<1> DEFINE T == Abstract(d)!try_ensure_capacity(r, t)
           S == Abstract(d)!Unwrapped(T)
           E == Abstract(d)!resize(r, t, "zero")
<1>1. t # 0 /\ ~(r.len >= t) /\ r.kind # "inline"
  BY DEF IsZero
<1>2. Abstract(d)!FillBit(r, "zero") = FALSE
  BY DEF Abstract!FillBit
<1>3. E = Abstract(d)!Stopped(S) \cup
            {Abstract(d)!Returns(Abstract(d)!GrowHeap(q, t, FALSE), "done") :
                q \in Abstract(d)!Onward(S)}
  BY <1>1, <1>2, Zenon DEF Abstract!resize, Abstract!ResizeHeap
<1>4. /\ \A q : Grants(d, r, t, q) => Outcome(q, "done", "return") \in T
      /\ Refuses(d, r, t) => Outcome(r, "err", "return") \in T
      /\ Breaks(d, r, t) => /\ Outcome(r, "none", "panic") \in T
                            /\ words_for(t) <= MaxWords => Outcome(r, "none", "abort") \in T
  BY EnsureZeros
<1> HIDE DEF T
<1>5. /\ \A q : Grants(d, r, t, q) => Outcome(q, "done", "return") \in S
      /\ Refuses(d, r, t) => Outcome(r, "none", "panic") \in S
      /\ Breaks(d, r, t) => /\ Outcome(r, "none", "panic") \in S
                            /\ words_for(t) <= MaxWords => Outcome(r, "none", "abort") \in S
  BY <1>4, UnwrappedZeros
<1> HIDE DEF S, E
<1>6. t > UsizeMax => Refuses(d, r, t) \/ Breaks(d, r, t)
  BY DEF Refuses, Breaks
<1>7. Gets(d, r, t, E)
  BY <1>3, <1>5, <1>6, GoesOn DEF Gets
<1>8. ASSUME NEW q, Grants(d, r, t, q)
      PROVE  Outcome(Zero(q.kind, t, q.cap), "done", "return") \in E
  <2>1. q \in Abstract(d)!Onward(S)
    BY <1>5, <1>8, GoesOn
  <2>2. IsZero(q) /\ q.kind = "heap"
    <3>1. q.kind = "heap"
      BY <1>8, ZeroIs DEF Grants
    <3> QED BY <1>8, <3>1, GrantedZero
  <2>3. Abstract(d)!GrowHeap(q, t, FALSE) = Zero(q.kind, t, q.cap)
    <3>1. q.ones = {}
      BY <2>2, ZeroIs DEF IsZero
    <3>2. Abstract(d)!GrowHeap(q, t, FALSE) =
          Abstract(d)!Heap(t, q.cap, Abstract(d)!MaskLast(q.ones, t))
      BY DEF Abstract!GrowHeap
    <3>3. Abstract(d)!MaskLast(q.ones, t) = {}
      BY <3>1, ZeroForms
    <3>4. Abstract(d)!Heap(t, q.cap, {}) = Zero("heap", t, q.cap)
      BY ZeroForms
    <3> QED BY <2>2, <3>2, <3>3, <3>4, Zenon
  <2> QED BY <1>3, <2>1, <2>3, SameOutcomes
<1> QED BY <1>7, <1>8 DEF E

LEMMA ReplicateZeros ==
  ASSUME NEW d, NEW n, NEW k
  PROVE  Abstract(d)!Replicate(Str(n, {}), k) = Str(n * k, {})
BY ZeroForms

LEMMA ValueZero ==
  ASSUME NEW d, NEW r, IsZero(r)
  PROVE  Abstract(d)!Value(r) = Str(r.len, {})
<1>1. r.ones \cap Abstract(d)!Value(r).ones = {} /\ r.ones = {}
  BY ZeroIs DEF IsZero
<1> QED BY <1>1 DEF Abstract!Value, Abstract!Str, Str

LEMMA ClearZeros ==
  ASSUME NEW d, NEW r, IsZero(r)
  PROVE  Outcome(Zero(r.kind, 0, r.cap), "done", "return") \in Abstract(d)!clear(r)
<1>1. CASE r.kind = "inline"
  <2>1. r.cap = 0
    BY <1>1 DEF IsZero
  <2> QED BY <1>1, <2>1, SameOutcomes, ZeroForms DEF Abstract!clear
<1>2. CASE r.kind = "heap"
  <2>1. r.ones = {}
    BY ZeroIs DEF IsZero
  <2>2. Abstract(d)!Heap(0, r.cap, r.ones) = Zero("heap", 0, r.cap)
    BY <2>1, ZeroForms
  <2> QED BY <1>2, <2>2, SameOutcomes DEF Abstract!clear
<1> QED BY <1>1, <1>2 DEF IsZero

LEMMA CloneZeros ==
  ASSUME NEW d, NEW r, IsZero(r)
  PROVE  LET E == Abstract(d)!clone(r)
         IN  /\ ~(r.kind = "heap" /\ r.len > DATA_BITS) =>
                  Outcome(Zero("inline", r.len, 0), "done", "return") \in E
             /\ r.kind = "heap" /\ r.len > DATA_BITS =>
                  Outcome(r, "done", "return") \in E /\ Outcome(r, "none", "abort") \in E
<1>1. CASE r.kind = "inline"
  <2>1. r = Zero("inline", r.len, 0)
    BY <1>1 DEF IsZero
  <2> QED BY <1>1, <2>1, SameOutcomes DEF Abstract!clone
<1>2. CASE r.kind = "heap"
  <2>1. r.ones = {}
    BY ZeroIs DEF IsZero
  <2>2. Abstract(d)!Inline(r.len, r.ones) = Zero("inline", r.len, 0)
    BY <2>1, ZeroForms
  <2>3. r.len \in Nat /\ DATA_BITS \in Nat
    BY DataBitsType DEF IsZero
  <2>4. CASE r.len <= DATA_BITS
    BY <1>2, <2>2, <2>3, <2>4, SameOutcomes, SameWords DEF Abstract!clone
  <2>5. CASE ~(r.len <= DATA_BITS)
    BY <1>2, <2>3, <2>5, SameOutcomes, SameWords DEF Abstract!clone
  <2> QED BY <2>4, <2>5
<1> QED BY <1>1, <1>2 DEF IsZero

LEMMA RepeatZeros ==
  ASSUME NEW d \in BOOLEAN, NEW r, IsZero(r), NEW k \in Nat, k > 0, NEW t, t = r.len * k
  PROVE  LET E == Abstract(d)!repeat(r, k)
         IN  /\ Gets(d, r, t, E)
             /\ \A q : t <= UsizeMax /\ Grants(d, r, t, q) =>
                         Outcome(Zero(q.kind, t, q.cap), "done", "return") \in E
             /\ r.kind = "heap" /\ r.len > DATA_BITS => Outcome(r, "none", "abort") \in E
<1> DEFINE m == r.len * (k - 1)
           more == Abstract(d)!Replicate(Abstract(d)!Value(r), k - 1)
           E == Abstract(d)!repeat(r, k)
           P == Abstract(d)!push_bits(r, Str(m, {}))
<1>1. r.len \in Nat /\ m \in Nat /\ t \in Nat /\ t = r.len + m
  <2>1. r.len \in Nat
    BY DEF IsZero
  <2>2. (k - 1) \in Nat
    OBVIOUS
  <2>3. ((k - 1) + 1) * r.len = (k - 1) * r.len + r.len /\ (k - 1) * r.len \in Int
    BY <2>1, <2>2, TimesNext
  <2>4. k * r.len = r.len * k /\ (k - 1) * r.len = m /\ (k - 1) + 1 = k
    BY <2>1
  <2>5. m \in Nat
    BY <2>1, <2>2
  <2> HIDE DEF m
  <2> QED BY <2>1, <2>3, <2>4, <2>5
<1>2. more = Str(m, {}) /\ more.len = m
  <2>1. Abstract(d)!Value(r) = Str(r.len, {})
    BY ValueZero
  <2>2. Abstract(d)!Replicate(Str(r.len, {}), k - 1) = Str(r.len * (k - 1), {})
    BY ReplicateZeros
  <2>3. more = Str(m, {})
    BY <2>1, <2>2, Zenon
  <2> HIDE DEF more, m
  <2> QED BY <2>3 DEF Str
<1>3. E = Abstract(d)!Stopped(Abstract(d)!clone(r)) \cup
            (IF m > UsizeMax THEN {Abstract(d)!Panics(r)} ELSE P)
  <2>1. k # 0
    OBVIOUS
  <2> HIDE DEF m
  <2>2. E = Abstract(d)!Stopped(Abstract(d)!clone(r)) \cup
              (IF more.len > UsizeMax THEN {Abstract(d)!Panics(r)}
                  ELSE Abstract(d)!push_bits(r, more))
    BY <2>1, SameWords DEF Abstract!repeat
  <2> HIDE DEF more
  <2> QED BY <1>2, <2>2
<1>4. /\ Gets(d, r, t, P)
      /\ \A q : t <= UsizeMax /\ Grants(d, r, t, q) =>
           Outcome(Zero(q.kind, t, q.cap), "done", "return") \in P
  BY <1>1, PushZeros
<1>5. UsizeMax \in Int
  BY UsizeType
<1> HIDE DEF m, more, E, P
<1>6. CASE m > UsizeMax
  <2>1. t > UsizeMax
    BY <1>1, <1>5, <1>6
  <2>0. Outcome(r, "none", "panic") \in E
    BY <1>3, <1>6, SameOutcomes
  <2>2. Outcome(r, "none", "panic") \in E /\ ~(t <= UsizeMax)
    BY <1>1, <1>5, <2>0, <2>1
  <2> HIDE DEF Gets
  <2>3. Gets(d, r, t, E)
    BY <2>2 DEF Gets
  <2>4. r.kind = "heap" /\ r.len > DATA_BITS => Outcome(r, "none", "abort") \in E
    BY <1>3, CloneZeros, GoesOn
  <2> QED BY <2>2, <2>3, <2>4 DEF E
<1>7. CASE ~(m > UsizeMax)
  <2>1. \A o \in P : o \in E
    BY <1>3, <1>7
  <2>2. r.kind = "heap" /\ r.len > DATA_BITS => Outcome(r, "none", "abort") \in E
    BY <1>3, CloneZeros, GoesOn
  <2> QED BY <1>4, <2>1, <2>2 DEF Gets, E
<1> QED BY <1>6, <1>7

LEMMA ShrinkZeros ==
  ASSUME NEW d, NEW r, IsZero(r)
  PROVE  LET E == Abstract(d)!shrink_to_fit(r)
             long == r.kind = "heap" /\ r.len > DATA_BITS
         IN  /\ ~long => Outcome(Zero("inline", r.len, 0), "done", "return") \in E
             /\ long => /\ Outcome(r, "none", "abort") \in E
                        /\ \A c \in words_for(r.len) .. r.cap :
                             Outcome(Zero("heap", r.len, c), "done", "return") \in E
<1>1. CASE r.kind = "inline"
  <2>1. r = Zero("inline", r.len, 0)
    BY <1>1 DEF IsZero
  <2> QED BY <1>1, <2>1, SameOutcomes DEF Abstract!shrink_to_fit
<1>2. CASE r.kind = "heap"
  <2>1. r.ones = {}
    BY ZeroIs DEF IsZero
  <2>2. Abstract(d)!Inline(r.len, r.ones) = Zero("inline", r.len, 0)
    BY <2>1, ZeroForms
  <2>3. r.len \in Nat /\ DATA_BITS \in Nat
    BY DataBitsType DEF IsZero
  <2>4. CASE r.len <= DATA_BITS
    BY <1>2, <2>2, <2>3, <2>4, SameOutcomes, SameWords DEF Abstract!shrink_to_fit
  <2>5. CASE ~(r.len <= DATA_BITS)
    <3>1. \A c : [r EXCEPT !.cap = c] = Zero("heap", r.len, c)
      BY <1>2, ZeroIs DEF IsZero
    <3>2. Abstract(d)!shrink_to_fit(r) =
            {Abstract(d)!Aborts(r)} \cup
            {Abstract(d)!Returns([r EXCEPT !.cap = c], "done") : c \in words_for(r.len) .. r.cap}
      BY <1>2, <2>5, SameWords, Zenon DEF Abstract!shrink_to_fit
    <3>3. \A c : Abstract(d)!Returns([r EXCEPT !.cap = c], "done") =
          Outcome(Zero("heap", r.len, c), "done", "return")
      BY <3>1, SameOutcomes
    <3>4. \A c \in words_for(r.len) .. r.cap :
            Outcome(Zero("heap", r.len, c), "done", "return") \in Abstract(d)!shrink_to_fit(r)
      BY <3>2, <3>3, Zenon
    <3>5. Outcome(r, "none", "abort") \in Abstract(d)!shrink_to_fit(r)
      BY <3>2, SameOutcomes, Zenon
    <3> QED BY <1>2, <2>3, <2>5, <3>4, <3>5
  <2> QED BY <2>4, <2>5
<1> QED BY <1>1, <1>2 DEF IsZero

LEMMA ReverseZeros ==
  ASSUME NEW d \in BOOLEAN, NEW r, IsZero(r)
  PROVE  LET E == Abstract(d)!reverse(r)
         IN  /\ r.kind = "heap" => \A o \in Built(r, r.len) : o \in E
             /\ r.kind = "inline" /\ r.len = 0 /\ d => Outcome(r, "none", "panic") \in E
             /\ r.kind = "inline" /\ ~(r.len = 0 /\ d) => Outcome(r, "done", "return") \in E
<1>0. r.ones = {}
  BY ZeroIs DEF IsZero
<1>1. ASSUME r.kind = "heap", NEW o \in Built(r, r.len) PROVE o \in Abstract(d)!reverse(r)
  <2>1. Abstract(d)!Mirror(Abstract(d)!Value(r)) = Str(r.len, {})
    <3>1. Abstract(d)!Mirror(Str(r.len, {})) = Str(r.len, {})
      BY ZeroForms
    <3> QED BY <3>1, ValueZero
  <2>2. o \in Abstract(d)!from_bits(r, Str(r.len, {}))
    BY <1>1, BuiltZeros DEF IsZero
  <2> QED BY <1>1, <2>1, <2>2 DEF Abstract!reverse
<1>2. r.kind = "inline" /\ r.len = 0 /\ d => Outcome(r, "none", "panic") \in Abstract(d)!reverse(r)
  BY SameOutcomes DEF Abstract!reverse
<1>3. ASSUME r.kind = "inline", ~(r.len = 0 /\ d)
      PROVE Outcome(r, "done", "return") \in Abstract(d)!reverse(r)
  <2>1. Abstract(d)!Str(r.len, r.ones) = Str(r.len, {})
    BY <1>0, SameWords
  <2>2. Abstract(d)!Mirror(Str(r.len, {})).ones = {}
    BY ZeroForms DEF Str
  <2>3. Abstract(d)!new_masked({}, r.len) = r
    BY <1>3, ZeroForms DEF IsZero
  <2>4. Abstract(d)!reverse(r) = {Abstract(d)!Returns(Abstract(d)!new_masked(
          Abstract(d)!Mirror(Abstract(d)!Str(r.len, r.ones)).ones, r.len), "done")}
    BY <1>3 DEF Abstract!reverse
  <2> QED BY <2>1, <2>2, <2>3, <2>4, SameOutcomes
<1> QED BY <1>1, <1>2, <1>3

(* An inline list of any other length than 0. *)
LEMMA ResizeInlineZeros ==
  ASSUME NEW d, NEW r, IsZero(r), r.kind = "inline", NEW n \in Nat \ {0}, NEW o \in Built(r, n)
  PROVE  o \in Abstract(d)!resize(r, n, "zero")
<1>0. r.ones = {} /\ n # 0 /\ DATA_BITS \in Nat
  BY ZeroIs, DataBitsType DEF IsZero
<1>1. Abstract(d)!FillBit(r, "zero") = FALSE
  BY DEF Abstract!FillBit
<1>2. Abstract(d)!resize(r, n, "zero") = Abstract(d)!ResizeInline(r, n, FALSE)
  BY <1>0, <1>1 DEF Abstract!resize
<1>3. CASE n <= DATA_BITS
  <2>1. Abstract(d)!ResizeInline(r, n, FALSE) =
          {Abstract(d)!Returns(Abstract(d)!new_masked({}, n), "done")}
    BY <1>0, <1>3, SameWords, Zenon DEF Abstract!ResizeInline
  <2>2. Abstract(d)!new_masked({}, n) = Zero("inline", n, 0)
    BY ZeroForms
  <2>3. o = Outcome(Zero("inline", n, 0), "done", "return")
    BY <1>3 DEF Built
  <2> QED BY <1>2, <2>1, <2>2, <2>3, SameOutcomes
<1>4. CASE ~(n <= DATA_BITS)
  <2> DEFINE first == IF n < WordSize THEN {} \cap Abstract(d)!last_word_mask(n) ELSE {}
             F(p) == IF p.end = "return"
                     THEN Abstract(d)!Returns([p.rep EXCEPT !.ones =
                         (@ \ Abstract(d)!Word(0)) \cup first], "done")
                     ELSE p
  <2>1. Abstract(d)!ResizeInline(r, n, FALSE) = {F(p) : p \in Abstract(d)!zeros(r, n)}
    BY <1>0, <1>4, SameWords, Zenon DEF Abstract!ResizeInline
  <2>2. first = {}
    OBVIOUS
  <2>3. o \in Abstract(d)!zeros(r, n)
    BY BuiltZeros
  <2>4. F(o) = o
    <3>1. CASE o = Outcome(r, "none", "abort")
      BY <3>1, OutcomeIs
    <3>2. CASE o = Outcome(Zero("heap", n, words_for(n)), "done", "return")
      <4>1. o.end = "return" /\ o.rep = Zero("heap", n, words_for(n)) /\ o.rep.ones = {}
        BY <3>2, OutcomeIs, ZeroIs
      <4> HIDE DEF first
      <4>2. (o.rep.ones \ Abstract(d)!Word(0)) \cup first = {}
        BY <2>2, <4>1
      <4>3. [o.rep EXCEPT !.ones = (@ \ Abstract(d)!Word(0)) \cup first] = o.rep
        BY <4>1, <4>2, ZeroIs
      <4> QED BY <3>2, <4>1, <4>3, SameOutcomes
    <3> QED BY <1>4, <3>1, <3>2 DEF Built
  <2> QED BY <1>2, <2>1, <2>3, <2>4
<1> QED BY <1>3, <1>4

-----------------------------------------------------------------------------
(* Where a call is, as its owner will see it. *)

Seen == IF call = NoCall THEN Rep ELSE call.before

(* A list within the bounds. *)
Known(r) == IsZero(r) /\ r.len <= MaxLen /\ r.cap <= MaxWords

(* What the call was asked for. *)
Wants(need, length) == call.need = need /\ call.length = length

Asked ==
  LET b == call.before
  IN  \/ /\ call.op \in {"try_reserve", "reserve"}
         /\ \E n \in Reserves : call.args = <<n>> /\ Wants(b.len + n, b.len)
      \/ /\ call.op = "push_bits"
         /\ \E n \in Positions : call.args = <<Str(n, {})>> /\ Wants(b.len + n, b.len + n)
      \/ /\ call.op = "resize" /\ b.kind = "heap"
         /\ \E n \in Positions : n > b.len /\ call.args = <<n, "zero">> /\ Wants(n, n)
      \/ /\ call.op = "repeat"
         /\ \E k \in Repeats : k > 0 /\ call.args = <<k>> /\ Wants(b.len * k, b.len * k)
      \/ /\ call.op = "shrink_to_fit" /\ b.kind = "heap" /\ b.len > DATA_BITS
         /\ call.args = <<>> /\ call.length = b.len

(* There is not room enough, and there could be. *)
Short == room(call.before) < call.need /\ call.need <= UsizeMax

(* The check of a debug build fails: the first word is read of a list that *)
(* has none.                                                               *)
Broken == debug /\ call.before.kind = "heap" /\ call.before.len = 0

(* The capacities the block of the list may get. *)
Larger(c) ==
  IF call.op = "shrink_to_fit" THEN c \in words_for(call.before.len) .. call.before.cap
  ELSE Short /\ c \in words_for(call.need) .. MaxWords

(* The list before its length is written. *)
Ready(r) ==
  LET b == call.before
  IN  \/ r = b /\ call.op # "shrink_to_fit" /\ call.need <= room(b)
      \/ /\ b.kind = "inline" /\ Short /\ words_for(call.need) <= MaxWords
         /\ r = Zero("heap", b.len, words_for(call.need))
      \/ /\ b.kind = "heap" /\ ~Broken
         /\ \E c : Larger(c) /\ r = Zero("heap", b.len, c)

Refusable ==
  (room(call.before) < call.need \/ call.need > UsizeMax) /\ (call.need > UsizeMax \/ ~Broken)

Progress ==
  LET b == call.before
  IN  /\ call.phase \in Borrowing =>
           b.kind = "heap" /\ blocks[vec.ptr].len = b.len /\ vec.len = words_for(b.len) + HEADER
      /\ call.phase \in {"ask", "grow", "shrink", "drop_refused", "refused", "panics"} => Rep = b
      /\ call.phase = "shrink" => call.op = "shrink_to_fit"
      /\ call.phase \in {"ask", "grow", "drop_refused", "refused", "panics"} =>
           call.op # "shrink_to_fit"
      /\ call.phase \in {"grow", "drop_refused", "panics"} => Short
      /\ call.phase \in {"set", "drop_granted", "drop_unwinding"} => Larger(vec.cap - HEADER)
      /\ call.phase = "drop_unwinding" => Broken
      /\ call.phase = "drop_granted" => ~Broken
      /\ call.phase = "granted" => Ready(Rep)
      /\ call.phase = "refused" => Refusable
      /\ call.phase = "panics" => Broken

Tracked ==
  /\ debug \in BOOLEAN
  /\ IF call.phase = "none" THEN call = NoCall /\ Known(Rep)
     ELSE Known(call.before) /\ Asked /\ Progress /\ call.length <= MaxLen

TrackedInv == IInv /\ (out.end # "abort" => Tracked)

(* The outcomes a call may have. *)
Possible(q, x, e) ==
  LET b == call.before
  IN  \/ \E r : Ready(r) /\ q = Zero(r.kind, call.length, r.cap) /\ x = "done" /\ e = "return"
      \/ /\ call.op # "shrink_to_fit" /\ Refusable /\ q = b
         /\ IF call.op = "try_reserve" THEN x = "err" /\ e = "return" ELSE x = "none" /\ e = "panic"
      \/ call.op # "shrink_to_fit" /\ Broken /\ Short /\ q = b /\ x = "none" /\ e = "panic"
      \/ /\ call.op # "shrink_to_fit" /\ Broken /\ Short /\ words_for(call.need) <= MaxWords
         /\ q = b /\ x = "none" /\ e = "abort"
      \/ call.op = "shrink_to_fit" /\ q = b /\ x = "none" /\ e = "abort"

-----------------------------------------------------------------------------
(* The end of a call is a step of BitList. *)

LEMMA Simulates ==
  ASSUME out.end # "abort", NEW d, NEW op, NEW a, NEW S, NEW q, NEW x, NEW e,
         Outcome(q, x, e) \in S, q.len <= MaxLen, Seen' = q, Ends(op, a, x, e)
  PROVE  Abstract(d)!Call(op, a, S)
<1> DEFINE o == Outcome(q, x, e)
<1>1. o.rep = q /\ o.ret = x /\ o.end = e
  BY OutcomeIs
<1> HIDE DEF o
<1>2. o \in S
  BY DEF o
<1>3. o.rep.len <= MaxLen /\ Seen' = o.rep
  BY <1>1
<1>4. out' = [op |-> op, ret |-> o.ret, end |-> o.end] /\ args' = a
  BY <1>1 DEF Ends
<1> QED BY <1>2, <1>3, <1>4 DEF Abstract!Call, Seen

(* The steps of BitList, from the list its owner sees. *)
LEMMA AbstractSteps ==
  ASSUME NEW d
  PROVE  /\ \A n \in Positions : Abstract(d)!Call("zeros", <<n>>, Abstract(d)!zeros(Seen, n)) =>
              Abstract(d)!Next
         /\ Abstract(d)!Call("reverse", <<>>, Abstract(d)!reverse(Seen)) => Abstract(d)!Next
         /\ Abstract(d)!Call("clear", <<>>, Abstract(d)!clear(Seen)) => Abstract(d)!Next
         /\ Abstract(d)!Call("clone", <<>>, Abstract(d)!clone(Seen)) => Abstract(d)!Next
         /\ \A n \in Reserves :
              Abstract(d)!Call("try_reserve", <<n>>, Abstract(d)!try_reserve(Seen, n)) => Abstract(d)!Next
         /\ \A n \in Reserves :
              Abstract(d)!Call("reserve", <<n>>, Abstract(d)!reserve(Seen, n)) => Abstract(d)!Next
         /\ \A n \in Positions :
              Abstract(d)!Call("push_bits", <<Str(n, {})>>, Abstract(d)!push_bits(Seen, Str(n, {}))) => Abstract(d)!Next
         /\ \A n \in Positions :
              Abstract(d)!Call("resize", <<n, "zero">>, Abstract(d)!resize(Seen, n, "zero")) => Abstract(d)!Next
         /\ \A k \in Repeats : Abstract(d)!Call("repeat", <<k>>, Abstract(d)!repeat(Seen, k)) =>
              Abstract(d)!Next
         /\ Abstract(d)!Call("shrink_to_fit", <<>>, Abstract(d)!shrink_to_fit(Seen)) =>
              Abstract(d)!Next
<1>1. \A n \in Positions : Abstract(d)!Call("zeros", <<n>>, Abstract(d)!zeros(Seen, n)) =>
      Abstract(d)!Next
  BY DEF Abstract!Next, Abstract!Zeros, Seen
<1>2. Abstract(d)!Call("reverse", <<>>, Abstract(d)!reverse(Seen)) => Abstract(d)!Next
  BY DEF Abstract!Next, Abstract!Reverse, Seen
<1>3. Abstract(d)!Call("clear", <<>>, Abstract(d)!clear(Seen)) => Abstract(d)!Next
  BY DEF Abstract!Next, Abstract!Clear, Seen
<1>4. Abstract(d)!Call("clone", <<>>, Abstract(d)!clone(Seen)) => Abstract(d)!Next
  BY DEF Abstract!Next, Abstract!Clone, Seen
<1>5. \A n \in Reserves :
      Abstract(d)!Call("try_reserve", <<n>>, Abstract(d)!try_reserve(Seen, n)) => Abstract(d)!Next
  BY DEF Abstract!Next, Abstract!TryReserve, Seen
<1>6. \A n \in Reserves : Abstract(d)!Call("reserve", <<n>>, Abstract(d)!reserve(Seen, n)) =>
      Abstract(d)!Next
  BY DEF Abstract!Next, Abstract!Reserve, Seen
<1>7. \A n \in Positions :
      Abstract(d)!Call("push_bits", <<Str(n, {})>>, Abstract(d)!push_bits(Seen, Str(n, {}))) => Abstract(d)!Next
  BY DEF Abstract!Next, Abstract!PushBits, Seen
<1>8. \A n \in Positions :
      Abstract(d)!Call("resize", <<n, "zero">>, Abstract(d)!resize(Seen, n, "zero")) => Abstract(d)!Next
  BY DEF Abstract!Next, Abstract!Resize, Seen
<1>9. \A k \in Repeats : Abstract(d)!Call("repeat", <<k>>, Abstract(d)!repeat(Seen, k)) =>
      Abstract(d)!Next
  BY DEF Abstract!Next, Abstract!Repeat, Seen
<1>10. Abstract(d)!Call("shrink_to_fit", <<>>, Abstract(d)!shrink_to_fit(Seen)) => Abstract(d)!Next
  BY DEF Abstract!Next, Abstract!ShrinkToFit, Seen
<1> QED BY <1>1, <1>2, <1>3, <1>4, <1>5, <1>6, <1>7, <1>8, <1>9, <1>10

(* No room is counted beyond a word. *)
LEMMA RoomIsCounted ==
  ASSUME NEW r, Known(r)
  PROVE  room(r) \in Nat /\ room(r) <= UsizeMax /\ UsizeMax \in Int
<1>1. UsizeMax \in Int /\ DATA_BITS \in Nat /\ WordSize \in Nat
  BY UsizeType, DataBitsType, WordSizeType
<1>2. DATA_BITS <= UsizeMax /\ MaxWords * WordSize <= UsizeMax /\ MaxWords \in Nat
  BY BlocksAssumption
<1>3. r.cap \in Nat /\ r.cap <= MaxWords
  BY DEF Known, IsZero
<1>4. r.cap * WordSize \in Nat /\ r.cap * WordSize <= MaxWords * WordSize
      /\ MaxWords * WordSize \in Nat
  BY <1>1, <1>2, <1>3, TimesMono
<1>5. r.cap * WordSize <= UsizeMax
  BY <1>1, <1>2, <1>4
<1> QED BY <1>1, <1>2, <1>4, <1>5 DEF room

(* What the phases say of the room, in the words of the lemmas above. *)
LEMMA AskedRoom ==
  ASSUME debug \in BOOLEAN, Known(call.before), call.need \in Nat, call.op # "shrink_to_fit"
  PROVE  LET b == call.before
         IN  /\ \A r : Ready(r) => call.need <= UsizeMax /\ Grants(debug, b, call.need, r)
             /\ Refusable => call.need > UsizeMax \/ Refuses(debug, b, call.need)
             /\ Broken /\ Short => call.need <= UsizeMax /\ Breaks(debug, b, call.need)
<1> DEFINE b == call.before
<1>1. room(b) \in Nat /\ room(b) <= UsizeMax /\ UsizeMax \in Int
  BY RoomIsCounted
<1>2. b.kind \in {"inline", "heap"} /\ b.len \in Nat
  BY DEF Known, IsZero
<1>3. ASSUME NEW r, Ready(r) PROVE call.need <= UsizeMax /\ Grants(debug, b, call.need, r)
  <2>1. CASE r = b /\ call.need <= room(b)
    BY <1>1, <2>1 DEF Grants
  <2>2. CASE /\ b.kind = "inline" /\ Short /\ words_for(call.need) <= MaxWords
             /\ r = Zero("heap", b.len, words_for(call.need))
    BY <2>2 DEF Grants, Short, room
  <2>3. ASSUME b.kind = "heap", ~Broken, NEW c, Larger(c), r = Zero("heap", b.len, c)
        PROVE  call.need <= UsizeMax /\ Grants(debug, b, call.need, r)
    BY <2>3 DEF Grants, Short, Larger, Broken
  <2> QED BY <1>3, <2>1, <2>2, <2>3 DEF Ready
<1>4. Refusable => call.need > UsizeMax \/ Refuses(debug, b, call.need)
  BY <1>1 DEF Refusable, Refuses, Broken
<1>5. Broken /\ Short => call.need <= UsizeMax /\ Breaks(debug, b, call.need)
  BY DEF Broken, Short, Breaks
<1> QED BY <1>3, <1>4, <1>5

(* The outcomes of a call that panics when it is refused. *)
LEMMA GottenOutcomes ==
  ASSUME debug \in BOOLEAN, Known(call.before), call.need \in Nat, call.op # "shrink_to_fit",
         call.op # "try_reserve", NEW S, Gets(debug, call.before, call.need, S),
         \A r : call.need <= UsizeMax /\ Grants(debug, call.before, call.need, r) =>
                  Outcome(Zero(r.kind, call.length, r.cap), "done", "return") \in S,
         NEW q, NEW x, NEW e, Possible(q, x, e)
  PROVE  Outcome(q, x, e) \in S
<1> DEFINE b == call.before
<1>1. CASE \E r : Ready(r) /\ q = Zero(r.kind, call.length, r.cap) /\ x = "done" /\ e = "return"
  BY <1>1, AskedRoom
<1>2. CASE Refusable /\ q = b /\ x = "none" /\ e = "panic"
  BY <1>2, AskedRoom DEF Gets
<1>3. CASE Broken /\ Short /\ q = b /\ x = "none" /\ e = "panic"
  BY <1>3, AskedRoom DEF Gets
<1>4. CASE /\ Broken /\ Short /\ words_for(call.need) <= MaxWords
           /\ q = b /\ x = "none" /\ e = "abort"
  BY <1>4, AskedRoom DEF Gets
<1> QED BY <1>1, <1>2, <1>3, <1>4 DEF Possible

(* A heap list or an inline one, as it was with another length. *)
LEMMA SameZero ==
  ASSUME NEW d, NEW r, IsZero(r), NEW t \in Nat, NEW q, Grants(d, r, t, q)
  PROVE  Zero(q.kind, r.len, q.cap) = q
<1>1. IsZero(q) /\ q.len = r.len
  BY GrantedZero
<1> QED BY <1>1 DEF IsZero

(* A call that ends in a way that is possible is a step of BitList. *)
LEMMA PossibleIsStep ==
  ASSUME NEW d \in BOOLEAN, d = debug, out.end # "abort", call # NoCall, Known(call.before), Asked,
         call.need \in Nat, NEW q, NEW x, NEW e, Possible(q, x, e), q.len <= MaxLen,
         Seen' = q, Ends(call.op, call.args, x, e)
  PROVE  Abstract(d)!Next
<1> DEFINE b == call.before
           t == call.need
<1>1. Seen = b /\ IsZero(b) /\ b.len \in Nat
  BY DEF Seen, Known, IsZero
<1>2. \A a, S : Outcome(q, x, e) \in S /\ call.args = a => Abstract(d)!Call(call.op, a, S)
  BY Simulates
<1>3. /\ Positions \subseteq Nat /\ Reserves \subseteq Nat /\ Repeats \subseteq Nat
  BY BlocksAssumption
<1>4. ASSUME call.op = "try_reserve", NEW n \in Reserves, call.args = <<n>>, Wants(b.len + n, b.len)
      PROVE  Abstract(d)!Next
  <2> DEFINE S == Abstract(d)!try_reserve(b, n)
  <2>1. n \in Nat /\ t = b.len + n /\ call.length = b.len
    BY <1>3, <1>4 DEF Wants
  <2>2. /\ t > UsizeMax => Outcome(b, "err", "return") \in S
        /\ \A r : t <= UsizeMax /\ Grants(debug, b, t, r) => Outcome(r, "done", "return") \in S
        /\ t <= UsizeMax /\ Refuses(debug, b, t) => Outcome(b, "err", "return") \in S
        /\ t <= UsizeMax /\ Breaks(debug, b, t) => Outcome(b, "none", "panic") \in S
        /\ t <= UsizeMax /\ Breaks(debug, b, t) /\ words_for(t) <= MaxWords =>
             Outcome(b, "none", "abort") \in S
    BY <1>1, <2>1, TryReserveZeros
  <2>3. t > UsizeMax \/ t <= UsizeMax
    BY <2>1, <1>1, UsizeType
  <2> HIDE DEF S, t
  <2>4. ASSUME NEW r, Ready(r), q = Zero(r.kind, call.length, r.cap), x = "done", e = "return"
        PROVE  Outcome(q, x, e) \in S
    <3>1. t <= UsizeMax /\ Grants(debug, b, t, r)
      BY <1>4, <2>4, AskedRoom DEF t
    <3>2. q = r
      BY <1>1, <2>1, <2>4, <3>1, SameZero
    <3> QED BY <2>2, <2>4, <3>1, <3>2
  <2>5. ASSUME Refusable, q = b, x = "err", e = "return" PROVE Outcome(q, x, e) \in S
    <3>1. t > UsizeMax \/ Refuses(debug, b, t)
      BY <1>4, <2>5, AskedRoom DEF t
    <3>2. Outcome(b, "err", "return") \in S
      BY <2>2, <2>3, <3>1
    <3> QED BY <2>5, <3>2
  <2>6. ASSUME Broken, Short PROVE t <= UsizeMax /\ Breaks(debug, b, t)
    BY <1>4, <2>6, AskedRoom DEF t
  <2>7. Outcome(q, x, e) \in S
    <3>1. CASE Broken /\ Short /\ q = b /\ x = "none" /\ e = "panic"
      BY <2>2, <2>6, <3>1
    <3>2. CASE /\ Broken /\ Short /\ words_for(call.need) <= MaxWords
               /\ q = b /\ x = "none" /\ e = "abort"
      BY <2>2, <2>6, <3>2 DEF t
    <3>3. \/ \E r : Ready(r) /\ q = Zero(r.kind, call.length, r.cap) /\ x = "done" /\ e = "return"
          \/ Refusable /\ q = b /\ x = "err" /\ e = "return"
          \/ Broken /\ Short /\ q = b /\ x = "none" /\ e = "panic"
          \/ /\ Broken /\ Short /\ words_for(call.need) <= MaxWords
             /\ q = b /\ x = "none" /\ e = "abort"
      BY <1>4 DEF Possible
    <3> QED BY <2>4, <2>5, <3>1, <3>2, <3>3
  <2>8. Abstract(d)!Call("try_reserve", <<n>>, Abstract(d)!try_reserve(Seen, n))
    BY <1>1, <1>2, <1>4, <2>7 DEF S
  <2> QED BY <2>8, AbstractSteps
<1>5. ASSUME call.op = "reserve", NEW n \in Reserves, call.args = <<n>>, Wants(b.len + n, b.len)
      PROVE  Abstract(d)!Next
  <2> DEFINE S == Abstract(d)!reserve(b, n)
  <2>1. n \in Nat /\ t = b.len + n /\ call.length = b.len
    BY <1>3, <1>5 DEF Wants
  <2>2. /\ Gets(debug, b, t, S)
        /\ \A r : t <= UsizeMax /\ Grants(debug, b, t, r) => Outcome(r, "done", "return") \in S
    BY <1>1, <2>1, ReserveZeros
  <2> HIDE DEF S
  <2>3. \A r : t <= UsizeMax /\ Grants(debug, b, t, r) =>
                 Outcome(Zero(r.kind, call.length, r.cap), "done", "return") \in S
    BY <1>1, <2>1, <2>2, SameZero
  <2>4. Outcome(q, x, e) \in S
    BY <1>5, <2>2, <2>3, GottenOutcomes
  <2>5. Abstract(d)!Call("reserve", <<n>>, Abstract(d)!reserve(Seen, n))
    BY <1>1, <1>2, <1>5, <2>4 DEF S
  <2> QED BY <2>5, AbstractSteps
<1>6. ASSUME call.op = "push_bits", NEW n \in Positions, call.args = <<Str(n, {})>>,
             Wants(b.len + n, b.len + n)
      PROVE  Abstract(d)!Next
  <2> DEFINE S == Abstract(d)!push_bits(b, Str(n, {}))
  <2>1. n \in Nat /\ t = b.len + n /\ call.length = t
    BY <1>3, <1>6 DEF Wants
  <2>2. /\ Gets(debug, b, t, S)
        /\ \A r : t <= UsizeMax /\ Grants(debug, b, t, r) =>
                    Outcome(Zero(r.kind, t, r.cap), "done", "return") \in S
    BY <1>1, <2>1, PushZeros
  <2> HIDE DEF S
  <2>3. Outcome(q, x, e) \in S
    BY <1>6, <2>1, <2>2, GottenOutcomes
  <2>4. Abstract(d)!Call("push_bits", <<Str(n, {})>>, Abstract(d)!push_bits(Seen, Str(n, {})))
    BY <1>1, <1>2, <1>6, <2>3 DEF S
  <2> QED BY <2>4, AbstractSteps
<1>7. ASSUME call.op = "resize", b.kind = "heap", NEW n \in Positions, n > b.len,
             call.args = <<n, "zero">>, Wants(n, n)
      PROVE  Abstract(d)!Next
  <2> DEFINE S == Abstract(d)!resize(b, t, "zero")
  <2>1. n \in Nat /\ t = n /\ call.length = t
    BY <1>3, <1>7 DEF Wants
  <2>2. t > UsizeMax => room(b) < t
    BY <2>1, RoomIsCounted
  <2>3. /\ Gets(debug, b, t, S)
        /\ \A r : Grants(debug, b, t, r) => Outcome(Zero(r.kind, t, r.cap), "done", "return") \in S
    BY <1>1, <1>7, <2>1, <2>2, ResizeZeros
  <2> HIDE DEF S
  <2>4. Outcome(q, x, e) \in S
    BY <1>7, <2>1, <2>3, GottenOutcomes
  <2>5. Abstract(d)!Call("resize", <<n, "zero">>, Abstract(d)!resize(Seen, n, "zero"))
    BY <1>1, <1>2, <1>7, <2>1, <2>4 DEF S
  <2> QED BY <2>5, AbstractSteps
<1>8. ASSUME call.op = "repeat", NEW k \in Repeats, k > 0, call.args = <<k>>,
             Wants(b.len * k, b.len * k)
      PROVE  Abstract(d)!Next
  <2> DEFINE S == Abstract(d)!repeat(b, k)
  <2>1. k \in Nat /\ t = b.len * k /\ call.length = t
    BY <1>3, <1>8 DEF Wants
  <2>2. /\ Gets(debug, b, t, S)
        /\ \A r : t <= UsizeMax /\ Grants(debug, b, t, r) =>
                    Outcome(Zero(r.kind, t, r.cap), "done", "return") \in S
    BY <1>1, <1>8, <2>1, RepeatZeros
  <2> HIDE DEF S
  <2>3. Outcome(q, x, e) \in S
    BY <1>8, <2>1, <2>2, GottenOutcomes
  <2>4. Abstract(d)!Call("repeat", <<k>>, Abstract(d)!repeat(Seen, k))
    BY <1>1, <1>2, <1>8, <2>3 DEF S
  <2> QED BY <2>4, AbstractSteps
<1>9. ASSUME call.op = "shrink_to_fit", b.kind = "heap", b.len > DATA_BITS, call.args = <<>>,
             call.length = b.len
      PROVE  Abstract(d)!Next
  <2> DEFINE S == Abstract(d)!shrink_to_fit(b)
  <2>1. /\ Outcome(b, "none", "abort") \in S
        /\ \A c \in words_for(b.len) .. b.cap :
             Outcome(Zero("heap", b.len, c), "done", "return") \in S
    BY <1>1, <1>9, ShrinkZeros
  <2> HIDE DEF S
  <2>2. ASSUME NEW r, Ready(r), q = Zero(r.kind, call.length, r.cap), x = "done", e = "return"
        PROVE  Outcome(q, x, e) \in S
    <3>1. PICK c \in words_for(b.len) .. b.cap : r = Zero("heap", b.len, c)
      BY <1>9, <2>2 DEF Ready, Larger
    <3>2. q = Zero("heap", b.len, c)
      BY <1>9, <2>2, <3>1, ZeroIs
    <3> QED BY <2>1, <2>2, <3>2
  <2>3. Outcome(q, x, e) \in S
    BY <1>9, <2>1, <2>2 DEF Possible
  <2>4. Abstract(d)!Call("shrink_to_fit", <<>>, Abstract(d)!shrink_to_fit(Seen))
    BY <1>1, <1>2, <1>9, <2>3 DEF S
  <2> QED BY <2>4, AbstractSteps
<1> QED BY <1>4, <1>5, <1>6, <1>7, <1>8, <1>9 DEF Asked

-----------------------------------------------------------------------------
(* The calls that are one step here too. *)

(* A step is one of BitList, the last one of a call. *)
Answers ==
  /\ call' = NoCall \/ out'.end = "abort"
  /\ IF debug THEN Abstract(TRUE)!Next ELSE Abstract(FALSE)!Next

(* A step is none of BitList. *)
Quiet == Seen' = Seen /\ UNCHANGED <<out, args>>

LEMMA IsAnswer ==
  ASSUME debug \in BOOLEAN, call' = NoCall \/ out'.end = "abort",
         debug = TRUE => Abstract(TRUE)!Next, debug = FALSE => Abstract(FALSE)!Next
  PROVE  Answers
<1>1. CASE debug = TRUE
  BY <1>1 DEF Answers
<1>2. CASE debug = FALSE
  BY <1>2 DEF Answers
<1> QED BY <1>1, <1>2

(* The representation of list x in memory B. *)
RepOf(B, x) ==
  IF x.kind = "inline" THEN Zero("inline", x.len, 0)
                       ELSE Zero(x.kind, B[x.ptr].len, B[x.ptr].cap)

LEMMA RepForm == Rep = RepOf(blocks, list) /\ Rep' = RepOf(blocks', list')
BY DEF Rep, RepOf, len, Zero

LEMMA RepForms ==
  /\ \A B, n : RepOf(B, InlineList(n)) = Zero("inline", n, 0)
  /\ \A B, p : RepOf(B, HeapList(p)) = Zero("heap", B[p].len, B[p].cap)
BY DEF RepOf, InlineList, HeapList

LEMMA KnownZero ==
  /\ \A n \in Nat : n <= MaxLen => Known(Zero("inline", n, 0))
  /\ \A n, c \in Nat : n <= MaxLen /\ c <= MaxWords => Known(Zero("heap", n, c))
<1>1. ASSUME NEW n \in Nat, n <= MaxLen PROVE Known(Zero("inline", n, 0))
  BY <1>1, ZeroIs, BlocksAssumption DEF Known, IsZero
<1>2. ASSUME NEW n \in Nat, NEW c \in Nat, n <= MaxLen, c <= MaxWords
      PROVE Known(Zero("heap", n, c))
  BY <1>2, ZeroIs DEF Known, IsZero
<1> QED BY <1>1, <1>2

(* Between calls the owner sees the list. *)
LEMMA AtRestSeen ==
  ASSUME Tracked, call.phase = "none"
  PROVE  call = NoCall /\ Known(Rep) /\ Seen = Rep /\ IsZero(Rep)
         /\ Rep.kind = list.kind /\ Rep.len = len /\ len \in Nat
BY DEF Tracked, Seen, Known, IsZero, Rep

LEMMA EndsAtOnce ==
  ASSUME Tracked, call.phase = "none", out.end # "abort", UNCHANGED <<debug, call>>,
         NEW op, NEW a, NEW q, NEW x, NEW e, Known(q), Rep' = q, Ends(op, a, x, e)
  PROVE  /\ Tracked' /\ call' = NoCall
         /\ \A d, S : Outcome(q, x, e) \in S => Abstract(d)!Call(op, a, S)
<1>1. call' = NoCall /\ Seen' = q
  BY AtRestSeen DEF Seen
<1>2. Tracked'
  BY <1>1 DEF Tracked, NoCall
<1>3. q.len <= MaxLen
  BY DEF Known
<1>4. ASSUME NEW d, NEW S, Outcome(q, x, e) \in S PROVE Abstract(d)!Call(op, a, S)
  BY <1>1, <1>3, <1>4, Simulates
<1> QED BY <1>1, <1>2, <1>4

LEMMA AssignSees ==
  ASSUME Inv, call.phase = "none", NEW op, NEW a, NEW x, NEW B, Assign(op, a, x, B)
  PROVE  /\ UNCHANGED <<debug, call>> /\ Ends(op, a, "done", "return")
         /\ \A n : x = InlineList(n) => Rep' = Zero("inline", n, 0)
         /\ \A p \in Addresses \ Live : \A h :
              x = HeapList(p) /\ B = [blocks EXCEPT ![p] = h] => Rep' = Zero("heap", h.len, h.cap)
<1>1. UNCHANGED <<debug, call>> /\ Ends(op, a, "done", "return") /\ list' = x
      /\ blocks' = Dropped(B, list)
  BY DEF Assign
<1>2. ASSUME NEW n, x = InlineList(n) PROVE Rep' = Zero("inline", n, 0)
  BY <1>1, <1>2, RepForm, RepForms
<1>3. ASSUME NEW p \in Addresses \ Live, NEW h, x = HeapList(p), B = [blocks EXCEPT ![p] = h]
      PROVE  Rep' = Zero("heap", h.len, h.cap)
  <2>1. list.kind = "heap" => list.ptr \in Live
    BY AtRest DEF Owns
  <2>2. B \in [Addresses -> Headers \cup {h}] /\ B[p] = h
    BY <1>3 DEF Inv, Sound, Memories
  <2>3. Dropped(B, list)[p] = h
    BY <1>3, <2>1, <2>2 DEF Dropped, dealloc
  <2> QED BY <1>1, <1>3, <2>3, RepForm, RepForms
<1> QED BY <1>1, <1>2, <1>3

LEMMA AbortSees ==
  ASSUME NEW op, NEW a, Aborts(op, a)
  PROVE  UNCHANGED <<debug, call>> /\ Ends(op, a, "none", "abort") /\ Rep' = Rep /\ Seen' = Seen
         /\ out'.end = "abort"
BY DEF Aborts, Ends, Rep, Seen, len

(* A list is built anew. *)
LEMMA BuildsEnds ==
  ASSUME Inv, Tracked, call.phase = "none", out.end # "abort", NEW op, NEW a, NEW n \in Nat,
         Builds(op, a, n)
  PROVE  /\ Tracked' /\ call' = NoCall
         /\ \E o \in Built(Rep, n) : \A d, S : o \in S => Abstract(d)!Call(op, a, S)
<1>1. n <= MaxLen /\ Known(Rep)
  BY AtRestSeen DEF Builds
<1>2. ASSUME NEW q, NEW x, NEW e, Known(q), Rep' = q, Ends(op, a, x, e), UNCHANGED <<debug, call>>,
             Outcome(q, x, e) \in Built(Rep, n)
      PROVE  /\ Tracked' /\ call' = NoCall
             /\ \E o \in Built(Rep, n) : \A d, S : o \in S => Abstract(d)!Call(op, a, S)
  <2>1. /\ Tracked' /\ call' = NoCall
        /\ \A d, S : Outcome(q, x, e) \in S => Abstract(d)!Call(op, a, S)
    BY <1>2, EndsAtOnce
  <2> QED BY <1>2, <2>1
<1>3. CASE n <= DATA_BITS
  <2>1. Assign(op, a, InlineList(n), blocks)
    BY <1>3 DEF Builds
  <2>2. Rep' = Zero("inline", n, 0) /\ UNCHANGED <<debug, call>> /\ Ends(op, a, "done", "return")
    BY <2>1, AssignSees
  <2>3. Outcome(Zero("inline", n, 0), "done", "return") \in Built(Rep, n)
    BY <1>3 DEF Built
  <2> QED BY <1>1, <1>2, <2>2, <2>3, KnownZero
<1>4. CASE ~(n <= DATA_BITS) /\ Aborts(op, a)
  <2>1. Outcome(Rep, "none", "abort") \in Built(Rep, n)
    BY <1>4 DEF Built
  <2>2. Rep' = Rep /\ UNCHANGED <<debug, call>> /\ Ends(op, a, "none", "abort")
    BY <1>4, AbortSees
  <2> QED BY <1>1, <1>2, <2>1, <2>2
<1>5. ASSUME ~(n <= DATA_BITS), words_for(n) <= MaxWords, NEW p \in Addresses \ Live,
             Assign(op, a, HeapList(p), [blocks EXCEPT ![p] = Block(words_for(n), n)])
      PROVE  /\ Tracked' /\ call' = NoCall
             /\ \E o \in Built(Rep, n) : \A d, S : o \in S => Abstract(d)!Call(op, a, S)
  <2> DEFINE h == Block(words_for(n), n)
  <2>1. h.len = n /\ h.cap = words_for(n) /\ words_for(n) \in Nat
    BY WordsForBounds DEF Block
  <2> HIDE DEF h
  <2>2. Assign(op, a, HeapList(p), [blocks EXCEPT ![p] = h])
    BY <1>5 DEF h
  <2>3. Rep' = Zero("heap", h.len, h.cap) /\ UNCHANGED <<debug, call>>
        /\ Ends(op, a, "done", "return")
    BY <2>2, AssignSees
  <2>4. Outcome(Zero("heap", n, words_for(n)), "done", "return") \in Built(Rep, n)
    BY <1>5 DEF Built
  <2>5. Known(Zero("heap", n, words_for(n)))
    BY <1>1, <1>5, <2>1, KnownZero
  <2> QED BY <1>2, <2>1, <2>3, <2>4, <2>5
<1> QED BY <1>3, <1>4, <1>5 DEF Builds

LEMMA ZerosAnswers ==
  ASSUME Inv, Tracked, Zeros
  PROVE  Tracked' /\ Answers
<1>1. PICK n \in Positions : Builds("zeros", <<n>>, n)
  BY DEF Zeros
<1>2. call.phase = "none" /\ out.end # "abort" /\ n \in Nat
  BY IdlePhase, BlocksAssumption DEF Zeros
<1>3. Tracked' /\ call' = NoCall
  BY <1>1, <1>2, BuildsEnds
<1>4. PICK o \in Built(Rep, n) : \A d, S : o \in S => Abstract(d)!Call("zeros", <<n>>, S)
  BY <1>1, <1>2, BuildsEnds
<1>5. ASSUME NEW d PROVE Abstract(d)!Next
  <2>1. o \in Abstract(d)!zeros(Seen, n)
    BY <1>2, BuiltZeros, AtRestSeen
  <2>2. Abstract(d)!Call("zeros", <<n>>, Abstract(d)!zeros(Seen, n))
    BY <1>4, <2>1
  <2> QED BY <2>2, AbstractSteps
<1> QED BY <1>3, <1>5, IsAnswer DEF Tracked

LEMMA ResizeInlineAnswers ==
  ASSUME Inv, Tracked, ResizeInline
  PROVE  Tracked' /\ Answers
<1>1. PICK n \in Positions \ {0} : Builds("resize", <<n, "zero">>, n)
  BY DEF ResizeInline
<1>2. call.phase = "none" /\ out.end # "abort" /\ n \in Nat /\ n # 0 /\ list.kind = "inline"
  BY IdlePhase, BlocksAssumption DEF ResizeInline
<1>3. Tracked' /\ call' = NoCall
  BY <1>1, <1>2, BuildsEnds
<1>4. PICK o \in Built(Rep, n) : \A d, S : o \in S => Abstract(d)!Call("resize", <<n, "zero">>, S)
  BY <1>1, <1>2, BuildsEnds
<1>5. ASSUME NEW d PROVE Abstract(d)!Next
  <2>1. o \in Abstract(d)!resize(Seen, n, "zero")
    BY <1>2, ResizeInlineZeros, AtRestSeen
  <2>2. Abstract(d)!Call("resize", <<n, "zero">>, Abstract(d)!resize(Seen, n, "zero"))
    BY <1>4, <2>1
  <2> QED BY <2>2, AbstractSteps
<1> QED BY <1>3, <1>5, IsAnswer DEF Tracked

LEMMA ReverseAnswers ==
  ASSUME Inv, Tracked, Reverse
  PROVE  Tracked' /\ Answers
<1>1. call.phase = "none" /\ out.end # "abort"
  BY IdlePhase DEF Reverse
<1>2. call = NoCall /\ Known(Rep) /\ Seen = Rep /\ IsZero(Rep)
         /\ Rep.kind = list.kind /\ Rep.len = len /\ len \in Nat
  BY <1>1, AtRestSeen
<1>3. CASE list.kind = "heap"
  <2>1. Builds("reverse", <<>>, len)
    BY <1>3 DEF Reverse
  <2>2. Tracked' /\ call' = NoCall
    BY <1>1, <1>2, <2>1, BuildsEnds
  <2>3. PICK o \in Built(Rep, len) : \A d, S : o \in S => Abstract(d)!Call("reverse", <<>>, S)
    BY <1>1, <1>2, <2>1, BuildsEnds
  <2>4. ASSUME NEW d \in BOOLEAN PROVE Abstract(d)!Next
    <3>1. o \in Abstract(d)!reverse(Seen)
      BY <1>2, <1>3, ReverseZeros
    <3>2. Abstract(d)!Call("reverse", <<>>, Abstract(d)!reverse(Seen))
      BY <2>3, <3>1
    <3> QED BY <3>2, AbstractSteps
  <2> QED BY <2>2, <2>4, IsAnswer DEF Tracked
<1>4. CASE list.kind # "heap"
  <2>1. Rep' = Rep /\ UNCHANGED <<debug, call>>
    BY <1>4 DEF Reverse, Rep, len
  <2>2. Rep.kind = "inline"
    BY <1>2, <1>4 DEF IsZero
  <2>3. ASSUME NEW x, NEW e, Ends("reverse", <<>>, x, e),
               \A d \in BOOLEAN : d = debug => Outcome(Rep, x, e) \in Abstract(d)!reverse(Seen)
        PROVE  Tracked' /\ Answers
    <3>1. /\ Tracked' /\ call' = NoCall
          /\ \A d, S : Outcome(Rep, x, e) \in S => Abstract(d)!Call("reverse", <<>>, S)
      BY <1>1, <1>2, <2>1, <2>3, EndsAtOnce
    <3>2. ASSUME NEW d \in BOOLEAN, d = debug PROVE Abstract(d)!Next
      <4>1. Abstract(d)!Call("reverse", <<>>, Abstract(d)!reverse(Seen))
        BY <2>3, <3>1, <3>2
      <4> QED BY <4>1, AbstractSteps
    <3> QED BY <3>1, <3>2, IsAnswer DEF Tracked
  <2>4. CASE len = 0 /\ debug
    <3>1. Ends("reverse", <<>>, "none", "panic")
      BY <1>4, <2>4 DEF Reverse
    <3>2. \A d \in BOOLEAN : d = debug =>
          Outcome(Rep, "none", "panic") \in Abstract(d)!reverse(Seen)
      BY <1>2, <2>2, <2>4, ReverseZeros
    <3> QED BY <2>3, <3>1, <3>2
  <2>5. CASE ~(len = 0 /\ debug)
    <3>1. Ends("reverse", <<>>, "done", "return")
      BY <1>4, <2>5 DEF Reverse
    <3>2. \A d \in BOOLEAN : d = debug =>
          Outcome(Rep, "done", "return") \in Abstract(d)!reverse(Seen)
      BY <1>2, <2>2, <2>5, ReverseZeros
    <3> QED BY <2>3, <3>1, <3>2
  <2> QED BY <2>4, <2>5
<1> QED BY <1>3, <1>4

(* The list is cleared, by a call that BitList has among its own. *)
LEMMA ClearedEnds ==
  ASSUME Inv, Tracked, call.phase = "none", out.end # "abort", NEW op, NEW a, Cleared(op, a)
  PROVE  /\ Tracked' /\ call' = NoCall
         /\ \A d : Abstract(d)!Call(op, a, Abstract(d)!clear(Rep))
<1> DEFINE q == Zero(Rep.kind, 0, Rep.cap)
<1>1. Known(Rep) /\ IsZero(Rep) /\ Rep.kind = list.kind
  BY AtRestSeen
<1>2. Known(q)
  BY <1>1, ZeroIs, BlocksAssumption DEF Known, IsZero
<1>3. UNCHANGED <<debug, call>> /\ Ends(op, a, "done", "return")
  BY DEF Cleared
<1>4. Rep' = q
  <2>1. CASE list.kind = "inline"
    <3>1. list' = InlineList(0)
      BY <2>1 DEF Cleared
    <3>2. Rep.cap = 0 /\ Rep.kind = "inline"
      BY <1>1, <2>1 DEF IsZero
    <3> QED BY <3>1, <3>2, RepForm, RepForms
  <2>2. CASE list.kind = "heap"
    <3>1. list' = list /\ blocks' = [blocks EXCEPT ![list.ptr].len = 0]
      BY <2>2 DEF Cleared
    <3>2. list.ptr \in Addresses /\ blocks[list.ptr] \in Headers /\ blocks \in Memories
      BY <2>2, ListBlock DEF Inv, Sound
    <3>3. blocks'[list.ptr].len = 0 /\ blocks'[list.ptr].cap = blocks[list.ptr].cap
      BY <3>1, <3>2 DEF Memories, Headers
    <3>4. Rep.cap = blocks[list.ptr].cap
      BY <2>2 DEF Rep
    <3> QED BY <1>1, <2>2, <3>1, <3>3, <3>4, RepForm DEF RepOf
  <2> QED BY <1>1, <2>1, <2>2 DEF IsZero
<1>5. /\ Tracked' /\ call' = NoCall
      /\ \A d, S : Outcome(q, "done", "return") \in S => Abstract(d)!Call(op, a, S)
  BY <1>2, <1>3, <1>4, EndsAtOnce
<1> QED BY <1>1, <1>5, ClearZeros

LEMMA ClearAnswers ==
  ASSUME Inv, Tracked, Clear
  PROVE  Tracked' /\ Answers
<1>1. call.phase = "none" /\ out.end # "abort" /\ Cleared("clear", <<>>)
  BY IdlePhase DEF Clear
<1>2. Seen = Rep
  BY <1>1, AtRestSeen
<1>3. /\ Tracked' /\ call' = NoCall
      /\ \A d : Abstract(d)!Call("clear", <<>>, Abstract(d)!clear(Rep))
  BY <1>1, ClearedEnds
<1>4. ASSUME NEW d PROVE Abstract(d)!Next
  BY <1>2, <1>3, AbstractSteps
<1> QED BY <1>3, <1>4, IsAnswer DEF Tracked

LEMMA CloneAnswers ==
  ASSUME Inv, Tracked, Clone
  PROVE  Tracked' /\ Answers
<1>1. call.phase = "none" /\ out.end # "abort"
  BY IdlePhase DEF Clone
<1>2. call = NoCall /\ Known(Rep) /\ Seen = Rep /\ IsZero(Rep)
         /\ Rep.kind = list.kind /\ Rep.len = len /\ len \in Nat
  BY <1>1, AtRestSeen
<1>3. ASSUME NEW q, NEW x, NEW e, Known(q), Rep' = q, UNCHANGED <<debug, call>>,
             Ends("clone", <<>>, x, e), \A d : Outcome(q, x, e) \in Abstract(d)!clone(Seen)
      PROVE  Tracked' /\ Answers
  <2>1. /\ Tracked' /\ call' = NoCall
        /\ \A d, S : Outcome(q, x, e) \in S => Abstract(d)!Call("clone", <<>>, S)
    BY <1>1, <1>3, EndsAtOnce
  <2>2. ASSUME NEW d PROVE Abstract(d)!Next
    <3>1. Abstract(d)!Call("clone", <<>>, Abstract(d)!clone(Seen))
      BY <1>3, <2>1
    <3> QED BY <3>1, AbstractSteps
  <2> QED BY <2>1, <2>2, IsAnswer DEF Tracked
<1>4. Long <=> Rep.kind = "heap" /\ Rep.len > DATA_BITS
  BY <1>2 DEF Long
<1>5. CASE Long /\ Aborts("clone", <<>>)
  <2>1. UNCHANGED <<debug, call>> /\ Ends("clone", <<>>, "none", "abort") /\ Rep' = Rep
    BY <1>5, AbortSees
  <2>2. \A d : Outcome(Rep, "none", "abort") \in Abstract(d)!clone(Seen)
    BY <1>2, <1>4, <1>5, CloneZeros
  <2> QED BY <1>2, <1>3, <2>1, <2>2
<1>6. ASSUME Long, NEW p \in Addresses \ Live, Assign("clone", <<>>, HeapList(p), CopyAt(p))
      PROVE  Tracked' /\ Answers
  <2> DEFINE h == Block(blocks[list.ptr].cap, len)
  <2>1. h.len = len /\ h.cap = blocks[list.ptr].cap
    BY DEF Block
  <2> HIDE DEF h
  <2>2. Assign("clone", <<>>, HeapList(p), [blocks EXCEPT ![p] = h])
    BY <1>6 DEF h, CopyAt
  <2>3. Rep' = Zero("heap", h.len, h.cap) /\ UNCHANGED <<debug, call>>
        /\ Ends("clone", <<>>, "done", "return")
    BY <1>1, <2>2, AssignSees
  <2>4. Rep = Zero("heap", h.len, h.cap)
    BY <1>6, <2>1, RepForm DEF Long, RepOf, len
  <2>5. \A d : Outcome(Rep, "done", "return") \in Abstract(d)!clone(Seen)
    BY <1>2, <1>4, <1>6, CloneZeros
  <2> QED BY <1>2, <1>3, <2>3, <2>4, <2>5
<1>7. CASE ~Long /\ Assign("clone", <<>>, InlineList(len), blocks)
  <2>1. Rep' = Zero("inline", len, 0) /\ UNCHANGED <<debug, call>>
        /\ Ends("clone", <<>>, "done", "return")
    BY <1>1, <1>7, AssignSees
  <2>2. \A d : Outcome(Zero("inline", len, 0), "done", "return") \in Abstract(d)!clone(Seen)
    BY <1>2, <1>4, <1>7, CloneZeros
  <2>3. Known(Zero("inline", len, 0))
    BY <1>2, KnownZero DEF Known
  <2> QED BY <1>3, <2>1, <2>2, <2>3
<1> QED BY <1>5, <1>6, <1>7 DEF Clone

(* A call begins that needs room: its owner sees nothing yet. *)
LEMMA AsksTracked ==
  ASSUME Tracked, call.phase = "none", NEW op, NEW a, NEW need, NEW n,
         Asks(op, a, need, n), Rep' = Rep, op # "shrink_to_fit", Asked'
  PROVE  Tracked' /\ Quiet
<1>1. call = NoCall /\ Known(Rep) /\ Seen = Rep
  BY AtRestSeen
<1>2. /\ call'.phase = "ask" /\ call'.before = Rep /\ call'.length = n /\ n <= MaxLen
      /\ call'.op = op /\ UNCHANGED <<debug, out, args>>
  BY DEF Asks
<1>3. call' # NoCall
  BY <1>2 DEF NoCall
<1>4. Seen' = Seen
  BY <1>1, <1>2, <1>3 DEF Seen
<1>5. Progress'
  BY <1>2 DEF Progress, Borrowing
<1>6. Known(call'.before)
  BY <1>1, <1>2
<1>7. Tracked'
  BY <1>2, <1>5, <1>6 DEF Tracked, Known, IsZero
<1> QED BY <1>2, <1>4, <1>7 DEF Quiet

LEMMA AskingTracked ==
  ASSUME Tracked, TryReserve \/ Reserve \/ PushBits \/ ResizeHeap
  PROVE  Tracked' /\ Quiet
<1>1. call.phase = "none"
  BY IdlePhase DEF TryReserve, Reserve, PushBits, ResizeHeap
<1>2. Rep.len = len /\ Rep.kind = list.kind
  BY DEF Rep
<1>3. UNCHANGED <<blocks, list>>
  BY DEF TryReserve, Reserve, PushBits, ResizeHeap, Asks
<1>4. Rep' = Rep
  BY <1>3 DEF Rep, len
<1>5. CASE TryReserve
  <2>1. PICK n \in Reserves : Asks("try_reserve", <<n>>, len + n, len)
    BY <1>5 DEF TryReserve
  <2>2. Asked'
    BY <1>2, <2>1 DEF Asks, Asked, Wants
  <2> QED BY <1>1, <1>4, <2>1, <2>2, AsksTracked
<1>6. CASE Reserve
  <2>1. PICK n \in Reserves : Asks("reserve", <<n>>, len + n, len)
    BY <1>6 DEF Reserve
  <2>2. Asked'
    BY <1>2, <2>1 DEF Asks, Asked, Wants
  <2> QED BY <1>1, <1>4, <2>1, <2>2, AsksTracked
<1>7. CASE PushBits
  <2>1. PICK n \in Positions : Asks("push_bits", <<Str(n, {})>>, len + n, len + n)
    BY <1>7 DEF PushBits
  <2>2. Asked'
    BY <1>2, <2>1 DEF Asks, Asked, Wants
  <2> QED BY <1>1, <1>4, <2>1, <2>2, AsksTracked
<1>8. CASE ResizeHeap
  <2>1. PICK n \in Positions : n > len /\ Asks("resize", <<n, "zero">>, n, n)
    BY <1>8 DEF ResizeHeap
  <2>2. list.kind = "heap"
    BY <1>8 DEF ResizeHeap
  <2>3. Asked'
    BY <1>2, <2>1, <2>2 DEF Asks, Asked, Wants
  <2> QED BY <1>1, <1>4, <2>1, <2>3, AsksTracked
<1> QED BY <1>5, <1>6, <1>7, <1>8

LEMMA RepeatTracked ==
  ASSUME Inv, Tracked, Repeat
  PROVE  Tracked' /\ (Quiet \/ Answers)
<1>1. call.phase = "none" /\ out.end # "abort"
  BY IdlePhase DEF Repeat
<1>2. call = NoCall /\ Known(Rep) /\ Seen = Rep /\ IsZero(Rep)
         /\ Rep.kind = list.kind /\ Rep.len = len /\ len \in Nat
  BY <1>1, AtRestSeen
<1>3. PICK k \in Repeats :
        \/ k = 0 /\ Cleared("repeat", <<k>>)
        \/ k > 0 /\ Long /\ Aborts("repeat", <<k>>)
        \/ /\ k > 0 /\ Asks("repeat", <<k>>, len * k, len * k)
           /\ IF Long THEN \E p \in Addresses \ Live : temp' = HeapList(p) /\ blocks' = CopyAt(p)
                      ELSE temp' = InlineList(len) /\ blocks' = blocks
  BY DEF Repeat
<1>4. k \in Nat
  BY BlocksAssumption
<1>5. CASE k = 0 /\ Cleared("repeat", <<k>>)
  <2>1. /\ Tracked' /\ call' = NoCall
        /\ \A d : Abstract(d)!Call("repeat", <<k>>, Abstract(d)!clear(Rep))
    BY <1>1, <1>5, ClearedEnds
  <2>2. ASSUME NEW d PROVE Abstract(d)!Next
    <3>1. Abstract(d)!repeat(Seen, k) = Abstract(d)!clear(Rep)
      BY <1>2, <1>5 DEF Abstract!repeat
    <3> QED BY <2>1, <3>1, AbstractSteps
  <2> QED BY <2>1, <2>2, IsAnswer DEF Tracked
<1>6. CASE k > 0 /\ Long /\ Aborts("repeat", <<k>>)
  <2>1. UNCHANGED <<debug, call>> /\ Ends("repeat", <<k>>, "none", "abort") /\ Rep' = Rep
    BY <1>6, AbortSees
  <2>2. /\ Tracked' /\ call' = NoCall
        /\ \A d, S : Outcome(Rep, "none", "abort") \in S => Abstract(d)!Call("repeat", <<k>>, S)
    BY <1>1, <1>2, <2>1, EndsAtOnce
  <2>3. ASSUME NEW d \in BOOLEAN PROVE Abstract(d)!Next
    <3>1. Rep.kind = "heap" /\ Rep.len > DATA_BITS
      BY <1>2, <1>6 DEF Long
    <3>2. Outcome(Rep, "none", "abort") \in Abstract(d)!repeat(Seen, k)
      BY <1>2, <1>4, <1>6, <3>1, RepeatZeros
    <3>3. Abstract(d)!Call("repeat", <<k>>, Abstract(d)!repeat(Seen, k))
      BY <2>2, <3>2
    <3> QED BY <3>3, AbstractSteps
  <2> QED BY <2>2, <2>3, IsAnswer DEF Tracked
<1>7. ASSUME k > 0, Asks("repeat", <<k>>, len * k, len * k),
             IF Long THEN \E p \in Addresses \ Live : temp' = HeapList(p) /\ blocks' = CopyAt(p)
                     ELSE temp' = InlineList(len) /\ blocks' = blocks
      PROVE  Tracked' /\ Quiet
  <2>1. list' = list
    BY <1>7 DEF Asks
  <2>2. Rep' = Rep
    <3>1. CASE Long
      <4>1. PICK p \in Addresses \ Live : blocks' = CopyAt(p)
        BY <1>7, <3>1
      <4>2. blocks'[list.ptr] = blocks[list.ptr]
        BY <1>1, <3>1, <4>1, CopySound
      <4> QED BY <2>1, <4>2 DEF Rep, len
    <3>2. CASE ~Long
      <4>1. blocks' = blocks
        BY <1>7, <3>2
      <4> QED BY <2>1, <4>1 DEF Rep, len
    <3> QED BY <3>1, <3>2
  <2>3. Asked'
    BY <1>2, <1>7 DEF Asks, Asked, Wants
  <2> QED BY <1>1, <1>7, <2>2, <2>3, AsksTracked
<1> QED BY <1>3, <1>5, <1>6, <1>7

LEMMA ShrinkToFitTracked ==
  ASSUME Inv, Tracked, ShrinkToFit
  PROVE  Tracked' /\ (Quiet \/ Answers)
<1>1. call.phase = "none" /\ out.end # "abort"
  BY IdlePhase DEF ShrinkToFit
<1>2. call = NoCall /\ Known(Rep) /\ Seen = Rep /\ IsZero(Rep)
         /\ Rep.kind = list.kind /\ Rep.len = len /\ len \in Nat
  BY <1>1, AtRestSeen
<1>3. Long <=> Rep.kind = "heap" /\ Rep.len > DATA_BITS
  BY <1>2 DEF Long
<1>4. CASE Long
  <2>1. /\ vec' = [ptr |-> list.ptr, len |-> words_for(len) + HEADER,
                   cap |-> blocks[list.ptr].cap + HEADER]
        /\ call' = [op |-> "shrink_to_fit", args |-> <<>>, need |-> 0, length |-> len,
                    phase |-> "shrink", before |-> Rep]
        /\ UNCHANGED <<debug, blocks, list, temp, out, args>>
    BY <1>4 DEF ShrinkToFit
  <2>2. Rep' = Rep
    BY <2>1 DEF Rep, len
  <2>3. call' # NoCall
    BY <2>1 DEF NoCall
  <2>4. Quiet
    BY <1>2, <2>1, <2>3 DEF Quiet, Seen
  <2>5. Asked'
    BY <1>2, <1>3, <1>4, <2>1 DEF Asked
  <2>6. blocks'[vec'.ptr].len = len /\ vec'.len = words_for(len) + HEADER
    BY <1>4, <2>1, ListBlock DEF Long
  <2>7. Progress'
    BY <1>2, <1>3, <1>4, <2>1, <2>2, <2>6 DEF Progress, Borrowing
  <2>8. Known(call'.before) /\ call'.length <= MaxLen
    BY <1>2, <2>1 DEF Known
  <2>9. Tracked'
    BY <2>1, <2>5, <2>7, <2>8 DEF Tracked, Known, IsZero
  <2> QED BY <2>4, <2>9
<1>5. CASE ~Long
  <2>1. Assign("shrink_to_fit", <<>>, InlineList(len), blocks)
    BY <1>5 DEF ShrinkToFit
  <2>2. Rep' = Zero("inline", len, 0) /\ UNCHANGED <<debug, call>>
        /\ Ends("shrink_to_fit", <<>>, "done", "return")
    BY <1>1, <2>1, AssignSees
  <2>3. Known(Zero("inline", len, 0))
    BY <1>2, KnownZero DEF Known
  <2>4. /\ Tracked' /\ call' = NoCall
        /\ \A d, S : Outcome(Zero("inline", len, 0), "done", "return") \in S =>
                       Abstract(d)!Call("shrink_to_fit", <<>>, S)
    BY <1>1, <2>2, <2>3, EndsAtOnce
  <2>5. ASSUME NEW d PROVE Abstract(d)!Next
    <3>1. Outcome(Zero("inline", len, 0), "done", "return") \in Abstract(d)!shrink_to_fit(Seen)
      BY <1>2, <1>3, <1>5, ShrinkZeros
    <3>2. Abstract(d)!Call("shrink_to_fit", <<>>, Abstract(d)!shrink_to_fit(Seen))
      BY <2>4, <3>1
    <3> QED BY <3>2, AbstractSteps
  <2> QED BY <2>4, <2>5, IsAnswer DEF Tracked
<1> QED BY <1>4, <1>5

-----------------------------------------------------------------------------
(* The steps of a call. *)

LEMMA DuringCall ==
  ASSUME Inv, Tracked, call.phase # "none"
  PROVE  /\ call # NoCall /\ Seen = call.before /\ Known(call.before) /\ IsZero(call.before)
         /\ Asked /\ Progress /\ call.length \in Nat /\ call.length <= MaxLen
         /\ call.need \in Nat /\ debug \in BOOLEAN
<1>1. call # NoCall
  BY DEF NoCall
<1> QED BY <1>1 DEF Tracked, Seen, Known, Inv, CallOK

(* Only the place in the call changes, and what is asked does not. *)
LEMMA GoesTo ==
  ASSUME Inv, Tracked, call.phase # "none", NEW phase \in Phases, phase # "none",
         Becomes(phase), UNCHANGED <<debug, out, args>>
  PROVE  /\ Quiet /\ call'.phase = phase /\ call'.before = call.before
         /\ call'.op = call.op /\ call'.need = call.need
         /\ Short' = Short /\ Broken' = Broken /\ Refusable' = Refusable
         /\ Progress' => Tracked'
<1>1. /\ call # NoCall /\ Seen = call.before /\ Known(call.before) /\ Asked
      /\ call.length <= MaxLen /\ debug \in BOOLEAN
  BY DuringCall
<1>2. /\ call'.phase = phase /\ call'.before = call.before /\ call'.op = call.op
      /\ call'.args = call.args /\ call'.need = call.need /\ call'.length = call.length
  BY DEF Becomes, Inv, CallOK
<1>3. call' # NoCall
  BY <1>2 DEF NoCall
<1>4. Quiet
  BY <1>1, <1>2, <1>3 DEF Quiet, Seen
<1>5. Asked'
  BY <1>1, <1>2 DEF Asked, Wants
<1>6. Short' = Short
  BY <1>2 DEF Short, room
<1>7. Broken' = Broken
  BY <1>2 DEF Broken
<1>8. Refusable' = Refusable
  BY <1>2, <1>7 DEF Refusable, room
<1>9. Known(call.before)'
  BY <1>1, <1>2 DEF Known, IsZero
<1>10. Progress' => Tracked'
  BY <1>1, <1>2, <1>5, <1>9 DEF Tracked
<1> QED BY <1>2, <1>4, <1>6, <1>7, <1>8, <1>10

LEMMA LargerStays ==
  ASSUME UNCHANGED debug, call'.before = call.before, call'.op = call.op, call'.need = call.need,
         NEW c, Larger(c)
  PROVE  Larger(c)'
BY DEF Larger, Short, room

LEMMA ReadyStays ==
  ASSUME UNCHANGED debug, call'.before = call.before, call'.op = call.op, call'.need = call.need,
         Ready(Rep)
  PROVE  Rep' = Rep => Ready(Rep)'
BY DEF Ready, Larger, Short, Broken, room

LEMMA RoomInlineTracked ==
  ASSUME Inv, Tracked, RoomInline
  PROVE  Tracked' /\ Quiet
<1> DEFINE b == call.before
<1>1. /\ call.phase = "ask" /\ call.phase # "none" /\ list.kind = "inline"
      /\ UNCHANGED <<debug, temp, vec, out, args>>
  BY AtPhase DEF RoomInline
<1>2. Progress /\ debug \in BOOLEAN /\ IsZero(b) /\ call.need \in Nat
  BY <1>1, DuringCall
<1>3. Rep = b /\ call.op # "shrink_to_fit"
  BY <1>1, <1>2 DEF Progress
<1>4. b.kind = "inline" /\ b.len = list.len /\ ~Broken /\ room(b) = DATA_BITS
  BY <1>1, <1>3 DEF Rep, len, Broken, room
<1>5. CASE call.need > DATA_BITS /\ Becomes("refused") /\ UNCHANGED <<blocks, list>>
  <2>1. /\ Quiet /\ call'.phase = "refused" /\ call'.before = b /\ call'.op = call.op
        /\ Refusable' = Refusable /\ (Progress' => Tracked')
    BY <1>1, <1>5, GoesTo DEF Phases
  <2>2. Rep' = Rep
    BY <1>5 DEF Rep, len
  <2>3. Refusable
    BY <1>4, <1>5, DataBitsType, <1>2 DEF Refusable
  <2>4. Progress'
    BY <1>3, <2>1, <2>2, <2>3 DEF Progress, Borrowing
  <2> QED BY <2>1, <2>4
<1>6. CASE call.need <= DATA_BITS /\ Becomes("granted") /\ UNCHANGED <<blocks, list>>
  <2>1. /\ Quiet /\ call'.phase = "granted" /\ call'.before = b /\ call'.op = call.op
        /\ call'.need = call.need /\ (Progress' => Tracked')
    BY <1>1, <1>6, GoesTo DEF Phases
  <2>2. Rep' = Rep
    BY <1>6 DEF Rep, len
  <2>3. Ready(Rep)
    BY <1>3, <1>4, <1>6 DEF Ready
  <2>4. Ready(Rep)'
    BY <1>1, <2>1, <2>2, <2>3, ReadyStays
  <2>5. Progress'
    BY <2>1, <2>4 DEF Progress, Borrowing
  <2> QED BY <2>1, <2>5
<1>7. ASSUME DATA_BITS < call.need, call.need <= UsizeMax, words_for(call.need) <= MaxWords,
             Becomes("granted"), NEW p \in Addresses \ Live,
             blocks' = [blocks EXCEPT ![p] = Block(words_for(call.need), list.len)],
             list' = HeapList(p)
      PROVE  Tracked' /\ Quiet
  <2>1. /\ Quiet /\ call'.phase = "granted" /\ call'.before = b /\ call'.op = call.op
        /\ call'.need = call.need /\ (Progress' => Tracked') /\ Short' = Short
    BY <1>1, <1>7, GoesTo DEF Phases
  <2>2. blocks'[p] = Block(words_for(call.need), list.len)
    BY <1>7 DEF Inv, Sound, Memories
  <2>3. Rep' = Zero("heap", b.len, words_for(call.need))
    <3>1. blocks'[p].len = b.len /\ blocks'[p].cap = words_for(call.need)
      BY <1>4, <2>2 DEF Block
    <3>2. Rep' = RepOf(blocks', HeapList(p))
      BY <1>7, RepForm
    <3> QED BY <3>1, <3>2, RepForms
  <2>4. Short
    BY <1>4, <1>7 DEF Short
  <2>5. Ready(Rep)'
    BY <1>4, <1>7, <2>1, <2>3, <2>4 DEF Ready
  <2>6. Progress'
    BY <2>1, <2>5 DEF Progress, Borrowing
  <2> QED BY <2>1, <2>6
<1> QED BY <1>5, <1>6, <1>7 DEF RoomInline

LEMMA RoomHeapTracked ==
  ASSUME Inv, Tracked, RoomHeap
  PROVE  Tracked' /\ Quiet
<1> DEFINE b == call.before
<1>1. /\ call.phase = "ask" /\ call.phase # "none" /\ list.kind = "heap"
      /\ UNCHANGED <<debug, blocks, list, temp, out, args>>
  BY AtPhase DEF RoomHeap
<1>2. Progress /\ debug \in BOOLEAN /\ Known(b) /\ call.need \in Nat
  BY <1>1, DuringCall
<1>3. Rep = b /\ call.op # "shrink_to_fit" /\ Rep' = Rep
  BY <1>1, <1>2 DEF Progress, Rep, len
<1>4. b.kind = "heap" /\ b.len = len /\ b.cap = blocks[list.ptr].cap /\ len = blocks[list.ptr].len
      /\ room(b) = blocks[list.ptr].cap * WordSize
  BY <1>1, <1>3 DEF Rep, len, room
<1>5. UsizeMax \in Int /\ room(b) \in Nat /\ room(b) <= UsizeMax
  BY <1>2, RoomIsCounted
<1>6. CASE call.need > UsizeMax /\ Becomes("refused")
  <2>1. /\ Quiet /\ call'.phase = "refused" /\ call'.before = b /\ call'.op = call.op
        /\ Refusable' = Refusable /\ (Progress' => Tracked')
    BY <1>1, <1>6, GoesTo DEF Phases
  <2>2. Refusable
    BY <1>6 DEF Refusable
  <2>3. Progress'
    BY <1>3, <2>1, <2>2 DEF Progress, Borrowing
  <2> QED BY <2>1, <2>3
<1>7. CASE call.need <= blocks[list.ptr].cap * WordSize /\ Becomes("granted")
  <2>1. /\ Quiet /\ call'.phase = "granted" /\ call'.before = b /\ call'.op = call.op
        /\ call'.need = call.need /\ (Progress' => Tracked')
    BY <1>1, <1>7, GoesTo DEF Phases
  <2>2. Ready(Rep)
    BY <1>3, <1>4, <1>7 DEF Ready
  <2>3. Ready(Rep)'
    BY <1>1, <1>3, <2>1, <2>2, ReadyStays
  <2>4. Progress'
    BY <2>1, <2>3 DEF Progress, Borrowing
  <2> QED BY <2>1, <2>4
<1>8. CASE /\ ~(call.need > UsizeMax) /\ ~(call.need <= blocks[list.ptr].cap * WordSize)
           /\ Becomes("grow")
           /\ vec' = [ptr |-> list.ptr, len |-> words_for(len) + HEADER,
                      cap |-> blocks[list.ptr].cap + HEADER]
  <2>1. /\ Quiet /\ call'.phase = "grow" /\ call'.before = b /\ call'.op = call.op
        /\ call'.need = call.need /\ (Progress' => Tracked') /\ Short' = Short
    BY <1>1, <1>8, GoesTo DEF Phases, Borrowing
  <2>2. Short
    BY <1>2, <1>4, <1>5, <1>8 DEF Short
  <2>3. blocks'[vec'.ptr].len = b.len /\ vec'.len = words_for(b.len) + HEADER
    BY <1>1, <1>4, <1>8
  <2>4. Progress'
    BY <1>3, <1>4, <2>1, <2>2, <2>3 DEF Progress, Borrowing
  <2> QED BY <2>1, <2>4
<1> QED BY <1>6, <1>7, <1>8 DEF RoomHeap

(* The vector has moved: the list it will be given back to has the length  *)
(* it had, and one of the capacities that are larger enough.               *)
LEMMA MovesTracked ==
  ASSUME Inv, Tracked, call.phase \in {"grow", "shrink"}, NEW c \in Nat, Larger(c),
         Moves(c + HEADER), Becomes("set"), UNCHANGED <<debug, list, temp, out, args>>
  PROVE  Tracked' /\ Quiet
<1> DEFINE b == call.before
           size == c + HEADER
<1>1. call.phase # "none" /\ call.phase \in Borrowing
  BY DEF Borrowing
<1>2. Progress
  BY <1>1, DuringCall
<1>3. b.kind = "heap" /\ blocks[vec.ptr].len = b.len /\ vec.len = words_for(b.len) + HEADER
  BY <1>1, <1>2 DEF Progress
<1>4. vec.ptr \in Addresses /\ blocks[vec.ptr] \in Headers /\ blocks \in Memories /\ vec \in Vecs
  BY <1>1, Borrowed DEF Inv, Sound
<1>5. size - HEADER = c
  BY DEF HEADER
<1> HIDE DEF size
<1>6. PICK p \in (Addresses \ Live) \cup {vec.ptr} :
        /\ blocks' = [dealloc(blocks, vec.ptr) EXCEPT ![p] = [blocks[vec.ptr] EXCEPT !.size = size]]
        /\ vec' = [vec EXCEPT !.ptr = p, !.cap = size]
  BY DEF Moves, size
<1>7. vec'.ptr = p /\ vec'.cap = size /\ vec'.len = vec.len /\ p \in Addresses
  BY <1>4, <1>6 DEF Vecs
<1>8. blocks'[p] = [blocks[vec.ptr] EXCEPT !.size = size]
  BY <1>4, <1>6, <1>7 DEF Memories, dealloc
<1>9. blocks'[vec'.ptr].len = b.len /\ vec'.len = words_for(b.len) + HEADER
  BY <1>3, <1>4, <1>7, <1>8 DEF Headers
<1>10. /\ Quiet /\ call'.phase = "set" /\ call'.before = b /\ call'.op = call.op
       /\ call'.need = call.need /\ (Progress' => Tracked')
  BY <1>1, GoesTo DEF Phases, Borrowing
<1>11. Larger(vec.cap - HEADER)'
  BY <1>5, <1>7, <1>10 DEF Larger, Short, room
<1>12. Progress'
  BY <1>3, <1>9, <1>10, <1>11 DEF Progress, Borrowing
<1> QED BY <1>10, <1>12

LEMMA GrowTracked ==
  ASSUME Inv, Tracked, Grow
  PROVE  Tracked' /\ Quiet
<1> DEFINE b == call.before
<1>1. call.phase = "grow" /\ call.phase # "none" /\ UNCHANGED <<debug, list, temp, out, args>>
  BY AtPhase DEF Grow
<1>2. Progress /\ call.need \in Nat
  BY <1>1, DuringCall
<1>3. Rep = b /\ Short /\ call.op # "shrink_to_fit"
  BY <1>1, <1>2 DEF Progress
<1>4. CASE Becomes("drop_refused") /\ UNCHANGED <<blocks, vec>>
  <2>1. /\ Quiet /\ call'.phase = "drop_refused" /\ call'.before = b /\ call'.op = call.op
        /\ (Progress' => Tracked') /\ Short' = Short
    BY <1>1, <1>4, GoesTo DEF Phases, Borrowing
  <2>2. Rep' = Rep
    BY <1>1, <1>4 DEF Rep, len
  <2>3. Progress'
    BY <1>1, <1>2, <1>3, <1>4, <2>1, <2>2 DEF Progress, Borrowing
  <2> QED BY <2>1, <2>3
<1>5. ASSUME NEW c \in words_for(call.need) .. MaxWords, Moves(c + HEADER), Becomes("set")
      PROVE  Tracked' /\ Quiet
  <2>1. c \in Nat
    BY <1>2, WordsForBounds, BlocksAssumption
  <2>2. Larger(c)
    BY <1>3, <1>5 DEF Larger
  <2> QED BY <1>1, <1>5, <2>1, <2>2, MovesTracked
<1> QED BY <1>4, <1>5 DEF Grow

(* A call ends with an abort. *)
LEMMA AbortAnswers ==
  ASSUME Inv, Tracked, call.phase # "none", out.end # "abort", Aborts(call.op, call.args),
         Possible(call.before, "none", "abort")
  PROVE  Answers
<1>1. /\ call # NoCall /\ Seen = call.before /\ Known(call.before) /\ Asked
      /\ call.need \in Nat /\ debug \in BOOLEAN
  BY DuringCall
<1>2. Ends(call.op, call.args, "none", "abort") /\ Seen' = call.before /\ out'.end = "abort"
  BY <1>1, AbortSees
<1>3. call.before.len <= MaxLen
  BY <1>1 DEF Known
<1>4. ASSUME NEW d \in BOOLEAN, d = debug PROVE Abstract(d)!Next
  BY <1>1, <1>2, <1>3, <1>4, PossibleIsStep
<1> QED BY <1>1, <1>2, <1>4, IsAnswer

LEMMA ShrinkTracked ==
  ASSUME Inv, Tracked, Shrink
  PROVE  (Answers /\ out'.end = "abort") \/ (Tracked' /\ Quiet)
<1> DEFINE b == call.before
<1>1. call.phase = "shrink" /\ call.phase # "none" /\ out.end # "abort" /\ call.phase \in Borrowing
  BY AtPhase DEF Shrink, Borrowing
<1>2. Progress /\ Known(b) /\ b.len \in Nat
  BY <1>1, DuringCall DEF IsZero
<1>3. Rep = b /\ call.op = "shrink_to_fit" /\ b.kind = "heap"
  BY <1>1, <1>2 DEF Progress
<1>4. CASE Aborts(call.op, call.args)
  <2>1. Possible(b, "none", "abort")
    BY <1>3 DEF Possible
  <2>2. Answers
    BY <1>1, <1>4, <2>1, AbortAnswers
  <2>3. out'.end = "abort"
    BY <1>4, AbortSees
  <2> QED BY <2>2, <2>3
<1>5. ASSUME NEW c \in words_for(len) .. (vec.cap - HEADER), Moves(c + HEADER), Becomes("set"),
             UNCHANGED <<debug, list, temp, out, args>>
      PROVE  Tracked' /\ Quiet
  <2>1. vec.ptr = list.ptr /\ blocks[vec.ptr].cap = vec.cap - HEADER
    BY <1>1 DEF Inv, PhaseOK, Borrowing
  <2>2. b.len = len /\ b.cap = blocks[list.ptr].cap
    BY <1>3 DEF Rep
  <2>3. c \in Nat
    BY <1>1, <1>2, <2>2, WordsForBounds, Borrowed
  <2>4. Larger(c)
    BY <1>3, <1>5, <2>1, <2>2 DEF Larger
  <2> QED BY <1>1, <1>5, <2>3, <2>4, MovesTracked
<1> QED BY <1>4, <1>5 DEF Shrink

(* The check of the borrowed block, whose capacity is right, fails just    *)
(* when a debug build looks at the last word of a list that has none.      *)
LEMMA CheckFails ==
  ASSUME Inv, Tracked, call.phase \in Borrowing, NEW h, h.len = call.before.len,
         h.cap = vec.cap - HEADER, h.len <= (vec.cap - HEADER) * WordSize
  PROVE  Check(h) <=> ~Broken
<1> DEFINE b == call.before
           last == IF words_for(h.len) = 0 THEN HEADER ELSE words_for(h.len) - 1 + HEADER
<1>1. call.phase # "none"
  BY DEF Borrowing
<1>2. Progress /\ IsZero(b) /\ debug \in BOOLEAN
  BY <1>1, DuringCall
<1>3. b.kind = "heap" /\ vec.len = words_for(b.len) + HEADER /\ b.len \in Nat
  BY <1>2 DEF Progress, IsZero
<1>4. words_for(b.len) \in Nat /\ (words_for(b.len) = 0 <=> b.len = 0)
  BY <1>3, WordsForBounds, WordsForZero, WordsForPositive
<1>5. last < vec.len <=> b.len # 0
  BY <1>3, <1>4 DEF HEADER
<1> HIDE DEF last
<1>6. h.cap * WordSize >= h.len
  <2>1. h.len \in Nat /\ h.cap \in Nat
    BY <1>3, Borrowed
  <2>2. h.cap * WordSize \in Nat
    BY <2>1, WordSizeType
  <2> QED BY <2>1, <2>2
<1>7. Check(h) <=> (debug => last < vec.len)
  BY <1>2, <1>6 DEF Check, last
<1> QED BY <1>2, <1>3, <1>5, <1>7 DEF Broken

(* The borrowed block has room for its length. *)
LEMMA BorrowedFits ==
  ASSUME Inv, call.phase \in Borrowing
  PROVE  blocks[vec.ptr].len <= (vec.cap - HEADER) * WordSize /\ blocks[vec.ptr].size = vec.cap
<1>1. vec.ptr \in Used \cup Owns(temp)
  BY Borrowed
<1> QED BY <1>1 DEF Inv, Sound, SizedIn

LEMMA SetVecTracked ==
  ASSUME Inv, Tracked, SetVec
  PROVE  Tracked' /\ Quiet
<1> DEFINE b == call.before
           h == update_capacity(blocks[vec.ptr])
<1>1. /\ call.phase = "set" /\ call.phase # "none" /\ call.phase \in Borrowing
      /\ UNCHANGED <<debug, list, temp, vec, out, args>> /\ blocks' = [blocks EXCEPT ![vec.ptr] = h]
      /\ Becomes(IF Check(h) THEN "drop_granted" ELSE "drop_unwinding")
  BY AtPhase DEF SetVec, Borrowing
<1>2. Progress /\ debug \in BOOLEAN
  BY <1>1, DuringCall
<1>3. /\ b.kind = "heap" /\ blocks[vec.ptr].len = b.len /\ vec.len = words_for(b.len) + HEADER
      /\ Larger(vec.cap - HEADER)
  BY <1>1, <1>2 DEF Progress
<1>4. vec.ptr \in Addresses /\ blocks[vec.ptr] \in Headers /\ blocks \in Memories
  BY <1>1, Borrowed DEF Inv, Sound
<1>5. h.len = b.len /\ h.cap = vec.cap - HEADER
  BY <1>3, <1>4 DEF Headers, update_capacity
<1>6. blocks'[vec'.ptr] = h
  BY <1>1, <1>4 DEF Memories
<1> HIDE DEF h
<1>7. h.len <= (vec.cap - HEADER) * WordSize
  BY <1>1, <1>3, <1>5, BorrowedFits
<1>8. Check(h) <=> ~Broken
  BY <1>1, <1>5, <1>7, CheckFails
<1>9. PICK phase \in {"drop_granted", "drop_unwinding"} :
        /\ Becomes(phase) /\ (phase = "drop_granted" => ~Broken)
        /\ (phase = "drop_unwinding" => Broken)
  BY <1>1, <1>8
<1>10. /\ Quiet /\ call'.phase = phase /\ call'.before = b /\ call'.op = call.op
       /\ call'.need = call.need /\ (Progress' => Tracked') /\ Broken' = Broken
  BY <1>1, <1>9, GoesTo DEF Phases, Borrowing
<1>11. Larger(vec.cap - HEADER)'
  BY <1>1, <1>3, <1>10 DEF Larger, Short, room
<1>12. blocks'[vec'.ptr].len = b.len /\ vec'.len = words_for(b.len) + HEADER
  BY <1>1, <1>3, <1>5, <1>6
<1>13. Progress'
  BY <1>3, <1>9, <1>10, <1>11, <1>12 DEF Progress, Borrowing
<1> QED BY <1>10, <1>13

LEMMA DropVecTracked ==
  ASSUME Inv, Tracked, DropVec
  PROVE  (Answers /\ out'.end = "abort") \/ (Tracked' /\ Quiet)
<1> DEFINE b == call.before
           h == blocks[vec.ptr]
<1>1. /\ call.phase \in {"drop_granted", "drop_refused", "drop_unwinding"}
      /\ call.phase # "none" /\ call.phase \in Borrowing /\ out.end # "abort"
  BY DEF DropVec, At, Borrowing
<1>2. Progress /\ debug \in BOOLEAN /\ IsZero(b) /\ call.need \in Nat
  BY <1>1, DuringCall
<1>3. /\ b.kind = "heap" /\ h.len = b.len /\ vec.len = words_for(b.len) + HEADER
      /\ h.cap = vec.cap - HEADER
  BY <1>1, <1>2 DEF Progress, Inv, PhaseOK
<1>4. Check(h) <=> ~Broken
  BY <1>1, <1>3, BorrowedFits, CheckFails
<1>5. /\ list.kind = "heap" /\ list \in Lists /\ vec.ptr \in Addresses
  BY <1>1, Borrowed DEF Inv
<1>6. ASSUME list' = taken_back(list, vec.ptr), blocks' = blocks
      PROVE  Rep' = Zero("heap", b.len, vec.cap - HEADER)
  <2>1. list'.kind = "heap" /\ list'.ptr = vec.ptr
    BY <1>5, <1>6 DEF taken_back, Lists
  <2> QED BY <1>3, <1>6, <2>1, RepForm DEF RepOf
<1>7. CASE call.phase = "drop_granted"
  <2>1. ~Broken /\ Larger(vec.cap - HEADER)
    BY <1>2, <1>7 DEF Progress
  <2>2. /\ list' = taken_back(list, vec.ptr) /\ Becomes("granted")
        /\ UNCHANGED <<debug, blocks, temp, out, args>>
    BY <1>4, <1>7, <2>1 DEF DropVec
  <2>3. /\ Quiet /\ call'.phase = "granted" /\ call'.before = b /\ call'.op = call.op
        /\ call'.need = call.need /\ (Progress' => Tracked') /\ Broken' = Broken
    BY <1>1, <2>2, GoesTo DEF Phases, Borrowing
  <2>4. Larger(vec.cap - HEADER) => \A c : c = vec.cap - HEADER => Larger(c)'
    BY <2>2, <2>3 DEF Larger, Short, room
  <2>5. \E c : Larger(c)' /\ Rep' = Zero("heap", b.len, c)
    BY <1>6, <2>1, <2>2, <2>4
  <2>6. Ready(Rep)'
    BY <1>3, <2>1, <2>3, <2>5 DEF Ready
  <2>7. Progress'
    BY <2>3, <2>6 DEF Progress, Borrowing
  <2> QED BY <2>3, <2>7
<1>8. CASE call.phase = "drop_refused"
  <2>1. Rep = b /\ call.op # "shrink_to_fit" /\ Short
    BY <1>2, <1>8 DEF Progress
  <2>2. vec.ptr = list.ptr
    BY <1>8 DEF Inv, PhaseOK
  <2>3. taken_back(list, vec.ptr) = list
    BY <1>5, <2>2 DEF taken_back, Lists
  <2>4. PICK phase \in {"refused", "panics"} :
          /\ list' = list /\ Becomes(phase)
          /\ (phase = "refused" => ~Broken) /\ (phase = "panics" => Broken)
          /\ UNCHANGED <<debug, blocks, temp, out, args>>
    <3>1. CASE Check(h)
      <4>1. /\ list' = list /\ Becomes("refused")
            /\ UNCHANGED <<debug, blocks, temp, out, args>>
        BY <1>8, <2>3, <3>1 DEF DropVec
      <4> QED BY <1>4, <3>1, <4>1
    <3>2. CASE ~Check(h)
      <4>1. /\ list' = list /\ Becomes("panics")
            /\ UNCHANGED <<debug, blocks, temp, out, args>>
        BY <1>8, <3>2 DEF DropVec
      <4> QED BY <1>4, <3>2, <4>1
    <3> QED BY <3>1, <3>2
  <2>5. /\ Quiet /\ call'.phase = phase /\ call'.before = b /\ call'.op = call.op
        /\ call'.need = call.need /\ (Progress' => Tracked') /\ Broken' = Broken
        /\ Short' = Short /\ Refusable' = Refusable
    BY <1>1, <2>4, GoesTo DEF Phases, Borrowing
  <2>6. Rep' = Rep
    BY <2>4 DEF Rep, len
  <2>7. phase = "refused" => Refusable
    BY <2>1, <2>4 DEF Refusable, Short
  <2>8. Progress'
    BY <2>1, <2>4, <2>5, <2>6, <2>7 DEF Progress, Borrowing
  <2> QED BY <2>5, <2>8
<1>9. CASE call.phase = "drop_unwinding"
  <2>1. Broken /\ Larger(vec.cap - HEADER)
    BY <1>2, <1>9 DEF Progress
  <2>2. Aborts(call.op, call.args)
    BY <1>4, <1>9, <2>1 DEF DropVec
  <2>3. call.op # "shrink_to_fit"
    BY <1>2, <2>1, DuringCall, <1>1, DataBitsType DEF Asked, Broken
  <2>4. Short /\ words_for(call.need) <= MaxWords
    <3>1. words_for(call.need) \in Nat /\ MaxWords \in Nat
      BY <1>2, WordsForBounds, BlocksAssumption
    <3> QED BY <2>1, <2>3, <3>1 DEF Larger
  <2>5. Possible(b, "none", "abort")
    BY <2>1, <2>3, <2>4 DEF Possible
  <2>6. Answers
    BY <1>1, <2>2, <2>5, AbortAnswers
  <2>7. out'.end = "abort"
    BY <2>2, AbortSees
  <2> QED BY <2>6, <2>7
<1> QED BY <1>1, <1>7, <1>8, <1>9

(* A call ends, otherwise. *)
LEMMA EndAnswers ==
  ASSUME Inv, Tracked, call.phase # "none", out.end # "abort", NEW q, NEW x, NEW e,
         Possible(q, x, e), Known(q), Rep' = q, Ends(call.op, call.args, x, e),
         call' = NoCall, UNCHANGED debug
  PROVE  Tracked' /\ Answers
<1>1. /\ call # NoCall /\ Known(call.before) /\ Asked
      /\ call.need \in Nat /\ debug \in BOOLEAN
  BY DuringCall
<1>2. Seen' = q /\ q.len <= MaxLen
  BY DEF Seen, Known
<1>3. ASSUME NEW d \in BOOLEAN, d = debug PROVE Abstract(d)!Next
  BY <1>1, <1>2, <1>3, PossibleIsStep
<1>4. Answers
  BY <1>1, <1>3, IsAnswer
<1>5. Tracked'
  BY <1>1 DEF Tracked, NoCall
<1> QED BY <1>4, <1>5

LEMMA LeavesEnds ==
  ASSUME NEW ret, NEW end, NEW B, Leaves(ret, end, B)
  PROVE  /\ Ends(call.op, call.args, ret, end) /\ call' = NoCall /\ UNCHANGED debug
         /\ blocks' = Dropped(B, temp)
BY DEF Leaves

(* What a call held goes without touching the block of the list. *)
LEMMA ListKept ==
  ASSUME Inv, call.phase \notin Borrowing, list.kind = "heap", NEW B
  PROVE  Dropped(B, temp)[list.ptr] = B[list.ptr]
<1>1. temp.kind = "heap" => temp.ptr # list.ptr
  BY NotBorrowed DEF Owns
<1> QED BY <1>1, ListBlock DEF Dropped, dealloc, Inv, Sound, Memories

LEMMA GrantedAnswers ==
  ASSUME Inv, Tracked, Granted
  PROVE  Tracked' /\ Answers
<1> DEFINE b == call.before
           q == Zero(Rep.kind, call.length, Rep.cap)
<1>1. call.phase = "granted" /\ call.phase # "none" /\ call.phase \notin Borrowing
      /\ out.end # "abort"
  BY AtPhase DEF Granted, Borrowing
<1>2. Progress /\ Known(b) /\ IsZero(b) /\ call.need \in Nat /\ call.length \in Nat
      /\ call.length <= MaxLen
  BY <1>1, DuringCall
<1>3. Ready(Rep)
  BY <1>1, <1>2 DEF Progress
<1>4. Possible(q, "done", "return")
  BY <1>3 DEF Possible
<1>5. Known(q)
  <2>1. b.cap \in Nat /\ b.cap <= MaxWords /\ b.len \in Nat /\ MaxWords \in Nat
    BY <1>2, BlocksAssumption DEF Known, IsZero
  <2>2. words_for(call.need) \in Nat /\ words_for(b.len) \in Nat
    BY <1>2, <2>1, WordsForBounds
  <2>3. CASE Rep = b
    BY <1>2, <2>3, ZeroIs DEF Known, IsZero
  <2>4. ASSUME NEW c \in Nat, c <= MaxWords, Rep = Zero("heap", b.len, c) PROVE Known(q)
    <3>1. q = Zero("heap", call.length, c)
      BY <2>4, ZeroIs
    <3> QED BY <1>2, <2>4, <3>1, KnownZero
  <2>5. \A c : Larger(c) => c \in Nat /\ c <= MaxWords
    BY <2>1, <2>2 DEF Larger
  <2>6. CASE words_for(call.need) <= MaxWords /\ Rep = Zero("heap", b.len, words_for(call.need))
    BY <2>2, <2>4, <2>6
  <2>7. ASSUME NEW c, Larger(c), Rep = Zero("heap", b.len, c) PROVE Known(q)
    BY <2>4, <2>5, <2>7
  <2> QED BY <1>3, <2>3, <2>6, <2>7 DEF Ready
<1>6. CASE list.kind = "inline"
  <2>1. list' = InlineList(call.length) /\ Leaves("done", "return", blocks)
    BY <1>6 DEF Granted
  <2>2. Rep.kind = "inline" /\ Rep.cap = 0
    BY <1>6 DEF Rep
  <2>3. Rep' = q
    BY <2>1, <2>2, RepForm, RepForms
  <2>4. Ends(call.op, call.args, "done", "return") /\ call' = NoCall /\ UNCHANGED debug
    BY <2>1, LeavesEnds
  <2> QED BY <1>1, <1>4, <1>5, <2>3, <2>4, EndAnswers
<1>7. CASE list.kind = "heap"
  <2> DEFINE B == [blocks EXCEPT ![list.ptr].len = call.length]
  <2>1. list' = list /\ Leaves("done", "return", B)
    BY <1>7 DEF Granted
  <2>2. list.ptr \in Addresses /\ blocks[list.ptr] \in Headers /\ blocks \in Memories
    BY <1>7, ListBlock DEF Inv, Sound
  <2>3. B[list.ptr].len = call.length /\ B[list.ptr].cap = blocks[list.ptr].cap
    BY <2>2 DEF Memories, Headers
  <2> HIDE DEF B
  <2>4. blocks'[list.ptr] = B[list.ptr]
    BY <1>1, <1>7, <2>1, ListKept, LeavesEnds
  <2>5. Rep.kind = "heap" /\ Rep.cap = blocks[list.ptr].cap
    BY <1>7 DEF Rep
  <2>6. Rep' = q
    BY <1>7, <2>1, <2>3, <2>4, <2>5, RepForm DEF RepOf
  <2>7. Ends(call.op, call.args, "done", "return") /\ call' = NoCall /\ UNCHANGED debug
    BY <2>1, LeavesEnds
  <2> QED BY <1>1, <1>4, <1>5, <2>6, <2>7, EndAnswers
<1> QED BY <1>6, <1>7 DEF Inv, Lists

LEMMA FailingAnswers ==
  ASSUME Inv, Tracked, Refused \/ Panicking
  PROVE  Tracked' /\ Answers
<1> DEFINE b == call.before
<1>1. call.phase \in {"refused", "panics"} /\ call.phase # "none" /\ call.phase \notin Borrowing
      /\ out.end # "abort"
  BY AtPhase DEF Refused, Panicking, Borrowing
<1>2. Progress /\ Known(b)
  BY <1>1, DuringCall
<1>3. Rep = b /\ call.op # "shrink_to_fit"
  BY <1>1, <1>2 DEF Progress
<1>4. ASSUME NEW x, NEW e, Leaves(x, e, blocks), list' = list PROVE Rep' = b
  <2>1. blocks' = Dropped(blocks, temp)
    BY <1>4, LeavesEnds
  <2>2. list.kind = "heap" => blocks'[list.ptr] = blocks[list.ptr]
    BY <1>1, <2>1, ListKept
  <2> QED BY <1>3, <1>4, <2>2 DEF Rep, len, Inv, Lists
<1>5. ASSUME NEW x, NEW e, Leaves(x, e, blocks), list' = list, Possible(b, x, e)
      PROVE  Tracked' /\ Answers
  <2>1. Ends(call.op, call.args, x, e) /\ call' = NoCall /\ UNCHANGED debug
    BY <1>5, LeavesEnds
  <2> QED BY <1>1, <1>2, <1>4, <1>5, <2>1, EndAnswers
<1>6. CASE Refused
  <2>1. Refusable
    BY <1>2, <1>6, AtPhase DEF Progress, Refused
  <2>2. CASE call.op = "try_reserve"
    <3>1. Possible(b, "err", "return")
      BY <1>3, <2>1, <2>2 DEF Possible
    <3> QED BY <1>5, <1>6, <2>2, <3>1 DEF Refused
  <2>3. CASE call.op # "try_reserve"
    <3>1. Possible(b, "none", "panic")
      BY <1>3, <2>1, <2>3 DEF Possible
    <3> QED BY <1>5, <1>6, <2>3, <3>1 DEF Refused
  <2> QED BY <2>2, <2>3
<1>7. CASE Panicking
  <2>1. Broken /\ Short
    BY <1>2, <1>7, AtPhase DEF Progress, Panicking
  <2>2. Possible(b, "none", "panic")
    BY <1>3, <2>1 DEF Possible
  <2> QED BY <1>5, <1>7, <2>2 DEF Panicking
<1> QED BY <1>6, <1>7

-----------------------------------------------------------------------------
(* The theorem. *)

LEMMA InitTracked ==
  ASSUME Init
  PROVE  Tracked
<1>1. Rep = Zero("inline", 0, 0)
  BY DEF Init, Rep, len, InlineList, Zero
<1>2. Known(Rep)
  BY <1>1, KnownZero, BlocksAssumption
<1> QED BY <1>2 DEF Init, Tracked, NoCall

LEMMA StepAnswers ==
  ASSUME Inv, Tracked, Next
  PROVE  /\ out'.end # "abort" => Tracked'
         /\ Quiet \/ Answers
<1>1. CASE Zeros
  BY <1>1, ZerosAnswers
<1>2. CASE Reverse
  BY <1>2, ReverseAnswers
<1>3. CASE Clear
  BY <1>3, ClearAnswers
<1>4. CASE Clone
  BY <1>4, CloneAnswers
<1>5. CASE TryReserve \/ Reserve \/ PushBits \/ ResizeHeap
  BY <1>5, AskingTracked
<1>6. CASE ResizeInline
  BY <1>6, ResizeInlineAnswers
<1>7. CASE Repeat
  BY <1>7, RepeatTracked
<1>8. CASE ShrinkToFit
  BY <1>8, ShrinkToFitTracked
<1>9. CASE RoomInline
  BY <1>9, RoomInlineTracked
<1>10. CASE RoomHeap
  BY <1>10, RoomHeapTracked
<1>11. CASE Grow
  BY <1>11, GrowTracked
<1>12. CASE Shrink
  BY <1>12, ShrinkTracked
<1>13. CASE SetVec
  BY <1>13, SetVecTracked
<1>14. CASE DropVec
  BY <1>14, DropVecTracked
<1>15. CASE Granted
  BY <1>15, GrantedAnswers
<1>16. CASE Refused \/ Panicking
  BY <1>16, FailingAnswers
<1> QED BY <1>1, <1>2, <1>3, <1>4, <1>5, <1>6, <1>7, <1>8, <1>9, <1>10, <1>11, <1>12, <1>13,
           <1>14, <1>15, <1>16 DEF Next

LEMMA NotAborted ==
  ASSUME Next
  PROVE  out.end # "abort"
BY DEF Next, Zeros, Reverse, Clear, Clone, TryReserve, Reserve, PushBits,
       ResizeInline, ResizeHeap, Repeat, ShrinkToFit, RoomInline, RoomHeap, Grow, Shrink,
       SetVec, DropVec, Granted, Refused, Panicking, Idle, At

LEMMA TrackedKeeps ==
  ASSUME TrackedInv, [Next]_vars
  PROVE  TrackedInv'
<1>1. IInv'
  BY NextKeeps DEF TrackedInv
<1>2. CASE Next
  BY <1>1, <1>2, NotAborted, StepAnswers DEF TrackedInv, IInv
<1>3. CASE UNCHANGED vars
  <2>0. UNCHANGED <<debug, blocks, list, vec, call>>
    BY <1>3 DEF vars
  <2>1. Tracked => Tracked'
    <3>1. Rep' = Rep
      BY <2>0 DEF Rep, len
    <3>2. Asked' = Asked
      BY <2>0 DEF Asked, Wants
    <3>3. Broken' = Broken /\ Short' = Short /\ Refusable' = Refusable
      BY <2>0 DEF Broken, Short, Refusable, room
    <3>4. Ready(Rep)' = Ready(Rep)
      BY <2>0, <3>1 DEF Ready, Larger, Short, Broken, room
    <3>5. Larger(vec.cap - HEADER)' = Larger(vec.cap - HEADER)
      BY <2>0 DEF Larger, Short, room
    <3>6. Progress' = Progress
      BY <2>0, <3>1, <3>3, <3>4, <3>5 DEF Progress
    <3>7. Known(Rep)' = Known(Rep) /\ Known(call.before)' = Known(call.before)
      BY <2>0, <3>1 DEF Known, IsZero
    <3> QED BY <2>0, <3>2, <3>6, <3>7 DEF Tracked
  <2>2. out' = out
    BY <1>3 DEF vars
  <2> QED BY <1>1, <2>1, <2>2 DEF TrackedInv
<1> QED BY <1>2, <1>3

LEMMA StepSimulates ==
  ASSUME TrackedInv, [Next]_vars
  PROVE  [Answers]_(Abstract(TRUE)!vars)
<1>1. Abstract(TRUE)!vars = <<Seen, out, args>> /\ (Abstract(TRUE)!vars)' = <<Seen', out', args'>>
  BY DEF Abstract!vars, Seen
<1>2. CASE Next
  <2>1. Quiet \/ Answers
    BY <1>2, NotAborted, StepAnswers DEF TrackedInv, IInv
  <2>2. Quiet => UNCHANGED Abstract(TRUE)!vars
    BY <1>1 DEF Quiet
  <2> QED BY <2>1, <2>2
<1>3. CASE UNCHANGED vars
  <2>1. UNCHANGED <<call, out, args>> /\ Rep' = Rep
    BY <1>3 DEF vars, Rep, len
  <2>2. Seen' = Seen
    BY <2>1 DEF Seen
  <2> QED BY <1>1, <2>1, <2>2
<1> QED BY <1>2, <1>3

(* Whatever the allocator answers and whichever calls are made, a call     *)
(* that borrows its block, moves it, is refused, panics or unwinds is, to  *)
(* the owner of the list, one step that BitList allows: the same outcome,  *)
(* length and capacity, in debug and release builds (heap.rs:125-196,      *)
(* ops.rs:315-336).                                                        *)
THEOREM BlocksImplementList == Spec => ImplementsBitList
<1>1. Init => TrackedInv
  BY InitInv, InitTracked DEF TrackedInv
<1>2. TrackedInv /\ [Next]_vars => TrackedInv'
  BY TrackedKeeps
<1>3. TrackedInv /\ [Next]_vars => [Answers]_(Abstract(TRUE)!vars)
  BY StepSimulates
<1> QED BY <1>1, <1>2, <1>3, PTL DEF Spec, ImplementsBitList, Answers
=============================================================================
