--------------------------- MODULE MemoryManager ---------------------------
(***************************************************************************)
(* The kernel heap (source/memory_management.cpp): one doubly linked list  *)
(* of chunks that tiles the heap, searched first-fit by malloc, split when *)
(* the chunk found is large enough, and coalesced with both neighbours by  *)
(* free.  Addresses and sizes are the numbers of the code and every sum is *)
(* taken modulo the word size, as the code's 32-bit size_t takes it.       *)
(*                                                                         *)
(* The loop of malloc is modelled one iteration per step, so that the      *)
(* search itself has an invariant; the rest of malloc is the step that     *)
(* leaves the loop.  free has no loop and is one step.  A chunk header is  *)
(* an entry of heap; an address that holds no header is not in its domain. *)
(***************************************************************************)
EXTENDS Integers

CONSTANTS
  HeapStart,    (* constructor argument start                              *)
  HeapSize,     (* constructor argument size                               *)
  ChunkHeader,  (* sizeof(MemoryChunk), 16 on i386                         *)
  WordSize,     (* 2^32                                                    *)
  Requests      (* the sizes callers ask for                               *)

(* The heap is a range of addresses: it does not run past the last one.    *)
ASSUME HeapAssumption ==
  /\ HeapStart \in Nat \ {0}
  /\ HeapSize \in Nat
  /\ ChunkHeader \in Nat \ {0}
  /\ WordSize \in Nat
  /\ HeapStart + HeapSize < WordSize
  /\ Requests \subseteq 0 .. WordSize - 1

VARIABLES
  first,     (* MemoryManager::first                                       *)
  heap,      (* header address |-> MemoryChunk                             *)
  pc,        (* "idle", or "search" while malloc runs                      *)
  request,   (* malloc's parameter size                                    *)
  chunk,     (* malloc's loop variable                                     *)
  result,    (* malloc's local result                                      *)
  live       (* history: block address |-> size its holder asked for       *)

mallocVars == <<pc, request, chunk, result>>
vars == <<first, heap, pc, request, chunk, result, live>>

NULL == 0
Word == 0 .. WordSize - 1
HeapEnd == HeapStart + HeapSize

MemoryChunk == [next : Word, prev : Word, allocated : BOOLEAN, size : Word]

Chunks == DOMAIN heap
Payload(c) == c + ChunkHeader            (* the address handed to callers  *)
-----------------------------------------------------------------------------
(* The constructor: no chunk at all in a heap too small for one header.    *)
Init ==
  /\ IF HeapSize < ChunkHeader
     THEN first = NULL /\ heap = [c \in {} |-> {}]
     ELSE /\ first = HeapStart
          /\ heap = [c \in {HeapStart} |->
                       [next |-> NULL, prev |-> NULL, allocated |-> FALSE,
                        size |-> HeapSize - ChunkHeader]]
  /\ pc = "idle" /\ request = 0 /\ chunk = NULL /\ result = NULL
  /\ live = [p \in {} |-> 0]

(***************************************************************************)
(* malloc                                                                  *)
(***************************************************************************)

(* Mutants: the test forgets that a chunk may be taken; it asks for room   *)
(* for a second header although the chunk need not be split.               *)
FitsTaken(c, n) == heap[c].size > n
FitsWithHeader(c, n) == heap[c].size > n + ChunkHeader /\ ~heap[c].allocated

(* The test of the search loop.                                            *)
Fits(c, n) == heap[c].size > n /\ ~heap[c].allocated

(* Is there room for a second header and at least one byte behind n bytes? *)
LeavesRoom(c, n) == heap[c].size >= (n + ChunkHeader + 1) % WordSize

(* Mutant: the chunk after the new one keeps its old prev.                 *)
SplitForgetsPrev(c, n) ==
  LET temp == c + ChunkHeader + n
  IN  [a \in Chunks \cup {temp} |->
         CASE a = temp -> [next |-> heap[c].next, prev |-> c, allocated |-> FALSE,
                           size |-> heap[c].size - n - ChunkHeader]
           [] a = c    -> [next |-> temp, prev |-> heap[c].prev,
                           allocated |-> TRUE, size |-> n]
           [] OTHER    -> heap[a]]

(* The heap after n bytes of c are taken and the rest becomes a new chunk. *)
Split(c, n) ==
  LET temp  == (c + ChunkHeader + n) % WordSize
      after == heap[c].next
  IN  [a \in Chunks \cup {temp} |->
         CASE a = temp  -> [next |-> after, prev |-> c, allocated |-> FALSE,
                            size |-> (heap[c].size - n - ChunkHeader) % WordSize]
           [] a = c /\ a # temp -> [next |-> temp, prev |-> heap[c].prev,
                            allocated |-> TRUE, size |-> n]
           [] a = after /\ a \notin {c, temp} -> [heap[a] EXCEPT !.prev = temp]
           [] OTHER     -> heap[a]]

Take(c, n) ==
  IF LeavesRoom(c, n) THEN Split(c, n)
                      ELSE [heap EXCEPT ![c].allocated = TRUE]

(* A caller enters malloc and the loop variable is initialised.            *)
MallocCall(n) ==
  /\ pc = "idle"
  /\ pc' = "search" /\ request' = n /\ chunk' = first /\ result' = NULL
  /\ UNCHANGED <<first, heap, live>>

(* Mutant: only an iteration that found a chunk advances.                  *)
MallocLoopStays ==
  /\ pc = "search" /\ chunk # NULL /\ result = NULL
  /\ result' = IF Fits(chunk, request) THEN chunk ELSE NULL
  /\ chunk' = IF Fits(chunk, request) THEN heap[chunk].next ELSE chunk
  /\ UNCHANGED <<first, heap, pc, request, live>>

(* One iteration: the loop advances also past the chunk it has just found. *)
MallocLoop ==
  /\ pc = "search" /\ chunk # NULL /\ result = NULL
  /\ result' = IF Fits(chunk, request) THEN chunk ELSE NULL
  /\ chunk' = heap[chunk].next
  /\ UNCHANGED <<first, heap, pc, request, live>>

MallocNull ==
  /\ pc = "search" /\ chunk = NULL /\ result = NULL
  /\ pc' = "idle"
  /\ UNCHANGED <<first, heap, request, chunk, result, live>>

MallocTake ==
  /\ pc = "search" /\ result # NULL
  /\ heap' = Take(result, request)
  /\ live' = [p \in DOMAIN live \cup {Payload(result)} |->
                IF p = Payload(result) THEN request ELSE live[p]]
  /\ pc' = "idle" /\ chunk' = NULL /\ result' = NULL
  /\ UNCHANGED <<first, request>>

(***************************************************************************)
(* free                                                                    *)
(***************************************************************************)

(* Mutants: the header of the swallowed chunk is lost; a still points at b.*)
MergeLosesHeader(h, a, b) ==
  [c \in DOMAIN h \ {b} |->
     CASE c = a -> [h[a] EXCEPT !.size = @ + h[b].size, !.next = h[b].next]
       [] c = h[b].next -> [h[c] EXCEPT !.prev = a]
       [] OTHER -> h[c]]
MergeKeepsNext(h, a, b) ==
  [c \in DOMAIN h \ {b} |->
     CASE c = a -> [h[a] EXCEPT !.size = @ + h[b].size + ChunkHeader]
       [] c = h[b].next -> [h[c] EXCEPT !.prev = a]
       [] OTHER -> h[c]]

(* The list h after chunk a has swallowed its successor b.                 *)
Merge(h, a, b) ==
  [c \in DOMAIN h \ {b} |->
     CASE c = a -> [h[a] EXCEPT !.size = (@ + h[b].size + ChunkHeader) % WordSize,
                                !.next = h[b].next]
       [] c = h[b].next /\ c # a -> [h[c] EXCEPT !.prev = a]
       [] OTHER -> h[c]]

(* Is n, a neighbour's address taken from a header of h, a free chunk?     *)
IsFree(h, n) == n # NULL /\ ~h[n].allocated

(* free's first half: the chunk is marked free and joins a free one before *)
(* it.  The value is the list and the chunk that now holds the free bytes. *)
Freed(c) ==
  LET h == [heap EXCEPT ![c].allocated = FALSE]
      p == h[c].prev
  IN  IF IsFree(h, p) THEN [list |-> Merge(h, p, c), at |-> p]
                      ELSE [list |-> h, at |-> c]

(* free's second half: that chunk swallows a free one after it.            *)
Coalesce(f) ==
  LET n == f.list[f.at].next
  IN  IF IsFree(f.list, n) THEN Merge(f.list, f.at, n) ELSE f.list

(* free(p), called only by a holder of the block, outside malloc: nothing  *)
(* in the kernel frees from an interrupt handler.                          *)
Free(p) ==
  /\ pc = "idle"
  /\ heap' = Coalesce(Freed(p - ChunkHeader))
  /\ live' = [q \in DOMAIN live \ {p} |-> live[q]]
  /\ UNCHANGED <<first, pc, request, chunk, result>>
-----------------------------------------------------------------------------
MallocStep == MallocLoop \/ MallocNull \/ MallocTake

Next ==
  \/ \E n \in Requests : MallocCall(n)
  \/ MallocStep
  \/ \E p \in DOMAIN live : Free(p)

Spec == Init /\ [][Next]_vars

(* A call that has entered malloc keeps executing.                         *)
FairSpec == Spec /\ WF_vars(MallocStep)
-----------------------------------------------------------------------------
(***************************************************************************)
(* Properties.                                                             *)
(***************************************************************************)

(* Every header of h lies at an address and has the fields of MemoryChunk. *)
IsList(h) == DOMAIN h \subseteq Word /\ h \in [DOMAIN h -> MemoryChunk]

(* Every variable has its C++ type, and the pointers of malloc always      *)
(* point at headers that exist.                                            *)
TypeOK ==
  /\ IsList(heap)
  /\ first \in Chunks \cup {NULL}
  /\ pc \in {"idle", "search"}
  /\ request \in Word
  /\ chunk \in Chunks \cup {NULL}
  /\ result \in Chunks \cup {NULL}
  /\ DOMAIN live \subseteq Word /\ live \in [DOMAIN live -> Word]

(* Walking next from the first chunk of list h visits chunks that lie back *)
(* to back from the first byte of the heap to the last: no byte is lost    *)
(* between two chunks, none belongs to two, no chunk reaches outside.      *)
EndOf(h, c) == c + ChunkHeader + h[c].size

Tiled(h) ==
  /\ DOMAIN h # {} => HeapStart \in DOMAIN h
  /\ \A c \in DOMAIN h :
       /\ HeapStart <= c /\ EndOf(h, c) <= HeapEnd
       /\ h[c].next = IF EndOf(h, c) = HeapEnd THEN NULL ELSE EndOf(h, c)
       /\ h[c].next # NULL => h[c].next \in DOMAIN h
       /\ \A d \in DOMAIN h : c < d => EndOf(h, c) <= d

(* The prev pointers are the inverse of the next pointers: what free needs *)
(* to join a chunk to the one before it.                                   *)
BackLinked(h) ==
  \A c \in DOMAIN h :
    IF c = HeapStart THEN h[c].prev = NULL
    ELSE h[c].prev \in DOMAIN h /\ h[h[c].prev].next = c

(* The blocks of l, as callers see them, are the allocated chunks of h, and*)
(* each is at least as large as its caller asked.                          *)
Backed(h, l) ==
  /\ \A p \in DOMAIN l :
       /\ p - ChunkHeader \in DOMAIN h
       /\ h[p - ChunkHeader].allocated
       /\ l[p] <= h[p - ChunkHeader].size
  /\ \A c \in DOMAIN h : h[c].allocated => Payload(c) \in DOMAIN l

(* No two free chunks side by side in h, except behind a chunk of X.       *)
NoFreePair(h, X) ==
  \A c \in DOMAIN h \ X :
    ~h[c].allocated /\ h[c].next # NULL => h[h[c].next].allocated

(* The list is what malloc and free both rely on, after any sequence of    *)
(* calls: it tiles the heap, its two directions agree, every block in use  *)
(* is backed by a chunk of its own, and free has coalesced all it could.   *)
HeapInvariant ==
  /\ Chunks # {} => first = HeapStart
  /\ Tiled(heap)
  /\ BackLinked(heap)
  /\ Backed(heap, live)
  /\ NoFreePair(heap, {})

(* Whatever the order of mallocs and frees was, once every block has been  *)
(* given back the heap is again the single free chunk the constructor made.*)
FreedHeapIsWhole ==
  (live = [p \in {} |-> 0] /\ Chunks # {}) =>
    heap = [c \in {HeapStart} |->
              [next |-> NULL, prev |-> NULL, allocated |-> FALSE,
               size |-> HeapSize - ChunkHeader]]

(* While malloc searches, every chunk it has passed is too small or taken: *)
(* the chunk it ends up with is the one at the lowest address that fits.   *)
FirstFit ==
  pc = "search" =>
    \A c \in Chunks :
      (IF result # NULL THEN c < result ELSE chunk = NULL \/ c < chunk)
        => heap[c].allocated \/ heap[c].size <= request

(* malloc returns nullptr only when no free chunk is larger than request.  *)
NullOnlyWhenNothingFits ==
  [][pc = "search" /\ pc' = "idle" /\ live' = live =>
       \A c \in Chunks : heap[c].allocated \/ heap[c].size <= request]_vars

(* The search loop ends: every call of malloc returns.                     *)
MallocReturns == pc = "search" ~> pc = "idle"

(* The blocks callers hold behave as HeapContract says.                    *)
Contract == INSTANCE HeapContract
HeapContractHolds == Contract!Spec
=============================================================================
