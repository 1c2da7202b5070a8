------------------------ MODULE MemoryManagerProofs ------------------------
(***************************************************************************)
(* Theorems about MemoryManager for every heap, header size, word size and *)
(* set of requests.  The inductive invariant is the type invariant, the    *)
(* shape of the list (HeapInvariant), the progress of the search (FirstFit)*)
(* and what malloc knows of the chunk it has found (ResultFits).           *)
(***************************************************************************)
EXTENDS MemoryManager, TLAPS

(* A chunk malloc has settled on fits what a caller asked for, and malloc's*)
(* locals live while it runs.                                              *)
ResultFits ==
  /\ result # NULL => Fits(result, request)
  /\ pc = "search" => request \in Requests
  /\ pc = "idle" => chunk = NULL /\ result = NULL

IInv == TypeOK /\ HeapInvariant /\ FirstFit /\ ResultFits

(* Header, links and sizes of h hang together: what every lemma starts from. *)
Sound(h) == IsList(h) /\ Tiled(h) /\ BackLinked(h)
-----------------------------------------------------------------------------
(* Arithmetic modulo the word leaves words as they are.                    *)
LEMMA WordArithmetic == \A a \in Word : a % WordSize = a
  BY HeapAssumption, SMT DEF Word

(* A sound list consists of chunks inside the heap.                        *)
LEMMA ChunkBounds ==
  ASSUME NEW h, Sound(h), NEW c \in DOMAIN h
  PROVE  /\ c \in Nat /\ c # NULL /\ h[c] \in MemoryChunk
         /\ h[c].size \in Nat /\ EndOf(h, c) \in Word /\ EndOf(h, c) <= HeapEnd
         /\ c < EndOf(h, c)
         /\ h[c].next \in Nat /\ h[c].prev \in Nat
         /\ HeapStart <= c
  <1>1. c \in Word /\ h[c] \in MemoryChunk
    BY DEF Sound, IsList
  <1>2. /\ h[c].size \in Word /\ h[c].next \in Word /\ h[c].prev \in Word
    BY <1>1 DEF MemoryChunk
  <1>3. HeapStart <= c /\ EndOf(h, c) <= HeapEnd
    BY DEF Sound, Tiled
  <1> QED BY <1>1, <1>2, <1>3, HeapAssumption DEF Word, EndOf, HeapEnd, NULL

(* Splitting a free chunk that leaves room adds one header, that of the    *)
(* rest, and changes nothing else but the links around it.                 *)
LEMMA SplitFields ==
  ASSUME Sound(heap), NEW c \in Chunks, NEW n \in Word,
         Fits(c, n), LeavesRoom(c, n)
  PROVE  LET h == Split(c, n)
             t == c + ChunkHeader + n
         IN  /\ t \notin Chunks /\ t \in Word /\ t > c
             /\ n + ChunkHeader < heap[c].size
             /\ DOMAIN h = Chunks \cup {t}
             /\ h[t] = [next |-> heap[c].next, prev |-> c, allocated |-> FALSE,
                        size |-> heap[c].size - n - ChunkHeader]
             /\ h[c] = [next |-> t, prev |-> heap[c].prev, allocated |-> TRUE,
                        size |-> n]
             /\ \A a \in Chunks \ {c} :
                  h[a] = IF a = heap[c].next THEN [heap[a] EXCEPT !.prev = t]
                                             ELSE heap[a]
  <1> DEFINE t == c + ChunkHeader + n
  <1>0. /\ c \in Nat /\ n \in Nat /\ ChunkHeader \in Nat \ {0}
        /\ heap[c].size \in Nat /\ EndOf(heap, c) < WordSize
        /\ heap[c].size > n
    BY ChunkBounds, HeapAssumption DEF Chunks, Word, Fits
  <1>1. t \in Word /\ n + ChunkHeader + 1 \in Word
    BY <1>0, HeapAssumption, ChunkBounds DEF EndOf, Word, NULL, Chunks
  <1>2. n + ChunkHeader + 1 <= heap[c].size
    BY <1>1, WordArithmetic DEF LeavesRoom
  <1>3. heap[c].size - n - ChunkHeader \in Word
    BY <1>0, <1>2, HeapAssumption DEF EndOf, Word
  <1>4. t \notin Chunks /\ t > c
    <2>1. \A d \in Chunks : c < d => EndOf(heap, c) <= d
      BY DEF Sound, Tiled, Chunks
    <2>2. c < t /\ t < EndOf(heap, c)
      BY <1>0, <1>2 DEF EndOf
    <2> QED BY <2>1, <2>2, <1>0, <1>1 DEF EndOf, Word
  <1>5. t % WordSize = t /\ (heap[c].size - n - ChunkHeader) % WordSize
                             = heap[c].size - n - ChunkHeader
    BY <1>1, <1>3, WordArithmetic
  <1>6. heap[c].next # t /\ heap[c].next # c
    <2>1. heap[c].next = NULL \/ heap[c].next = EndOf(heap, c)
      BY DEF Sound, Tiled, Chunks
    <2> QED BY <2>1, <1>0, <1>2, <1>4, ChunkBounds DEF EndOf, NULL, Chunks
  <1>7. Split(c, n) =
          [a \in Chunks \cup {t} |->
             CASE a = t -> [next |-> heap[c].next, prev |-> c, allocated |-> FALSE,
                            size |-> heap[c].size - n - ChunkHeader]
               [] a = c /\ a # t -> [next |-> t, prev |-> heap[c].prev,
                            allocated |-> TRUE, size |-> n]
               [] a = heap[c].next /\ a \notin {c, t} -> [heap[a] EXCEPT !.prev = t]
               [] OTHER -> heap[a]]
    BY <1>5 DEF Split
  <1>8. c # t BY <1>4, <1>0, <1>1 DEF Word
  <1>9. /\ DOMAIN Split(c, n) = Chunks \cup {t}
        /\ Split(c, n)[t] = [next |-> heap[c].next, prev |-> c, allocated |-> FALSE,
                             size |-> heap[c].size - n - ChunkHeader]
        /\ Split(c, n)[c] = [next |-> t, prev |-> heap[c].prev, allocated |-> TRUE,
                             size |-> n]
        /\ \A a \in Chunks \ {c} : Split(c, n)[a] =
             IF a = heap[c].next THEN [heap[a] EXCEPT !.prev = t] ELSE heap[a]
    BY <1>4, <1>6, <1>7, <1>8, Zenon
  <1> QED BY <1>1, <1>2, <1>4, <1>9, <1>0

(* Splitting keeps the list sound.                                         *)
LEMMA SplitSound ==
  ASSUME Sound(heap), NEW c \in Chunks, NEW n \in Word,
         Fits(c, n), LeavesRoom(c, n)
  PROVE  Sound(Split(c, n))
  <1> DEFINE h == Split(c, n)
             t == c + ChunkHeader + n
             e == heap[c].next
  <1>1. /\ t \notin Chunks /\ t \in Word /\ t > c
        /\ n + ChunkHeader < heap[c].size
        /\ DOMAIN h = Chunks \cup {t}
        /\ h[t] = [next |-> e, prev |-> c, allocated |-> FALSE,
                   size |-> heap[c].size - n - ChunkHeader]
        /\ h[c] = [next |-> t, prev |-> heap[c].prev, allocated |-> TRUE, size |-> n]
        /\ \A a \in Chunks \ {c} :
             h[a] = IF a = e THEN [heap[a] EXCEPT !.prev = t] ELSE heap[a]
    BY SplitFields
  <1> HIDE DEF h, t, e
  <1>2. \A a \in Chunks : /\ a \in Nat \ {0} /\ heap[a] \in MemoryChunk
                          /\ heap[a].size \in Nat
                          /\ EndOf(heap, a) \in Nat /\ EndOf(heap, a) <= HeapEnd
                          /\ a < EndOf(heap, a) /\ HeapStart <= a
                          /\ heap[a].next \in Nat /\ heap[a].prev \in Nat
    BY ChunkBounds DEF Chunks, NULL, Word
  <1>3. /\ \A a \in Chunks \ {c} :
             /\ h[a].next = heap[a].next /\ h[a].size = heap[a].size
             /\ h[a].allocated = heap[a].allocated
             /\ h[a].prev = IF a = e THEN t ELSE heap[a].prev
        /\ h[t].next = e /\ h[t].prev = c /\ h[t].size = heap[c].size - n - ChunkHeader
        /\ h[c].next = t /\ h[c].prev = heap[c].prev /\ h[c].size = n
    <2>1. \A a \in Chunks : heap[a] \in MemoryChunk
      BY <1>2
    <2> QED BY <1>1, <2>1 DEF MemoryChunk
  <1>4. ChunkHeader \in Nat \ {0} /\ n \in Nat /\ t \in Nat /\ HeapStart \in Nat
        /\ HeapEnd \in Nat /\ HeapEnd < WordSize
    BY <1>1, HeapAssumption DEF Word, HeapEnd
  <1>5. IsList(h)
    <2>1. \A a \in Chunks \ {c} : h[a] \in MemoryChunk
      BY <1>1, <1>2 DEF MemoryChunk
    <2>2. h[t] \in MemoryChunk /\ h[c] \in MemoryChunk
      <3>1. heap[c].next \in Word /\ heap[c].prev \in Word /\ c \in Word
        BY <1>2, ChunkBounds DEF MemoryChunk, Sound, IsList, Chunks
      <3>2. heap[c].size - n - ChunkHeader \in Word
        BY <1>1, <1>2, <1>4, HeapAssumption DEF EndOf, Word
      <3> QED BY <1>1, <3>1, <3>2 DEF MemoryChunk, e
    <2>3. h = [a \in DOMAIN h |-> h[a]]
      BY DEF h, Split
    <2>4. DOMAIN h \subseteq Word
      BY <1>1 DEF Sound, IsList, Chunks
    <2> QED BY <1>1, <2>1, <2>2, <2>3, <2>4 DEF IsList
  <1>6. /\ EndOf(h, t) = EndOf(heap, c) /\ EndOf(h, c) = t
        /\ \A a \in Chunks \ {c} : EndOf(h, a) = EndOf(heap, a)
    BY <1>2, <1>3, <1>4 DEF EndOf, t
  <1>7. /\ DOMAIN h # {} => HeapStart \in DOMAIN h
        /\ \A a \in DOMAIN h :
             /\ HeapStart <= a /\ EndOf(h, a) <= HeapEnd
             /\ h[a].next = IF EndOf(h, a) = HeapEnd THEN NULL ELSE EndOf(h, a)
             /\ h[a].next # NULL => h[a].next \in DOMAIN h
             /\ \A d \in DOMAIN h : a < d => EndOf(h, a) <= d
    <2>1. /\ HeapStart \in Chunks
          /\ \A a \in Chunks :
             /\ heap[a].next = IF EndOf(heap, a) = HeapEnd THEN NULL ELSE EndOf(heap, a)
             /\ heap[a].next # NULL => heap[a].next \in Chunks
             /\ \A d \in Chunks : a < d => EndOf(heap, a) <= d
      BY DEF Sound, Tiled, Chunks
    <2>2. t < EndOf(heap, c)
      BY <1>1, <1>2, <1>4 DEF EndOf, t
    <2>3. \A a \in Chunks : a < t => a <= c
      BY <2>1, <2>2, <1>2, <1>4
    <2>4. \A a \in DOMAIN h, d \in DOMAIN h : a < d => EndOf(h, a) <= d
      BY <2>1, <2>2, <2>3, <1>1, <1>2, <1>4, <1>6
    <2>5. \A a \in DOMAIN h : /\ HeapStart <= a /\ EndOf(h, a) <= HeapEnd
      <3>1. \A a \in Chunks \ {c} : HeapStart <= a /\ EndOf(h, a) <= HeapEnd
        BY <1>2, <1>6
      <3>2. HeapStart <= c /\ EndOf(h, c) <= HeapEnd
        BY <2>2, <1>2, <1>4, <1>6
      <3>3. HeapStart <= t /\ EndOf(h, t) <= HeapEnd
        BY <3>2, <1>1, <1>2, <1>4, <1>6
      <3> QED BY <3>1, <3>2, <3>3, <1>1
    <2>6. \A a \in DOMAIN h :
             h[a].next = IF EndOf(h, a) = HeapEnd THEN NULL ELSE EndOf(h, a)
      <3>1. \A a \in Chunks \ {c} :
              h[a].next = IF EndOf(h, a) = HeapEnd THEN NULL ELSE EndOf(h, a)
        BY <2>1, <1>3, <1>6
      <3>2. h[t].next = IF EndOf(h, t) = HeapEnd THEN NULL ELSE EndOf(h, t)
        BY <2>1, <1>3, <1>6 DEF e
      <3>3. EndOf(h, c) # HeapEnd
        BY <2>2, <1>2, <1>4, <1>6
      <3> QED BY <3>1, <3>2, <3>3, <1>1, <1>3, <1>6
    <2>7. \A a \in DOMAIN h : h[a].next # NULL => h[a].next \in DOMAIN h
      BY <2>1, <1>1, <1>3 DEF e
    <2> QED BY <1>1, <2>1, <2>4, <2>5, <2>6, <2>7
  <1>8. \A a \in DOMAIN h :
          IF a = HeapStart THEN h[a].prev = NULL
          ELSE h[a].prev \in DOMAIN h /\ h[h[a].prev].next = a
    <2>1. \A a \in Chunks :
            IF a = HeapStart THEN heap[a].prev = NULL
            ELSE heap[a].prev \in Chunks /\ heap[heap[a].prev].next = a
      BY DEF Sound, BackLinked, Chunks
    <2>2. e # HeapStart /\ t # HeapStart /\ c # t
      <3>1. e = NULL \/ e = EndOf(heap, c)
        BY DEF Sound, Tiled, Chunks, e
      <3> QED BY <3>1, <1>1, <1>2, <1>4, HeapAssumption DEF NULL
    <2>3. ASSUME NEW a \in Chunks, a # HeapStart, a # c, a # e
          PROVE  /\ h[a].prev \in DOMAIN h
                 /\ h[h[a].prev].next = a
      <3>1. heap[a].prev # c
        BY <2>1, <2>3 DEF e
      <3> QED BY <3>1, <2>1, <2>3, <1>1, <1>3
    <2>4. ASSUME c # HeapStart
          PROVE  /\ h[c].prev \in DOMAIN h
                 /\ h[h[c].prev].next = c
      <3>1. heap[c].prev # c
        BY <2>1, <2>4, <1>2, ChunkBounds DEF Sound, Tiled, Chunks, NULL
      <3> QED BY <3>1, <2>1, <2>4, <1>1, <1>3
    <2>5. e \in Chunks => h[e].prev = t /\ h[t].next = e
      BY <1>1, <1>3, <1>2, <2>1, ChunkBounds DEF Sound, Tiled, Chunks, NULL, e
    <2> QED BY <2>1, <2>2, <2>3, <2>4, <2>5, <1>1, <1>3
  <1> QED BY <1>5, <1>7, <1>8 DEF Sound, Tiled, BackLinked, h

(* m is list h after chunk a has taken its successor b: one header is gone,*)
(* and nothing else has changed but the size of a and the links around it. *)
Merged(m, h, a, b) ==
  /\ b \in DOMAIN h /\ a < b /\ a # b /\ EndOf(h, a) = b
  /\ m \in [DOMAIN h \ {b} -> MemoryChunk]
  /\ DOMAIN m = DOMAIN h \ {b}
  /\ m[a].next = h[b].next /\ m[a].prev = h[a].prev
  /\ m[a].allocated = h[a].allocated
  /\ m[a].size = h[a].size + h[b].size + ChunkHeader
  /\ \A c \in DOMAIN h \ {a, b} :
       /\ m[c].next = h[c].next /\ m[c].size = h[c].size
       /\ m[c].allocated = h[c].allocated
       /\ m[c].prev = IF c = h[b].next THEN a ELSE h[c].prev

(* What Merge computes.                                                    *)
LEMMA MergeFields ==
  ASSUME NEW h, Sound(h), NEW a \in DOMAIN h, h[a].next # NULL
  PROVE  Merged(Merge(h, a, h[a].next), h, a, h[a].next)
  <1> DEFINE b == h[a].next
             m == Merge(h, a, b)
             s == h[a].size + h[b].size + ChunkHeader
  <1>1. b \in DOMAIN h /\ EndOf(h, a) = b
    BY DEF Sound, Tiled
  <1>2. \A c \in DOMAIN h : h[c] \in MemoryChunk /\ c \in Word
    BY DEF Sound, IsList
  <1>3. a \in Nat /\ a < b /\ b < EndOf(h, b)
    BY <1>1, ChunkBounds
  <1>4. s \in Word /\ (h[a].size + h[b].size + ChunkHeader) % WordSize = s
    <2>1. s \in Word
      BY <1>1, <1>2, ChunkBounds, HeapAssumption DEF EndOf, Word, NULL
    <2> QED BY <2>1, WordArithmetic
  <1>5. h[b].next # a /\ h[b].next \in Word
    <2>1. h[b].next = NULL \/ h[b].next = EndOf(h, b)
      BY <1>1 DEF Sound, Tiled
    <2>2. h[b].next # a
      BY <2>1, <1>1, <1>3, ChunkBounds DEF NULL
    <2> QED BY <2>2, <1>1, <1>2 DEF MemoryChunk
  <1>6. m = [c \in DOMAIN h \ {b} |->
               CASE c = a -> [h[a] EXCEPT !.size = s, !.next = h[b].next]
                 [] c = h[b].next /\ c # a -> [h[c] EXCEPT !.prev = a]
                 [] OTHER -> h[c]]
    BY <1>4 DEF Merge
  <1>7. /\ DOMAIN m = DOMAIN h \ {b}
        /\ m[a] = [h[a] EXCEPT !.size = s, !.next = h[b].next]
        /\ \A c \in DOMAIN h \ {a, b} :
             m[c] = IF c = h[b].next THEN [h[c] EXCEPT !.prev = a] ELSE h[c]
    <2>1. a # b BY <1>3
    <2> QED BY <1>6, <2>1, Zenon
  <1>8. m = [c \in DOMAIN h \ {b} |-> m[c]]
    BY <1>6, Zenon
  <1> HIDE DEF m
  <1>9. a \in DOMAIN h \ {b} /\ a \in Word
    BY <1>2, <1>3
  <1>10. /\ m[a] \in MemoryChunk /\ m[a].next = h[b].next /\ m[a].prev = h[a].prev
         /\ m[a].allocated = h[a].allocated /\ m[a].size = s
    <2>1. h[a] \in MemoryChunk
      BY <1>2
    <2> HIDE DEF s
    <2> QED BY <2>1, <1>4, <1>5, <1>7 DEF MemoryChunk
  <1>11. ASSUME NEW c \in DOMAIN h \ {a, b}
         PROVE  /\ m[c] \in MemoryChunk
                /\ m[c].next = h[c].next /\ m[c].size = h[c].size
                /\ m[c].allocated = h[c].allocated
                /\ m[c].prev = IF c = h[b].next THEN a ELSE h[c].prev
    <2>1. h[c] \in MemoryChunk
      BY <1>2
    <2>2. m[c] = IF c = h[b].next THEN [h[c] EXCEPT !.prev = a] ELSE h[c]
      BY <1>7
    <2> QED BY <2>1, <2>2, <1>9 DEF MemoryChunk
  <1>12. m \in [DOMAIN h \ {b} -> MemoryChunk]
    BY <1>8, <1>10, <1>11
  <1> QED BY <1>1, <1>3, <1>7, <1>10, <1>11, <1>12 DEF m, Merged

(* Merging keeps the list sound.                                           *)
LEMMA MergeSound ==
  ASSUME NEW h, Sound(h), NEW a \in DOMAIN h, h[a].next # NULL
  PROVE  Sound(Merge(h, a, h[a].next))
  <1> DEFINE b == h[a].next
             m == Merge(h, a, b)
  <1>0. Merged(m, h, a, b)
    BY MergeFields
  <1> HIDE DEF m
  <1>1. /\ b \in DOMAIN h /\ a < b /\ EndOf(h, a) = b
        /\ m \in [DOMAIN h \ {b} -> MemoryChunk]
        /\ m[a].next = h[b].next /\ m[a].prev = h[a].prev
        /\ m[a].size = h[a].size + h[b].size + ChunkHeader
        /\ \A c \in DOMAIN h \ {a, b} :
             /\ m[c].next = h[c].next /\ m[c].size = h[c].size
             /\ m[c].prev = IF c = h[b].next THEN a ELSE h[c].prev
    BY <1>0 DEF Merged
  <1>2. DOMAIN m = DOMAIN h \ {b}
    BY <1>0 DEF Merged
  <1>3. \A c \in DOMAIN h : /\ c \in Nat \ {0} /\ c < EndOf(h, c) /\ HeapStart <= c
                            /\ EndOf(h, c) \in Nat /\ EndOf(h, c) <= HeapEnd
                            /\ h[c].size \in Nat
    BY ChunkBounds DEF NULL, Word
  <1>4. /\ EndOf(m, a) = EndOf(h, b)
        /\ \A c \in DOMAIN h \ {a, b} : EndOf(m, c) = EndOf(h, c)
    BY <1>1, <1>3, HeapAssumption DEF EndOf
  <1>5. /\ HeapStart \in DOMAIN h
        /\ \A c \in DOMAIN h :
             /\ h[c].next = IF EndOf(h, c) = HeapEnd THEN NULL ELSE EndOf(h, c)
             /\ h[c].next # NULL => h[c].next \in DOMAIN h
             /\ \A d \in DOMAIN h : c < d => EndOf(h, c) <= d
    BY DEF Sound, Tiled
  <1>6. \A c \in DOMAIN h : IF c = HeapStart THEN h[c].prev = NULL
                            ELSE h[c].prev \in DOMAIN h /\ h[h[c].prev].next = c
    BY DEF Sound, BackLinked
  <1>7. /\ \A c \in DOMAIN h \ {a} : h[c].next # b
        /\ h[b].next # b /\ h[b].next # a
        /\ \A c \in DOMAIN h : c # NULL
    <2>1. \A c \in DOMAIN h : c # NULL
      BY <1>3 DEF NULL
    <2>2. \A c \in DOMAIN h \ {a} : h[c].next # b
      <3> SUFFICES ASSUME NEW c \in DOMAIN h, c # a, EndOf(h, c) = b PROVE FALSE
        BY <1>1, <1>5, <2>1
      <3>1. c < a \/ a < c
        BY <1>3
      <3> QED BY <3>1, <1>1, <1>3, <1>5
    <2>3. h[b].next # b /\ h[b].next # a
      BY <1>1, <1>3, <1>5, <2>1
    <2> QED BY <2>1, <2>2, <2>3
  <1>8. IsList(m)
    BY <1>1, <1>2 DEF Sound, IsList
  <1>9. Tiled(m)
    <2>1. HeapStart \in DOMAIN m
      BY <1>1, <1>2, <1>3, <1>5, HeapAssumption
    <2>2. \A c \in DOMAIN m : HeapStart <= c /\ EndOf(m, c) <= HeapEnd
      BY <1>1, <1>2, <1>3, <1>4
    <2>3. \A c \in DOMAIN m :
             m[c].next = IF EndOf(m, c) = HeapEnd THEN NULL ELSE EndOf(m, c)
      BY <1>1, <1>2, <1>4, <1>5
    <2>4. \A c \in DOMAIN m : m[c].next # NULL => m[c].next \in DOMAIN m
      BY <1>1, <1>2, <1>5, <1>7
    <2>5. ASSUME NEW c \in DOMAIN m, NEW d \in DOMAIN m, c < d
          PROVE  EndOf(m, c) <= d
      <3>1. CASE c # a
        BY <3>1, <2>5, <1>2, <1>4, <1>5
      <3>2. CASE c = a
        <4>1. b <= d /\ d # b
          BY <3>2, <2>5, <1>1, <1>2, <1>5
        <4>2. b < d
          BY <4>1, <1>1, <1>2, <1>3
        <4> QED BY <3>2, <4>2, <1>1, <1>2, <1>4, <1>5
      <3> QED BY <3>1, <3>2
    <2> QED BY <2>1, <2>2, <2>3, <2>4, <2>5 DEF Tiled
  <1>10. BackLinked(m)
    <2>1. ASSUME NEW c \in DOMAIN m, c # HeapStart, c # a
          PROVE  m[c].prev \in DOMAIN m /\ m[m[c].prev].next = c
      <3>1. CASE c = h[b].next
        BY <2>1, <3>1, <1>1, <1>2
      <3>2. CASE c # h[b].next
        <4>1. h[c].prev \in DOMAIN h /\ h[h[c].prev].next = c /\ c # b
          BY <2>1, <1>2, <1>6
        <4>2. h[c].prev # a /\ h[c].prev # b
          BY <4>1, <3>2
        <4> QED BY <2>1, <3>2, <4>1, <4>2, <1>1, <1>2
      <3> QED BY <3>1, <3>2
    <2>2. ASSUME a # HeapStart
          PROVE  m[a].prev \in DOMAIN m /\ m[m[a].prev].next = a
      <3>1. h[a].prev \in DOMAIN h /\ h[h[a].prev].next = a
        BY <2>2, <1>6
      <3>2. h[a].prev # a /\ h[a].prev # b
        BY <3>1, <1>1, <1>3, <1>7
      <3> QED BY <3>1, <3>2, <1>1, <1>2
    <2>3. HeapStart \in DOMAIN m => m[HeapStart].prev = NULL
      <3>1. h[HeapStart].prev = NULL
        BY <1>5, <1>6
      <3>2. h[b].next # HeapStart
        <4>1. h[b].next = NULL \/ h[b].next = EndOf(h, b)
          BY <1>1, <1>5
        <4>2. HeapStart < EndOf(h, b) /\ HeapStart # NULL
          BY <1>1, <1>3, HeapAssumption DEF NULL
        <4> QED BY <4>1, <4>2, <1>3, <1>1, HeapAssumption
      <3> QED BY <3>1, <3>2, <1>1, <1>2
    <2> QED BY <2>1, <2>2, <2>3, <1>1, <1>2 DEF BackLinked
  <1> QED BY <1>8, <1>9, <1>10 DEF Sound, m

-----------------------------------------------------------------------------
(* What HeapInvariant says beyond Sound.                                   *)
LEMMA HeapInvariantSound ==
  ASSUME TypeOK, HeapInvariant PROVE Sound(heap)
  BY DEF TypeOK, HeapInvariant, Sound

(* MallocTake leaves a heap with every property, whose blocks are those    *)
(* held before and the one handed out.                                     *)
LEMMA TakeInv ==
  ASSUME TypeOK, HeapInvariant, ResultFits, MallocTake
  PROVE  TypeOK' /\ HeapInvariant'
  <1> DEFINE r == result
             n == request
             t == r + ChunkHeader + n
  <1>1. /\ Sound(heap) /\ r \in Chunks /\ n \in Word /\ Fits(r, n)
        /\ Backed(heap, live) /\ NoFreePair(heap, {}) /\ first = HeapStart
        /\ live \in [DOMAIN live -> Word]
        /\ heap \in [Chunks -> MemoryChunk]
    BY HeapInvariantSound DEF TypeOK, HeapInvariant, MallocTake, ResultFits, IsList,
                              Chunks
  <1>2. \A c \in Chunks : c \in Nat /\ heap[c] \in MemoryChunk /\ c # NULL
    BY <1>1, ChunkBounds DEF Chunks
  <1>3. ChunkHeader \in Nat \ {0}
    BY HeapAssumption
  <1>4. /\ heap' = Take(r, n)
        /\ live' = [p \in DOMAIN live \cup {Payload(r)} |->
                      IF p = Payload(r) THEN n ELSE live[p]]
    BY DEF MallocTake
  <1>7. DOMAIN live' \subseteq Word /\ live' \in [DOMAIN live' -> Word]
    <2>1. Payload(r) \in Word
      BY <1>1, <1>2, <1>3, ChunkBounds, HeapAssumption
         DEF Payload, EndOf, Word, Chunks
    <2> QED BY <1>1, <1>4, <2>1 DEF TypeOK
  <1>5. CASE LeavesRoom(r, n)
    <2>1. heap' = Split(r, n)
      BY <1>4, <1>5 DEF Take
    <2>2. /\ t \notin Chunks /\ t \in Word /\ t > r
          /\ DOMAIN heap' = Chunks \cup {t}
          /\ heap'[t] = [next |-> heap[r].next, prev |-> r, allocated |-> FALSE,
                         size |-> heap[r].size - n - ChunkHeader]
          /\ heap'[r] = [next |-> t, prev |-> heap[r].prev, allocated |-> TRUE,
                         size |-> n]
          /\ \A a \in Chunks \ {r} : heap'[a] =
               IF a = heap[r].next THEN [heap[a] EXCEPT !.prev = t] ELSE heap[a]
      BY <1>1, <1>5, <2>1, SplitFields
    <2>3. Sound(heap')
      BY <1>1, <1>5, <2>1, SplitSound
    <2>4. /\ \A a \in Chunks \ {r} : /\ heap'[a].next = heap[a].next
                                     /\ heap'[a].allocated = heap[a].allocated
                                     /\ heap'[a].size = heap[a].size
          /\ heap'[r].allocated /\ ~heap'[t].allocated /\ heap'[r].size = n
          /\ heap'[r].next = t /\ heap'[t].next = heap[r].next
      BY <1>2, <2>2 DEF MemoryChunk
    <2> HIDE DEF t
    <2>5. Backed(heap', live')
      BY <1>1, <1>2, <1>3, <1>4, <2>2, <2>4 DEF Backed, Payload, Word, Fits, Chunks
    <2>6. NoFreePair(heap', {})
      <3>1. \A c \in Chunks : ~heap[c].allocated /\ heap[c].next # NULL
                              => heap[heap[c].next].allocated
        BY <1>1 DEF NoFreePair, Chunks
      <3>2. /\ \A c \in Chunks : heap[c].next # NULL => heap[c].next \in Chunks
            /\ \A c \in Chunks \ {r} : heap[c].next # t
        BY <1>1, <1>2, <2>2 DEF Sound, Tiled, Chunks, Word, NULL
      <3>3. heap[r].next # r /\ ~heap[r].allocated
        BY <1>1, <1>2, ChunkBounds DEF Sound, Tiled, Chunks, NULL, Fits
      <3>4. heap[r].next # NULL => heap'[heap[r].next].allocated
        BY <1>1, <2>4, <3>1, <3>2, <3>3
      <3>5. ASSUME NEW c \in Chunks, c # r, ~heap'[c].allocated, heap'[c].next # NULL
            PROVE  heap'[heap'[c].next].allocated
        BY <3>5, <2>4, <3>1, <3>2
      <3> QED BY <2>2, <2>4, <3>4, <3>5 DEF NoFreePair
    <2> QED BY <1>1, <1>7, <2>2, <2>3, <2>5, <2>6
            DEF TypeOK, HeapInvariant, Sound, MallocTake, Chunks, IsList
  <1>6. CASE ~LeavesRoom(r, n)
    <2>1. heap' = [heap EXCEPT ![r].allocated = TRUE]
      BY <1>4, <1>6 DEF Take
    <2>2. /\ DOMAIN heap' = Chunks
          /\ heap' \in [Chunks -> MemoryChunk]
          /\ \A a \in Chunks : /\ heap'[a].next = heap[a].next
                               /\ heap'[a].prev = heap[a].prev
                               /\ heap'[a].size = heap[a].size
                               /\ a # r => heap'[a].allocated = heap[a].allocated
          /\ heap'[r].allocated
      BY <1>1, <1>2, <2>1 DEF MemoryChunk
    <2>3. Sound(heap')
      <3>1. \A a \in Chunks : EndOf(heap', a) = EndOf(heap, a)
        BY <2>2 DEF EndOf
      <3>2. Tiled(heap')
        BY <1>1, <2>2, <3>1 DEF Sound, Tiled, Chunks
      <3>3. BackLinked(heap')
        BY <1>1, <2>2 DEF Sound, BackLinked, Chunks
      <3> QED BY <1>1, <2>2, <3>2, <3>3 DEF Sound, IsList, Chunks
    <2>4. Backed(heap', live')
      <3>1. Payload(r) - ChunkHeader = r /\ n <= heap[r].size
        BY <1>1, <1>2, <1>3, ChunkBounds DEF Payload, Fits, Word, Chunks
      <3>2. \A p \in DOMAIN live' : /\ p - ChunkHeader \in DOMAIN heap'
                                    /\ heap'[p - ChunkHeader].allocated
                                    /\ live'[p] <= heap'[p - ChunkHeader].size
        BY <1>1, <1>4, <2>2, <3>1 DEF Backed, Chunks
      <3>3. \A c \in DOMAIN heap' : heap'[c].allocated => Payload(c) \in DOMAIN live'
        BY <1>1, <1>4, <2>2 DEF Backed, Chunks
      <3> QED BY <3>2, <3>3 DEF Backed
    <2>5. NoFreePair(heap', {})
      <3>1. \A c \in Chunks : heap[c].next # NULL => heap[c].next \in Chunks
        BY <1>1 DEF Sound, Tiled, Chunks
      <3> QED BY <1>1, <2>2, <3>1 DEF NoFreePair, Chunks
    <2> QED BY <1>1, <1>7, <2>2, <2>3, <2>4, <2>5
            DEF TypeOK, HeapInvariant, Sound, MallocTake, Chunks, IsList
  <1> QED BY <1>5, <1>6

-----------------------------------------------------------------------------
(* Two chunks never have the same successor.                               *)
LEMMA OnePredecessor ==
  ASSUME NEW h, Sound(h), NEW c \in DOMAIN h, NEW d \in DOMAIN h,
         c # d, h[c].next # NULL
  PROVE  h[d].next # h[c].next
  <1>1. \A a \in DOMAIN h : /\ a \in Nat /\ a < EndOf(h, a) /\ EndOf(h, a) \in Nat
    BY ChunkBounds DEF Word
  <1>2. /\ h[c].next = EndOf(h, c)
        /\ h[d].next = NULL \/ h[d].next = EndOf(h, d)
        /\ \A a \in DOMAIN h, b \in DOMAIN h : a < b => EndOf(h, a) <= b
    BY DEF Sound, Tiled
  <1>3. c < d \/ d < c
    BY <1>1
  <1> QED BY <1>1, <1>2, <1>3

(* Merging two free chunks takes no block from anyone.                     *)
LEMMA MergeBacked ==
  ASSUME NEW h, Sound(h), NEW a \in DOMAIN h, h[a].next # NULL,
         ~h[a].allocated, ~h[h[a].next].allocated,
         NEW l, Backed(h, l)
  PROVE  Backed(Merge(h, a, h[a].next), l)
  <1> DEFINE b == h[a].next
             m == Merge(h, a, b)
  <1>1. Merged(m, h, a, b)
    BY MergeFields
  <1> HIDE DEF m
  <1>2. /\ DOMAIN m = DOMAIN h \ {b}
        /\ ~m[a].allocated
        /\ \A c \in DOMAIN h \ {a, b} :
             m[c].size = h[c].size /\ m[c].allocated = h[c].allocated
    BY <1>1 DEF Merged
  <1>3. Backed(m, l)
    BY <1>2 DEF Backed
  <1> QED BY <1>3 DEF m

(* Merging keeps free chunks apart, except possibly behind the merged one. *)
LEMMA MergeNoFreePair ==
  ASSUME NEW h, Sound(h), NEW a \in DOMAIN h, h[a].next # NULL,
         NoFreePair(h, {a, h[a].next})
  PROVE  NoFreePair(Merge(h, a, h[a].next), {a})
  <1> DEFINE b == h[a].next
             m == Merge(h, a, b)
  <1>1. Merged(m, h, a, b)
    BY MergeFields
  <1> HIDE DEF m
  <1>2. /\ DOMAIN m = DOMAIN h \ {b} /\ b \in DOMAIN h
        /\ m[a].allocated = h[a].allocated
        /\ \A c \in DOMAIN h \ {a, b} :
             m[c].next = h[c].next /\ m[c].allocated = h[c].allocated
    BY <1>1 DEF Merged
  <1>3. ASSUME NEW c \in DOMAIN m \ {a}, ~m[c].allocated, m[c].next # NULL
        PROVE  m[m[c].next].allocated
    <2>1. c \in DOMAIN h \ {a, b} /\ ~h[c].allocated /\ h[c].next # NULL
          /\ m[c].next = h[c].next
      BY <1>2, <1>3
    <2>2. h[h[c].next].allocated
      BY <2>1 DEF NoFreePair
    <2>3. h[c].next \in DOMAIN h /\ h[c].next # b
      BY <2>1, OnePredecessor DEF Sound, Tiled
    <2> QED BY <1>2, <2>1, <2>2, <2>3
  <1> QED BY <1>3 DEF m, NoFreePair

(* free leaves a heap with every property, and one block less in use.      *)
LEMMA FreeInv ==
  ASSUME TypeOK, HeapInvariant, ResultFits, NEW p \in DOMAIN live, Free(p)
  PROVE  TypeOK' /\ HeapInvariant'
  <1> DEFINE c == p - ChunkHeader
             g == [heap EXCEPT ![c].allocated = FALSE]
             b == g[c].prev
             f == Freed(c)
             n == f.list[f.at].next
  <1>1. /\ Sound(heap) /\ Backed(heap, live) /\ NoFreePair(heap, {})
        /\ live \in [DOMAIN live -> Word] /\ heap \in [Chunks -> MemoryChunk]
        /\ Chunks # {} => first = HeapStart
        /\ pc = "idle"
    BY HeapInvariantSound DEF TypeOK, HeapInvariant, Free, IsList, Chunks
  <1>2. /\ c \in Chunks /\ heap[c].allocated /\ live[p] <= heap[c].size
    BY <1>1 DEF Backed, Chunks
  <1>3. /\ heap' = Coalesce(f)
        /\ live' = [q \in DOMAIN live \ {p} |-> live[q]]
        /\ UNCHANGED <<first, pc, request, chunk, result>>
    BY DEF Free
  <1>4. /\ g \in [Chunks -> MemoryChunk]
        /\ \A a \in Chunks : /\ g[a].next = heap[a].next
                             /\ g[a].prev = heap[a].prev
                             /\ g[a].size = heap[a].size
                             /\ a # c => g[a].allocated = heap[a].allocated
        /\ ~g[c].allocated
    BY <1>1, <1>2 DEF MemoryChunk
  <1>5. f = IF IsFree(g, b) THEN [list |-> Merge(g, b, c), at |-> b]
                            ELSE [list |-> g, at |-> c]
    BY DEF Freed
  <1> HIDE DEF g, f
  <1>6. Sound(g) /\ DOMAIN g = Chunks
    <2>1. \A a \in Chunks : EndOf(g, a) = EndOf(heap, a)
      BY <1>4 DEF EndOf
    <2>2. DOMAIN g = Chunks
      BY <1>4
    <2>3. Tiled(g)
      BY <1>1, <1>4, <2>1, <2>2 DEF Sound, Tiled, Chunks
    <2>4. BackLinked(g)
      BY <1>1, <1>4, <2>2 DEF Sound, BackLinked, Chunks
    <2> QED BY <1>1, <1>4, <2>2, <2>3, <2>4 DEF Sound, IsList, Chunks
  <1>7. Backed(g, live')
    <2>1. \A q \in DOMAIN live' : q \in DOMAIN live /\ q # p /\ live'[q] = live[q]
      BY <1>3
    <2>2. ASSUME NEW q \in DOMAIN live'
          PROVE  /\ q - ChunkHeader \in DOMAIN g
                 /\ g[q - ChunkHeader].allocated
                 /\ live'[q] <= g[q - ChunkHeader].size
      <3>1. q \in DOMAIN live /\ q # p /\ live'[q] = live[q]
        BY <2>1
      <3>2. /\ q - ChunkHeader \in Chunks /\ heap[q - ChunkHeader].allocated
            /\ live[q] <= heap[q - ChunkHeader].size
        BY <1>1, <3>1 DEF Backed, Chunks
      <3>3. q - ChunkHeader # c
        <4>1. q \in Nat /\ p \in Nat
          BY <3>1, HeapAssumption DEF TypeOK, Word
        <4> QED BY <3>1, <4>1, HeapAssumption
      <3> QED BY <1>4, <1>6, <3>1, <3>2, <3>3
    <2>3. ASSUME NEW a \in DOMAIN g, g[a].allocated
          PROVE  Payload(a) \in DOMAIN live'
      <3>1. a \in Chunks /\ a # c /\ heap[a].allocated
        BY <1>4, <1>6, <2>3
      <3>2. Payload(a) \in DOMAIN live
        BY <1>1, <3>1 DEF Backed, Chunks
      <3>3. Payload(a) # p
        BY <1>1, <1>2, <3>1, ChunkBounds, HeapAssumption DEF Payload, Chunks
      <3> QED BY <1>3, <3>2, <3>3
    <2> QED BY <2>2, <2>3 DEF Backed
  <1>8. NoFreePair(g, {b, c})
    <2>1. \A a \in Chunks : /\ heap[a].next # NULL => heap[a].next \in Chunks
                            /\ heap[a].next = c /\ a # b => FALSE
      <3>1. \A a \in Chunks : heap[a].next # NULL => heap[a].next \in Chunks
        BY <1>1 DEF Sound, Tiled, Chunks
      <3>2. ASSUME NEW a \in Chunks, heap[a].next = c PROVE a = b
        <4>1. c # NULL
          BY <1>1, <1>2, ChunkBounds DEF Chunks
        <4>2. c # HeapStart
          <5>1. c = EndOf(heap, a) /\ HeapStart <= a /\ a < EndOf(heap, a)
            BY <1>1, <3>2, <4>1, ChunkBounds DEF Sound, Tiled, Chunks
          <5> QED BY <5>1, <1>1, ChunkBounds, HeapAssumption DEF Chunks
        <4>3. g[c].prev \in Chunks /\ heap[g[c].prev].next = c
          BY <1>1, <1>2, <1>4, <4>2 DEF Sound, BackLinked, Chunks
        <4> QED BY <1>1, <3>2, <4>1, <4>3, OnePredecessor DEF Chunks
      <3> QED BY <3>1, <3>2
    <2> QED BY <1>1, <1>4, <1>6, <2>1 DEF NoFreePair, Chunks
  <1>9. /\ f.at \in DOMAIN f.list /\ ~f.list[f.at].allocated
        /\ Sound(f.list) /\ Backed(f.list, live') /\ NoFreePair(f.list, {f.at})
    <2>1. CASE IsFree(g, b)
      <3>1. b # NULL /\ ~g[b].allocated
        BY <2>1 DEF IsFree
      <3>2. b \in Chunks /\ g[b].next = c
        BY <1>2, <1>6, <3>1 DEF Sound, BackLinked
      <3>3. c # NULL /\ b # c
        <4>1. c # NULL
          BY <1>2, <1>6, ChunkBounds
        <4>2. Merged(Merge(g, b, g[b].next), g, b, g[b].next)
          BY <1>6, <3>2, <4>1, MergeFields
        <4> QED BY <3>2, <4>1, <4>2 DEF Merged
      <3>4. f.list = Merge(g, b, g[b].next) /\ f.at = b
        BY <1>5, <2>1, <3>2
      <3>5. Sound(f.list)
        BY <1>6, <3>2, <3>3, <3>4, MergeSound
      <3>6. Backed(f.list, live')
        BY <1>4, <1>6, <1>7, <3>1, <3>2, <3>3, <3>4, MergeBacked
      <3>7. NoFreePair(f.list, {b})
        BY <1>6, <1>8, <3>2, <3>3, <3>4, MergeNoFreePair
      <3>8. b \in DOMAIN f.list /\ ~f.list[b].allocated
        <4>1. Merged(f.list, g, b, c)
          BY <1>6, <3>2, <3>3, <3>4, MergeFields
        <4> QED BY <1>6, <3>1, <3>2, <3>3, <4>1 DEF Merged
      <3> QED BY <3>4, <3>5, <3>6, <3>7, <3>8
    <2>2. CASE ~IsFree(g, b)
      <3>1. f.list = g /\ f.at = c
        BY <1>5, <2>2
      <3>2. b = NULL \/ g[b].allocated
        BY <2>2 DEF IsFree
      <3>3. NULL \notin DOMAIN g
        BY <1>6, ChunkBounds
      <3>4. NoFreePair(g, {c})
        BY <1>8, <3>2, <3>3 DEF NoFreePair
      <3> QED BY <1>2, <1>4, <1>6, <1>7, <3>1, <3>4
    <2> QED BY <2>1, <2>2
  <1>10. /\ Sound(heap') /\ Backed(heap', live') /\ NoFreePair(heap', {})
         /\ f.at \in DOMAIN heap'
    <2> DEFINE l == f.list
               a == f.at
    <2>0. heap' = IF IsFree(l, n) THEN Merge(l, a, n) ELSE l
      BY <1>3 DEF Coalesce
    <2>1. CASE IsFree(l, n)
      <3>1. n # NULL /\ ~l[n].allocated /\ heap' = Merge(l, a, l[a].next)
        BY <2>0, <2>1 DEF IsFree
      <3> HIDE DEF l, a
      <3>0. /\ a \in DOMAIN l /\ ~l[a].allocated /\ n = l[a].next
            /\ Sound(l) /\ Backed(l, live') /\ NoFreePair(l, {a})
        BY <1>9 DEF l, a
      <3> HIDE DEF n
      <3>2. NoFreePair(l, {a, l[a].next})
        BY <3>0 DEF NoFreePair
      <3>3. Sound(heap') /\ Backed(heap', live') /\ NoFreePair(heap', {a})
        BY <3>0, <3>1, <3>2, MergeSound, MergeBacked, MergeNoFreePair
      <3>4. /\ n \in DOMAIN l /\ n # a
            /\ heap' \in [DOMAIN l \ {n} -> MemoryChunk]
            /\ heap'[a].next = l[n].next
            /\ \A d \in DOMAIN l \ {a, n} : heap'[d].allocated = l[d].allocated
        <4>1. Merged(heap', l, a, n)
          BY <3>0, <3>1, MergeFields
        <4> QED BY <4>1 DEF Merged
      <3>5. heap'[a].next # NULL => heap'[heap'[a].next].allocated
        <4> SUFFICES ASSUME l[n].next # NULL PROVE heap'[l[n].next].allocated
          BY <3>4
        <4>1. l[l[n].next].allocated
          BY <3>1, <3>4, <3>0 DEF NoFreePair
        <4>2. l[n].next \in DOMAIN l
          BY <3>4, <3>0 DEF Sound, Tiled
        <4>3. l[n].next # n /\ l[n].next # a
          BY <3>1, <3>0, <4>1
        <4> QED BY <3>4, <4>1, <4>2, <4>3
      <3>6. a \in DOMAIN heap'
        BY <3>0, <3>4
      <3> QED BY <3>3, <3>5, <3>6 DEF NoFreePair, a
    <2>2. CASE ~IsFree(l, n)
      <3>1. heap' = l /\ (n = NULL \/ l[n].allocated)
        BY <2>0, <2>2 DEF IsFree
      <3> QED BY <1>9, <3>1 DEF NoFreePair
    <2> QED BY <2>1, <2>2
  <1>11. DOMAIN heap' # {} => first = HeapStart
    BY <1>1, <1>2
  <1>12. DOMAIN live' \subseteq Word /\ live' \in [DOMAIN live' -> Word]
    BY <1>1, <1>3 DEF TypeOK
  <1>13. first \in DOMAIN heap' \cup {NULL}
    BY <1>1, <1>2, <1>10, ChunkBounds DEF Sound, Tiled, Chunks
  <1>14. chunk = NULL /\ result = NULL
    BY <1>1 DEF ResultFits
  <1> QED BY <1>3, <1>10, <1>11, <1>12, <1>13, <1>14
          DEF TypeOK, HeapInvariant, Sound, Chunks

-----------------------------------------------------------------------------
LEMMA InitInv == Init => IInv
  <1> SUFFICES ASSUME Init PROVE IInv
    OBVIOUS
  <1> USE HeapAssumption
  <1>1. /\ pc = "idle" /\ request = 0 /\ chunk = NULL /\ result = NULL
        /\ DOMAIN live = {} /\ live \in [DOMAIN live -> Word]
        /\ 0 \in Word
    BY DEF Init, Word
  <1>2. CASE HeapSize < ChunkHeader
    <2>1. DOMAIN heap = {} /\ first = NULL /\ heap \in [DOMAIN heap -> MemoryChunk]
      BY <1>2 DEF Init
    <2> QED BY <1>1, <2>1 DEF IInv, TypeOK, IsList, HeapInvariant, Tiled, BackLinked,
                              Backed, NoFreePair, FirstFit, ResultFits, Chunks
  <1>3. CASE ~(HeapSize < ChunkHeader)
    <2>1. /\ first = HeapStart
          /\ heap = [c \in {HeapStart} |->
                       [next |-> NULL, prev |-> NULL, allocated |-> FALSE,
                        size |-> HeapSize - ChunkHeader]]
      BY <1>3 DEF Init
    <2>2. /\ DOMAIN heap = {HeapStart}
          /\ heap[HeapStart].next = NULL /\ heap[HeapStart].prev = NULL
          /\ ~heap[HeapStart].allocated
          /\ heap[HeapStart].size = HeapSize - ChunkHeader
      BY <2>1
    <2>3. HeapSize - ChunkHeader \in Word /\ HeapStart \in Word /\ NULL \in Word
      BY <1>3 DEF Word, NULL
    <2>4. IsList(heap)
      BY <2>1, <2>3 DEF IsList, MemoryChunk
    <2>5. EndOf(heap, HeapStart) = HeapEnd /\ HeapEnd \in Nat /\ HeapStart <= HeapEnd
      BY <2>2 DEF EndOf, HeapEnd
    <2>6. Tiled(heap) /\ BackLinked(heap)
      BY <2>2, <2>5 DEF Tiled, BackLinked
    <2>7. Backed(heap, live) /\ NoFreePair(heap, {})
      BY <1>1, <2>2 DEF Backed, NoFreePair
    <2> QED BY <1>1, <2>1, <2>2, <2>4, <2>6, <2>7
            DEF IInv, TypeOK, HeapInvariant, FirstFit, ResultFits, Chunks
  <1> QED BY <1>2, <1>3

(* Every chunk lies below the one the search has reached, or at or above it. *)
LEMMA LoopInv ==
  ASSUME IInv, MallocLoop
  PROVE  IInv'
  <1> DEFINE next == heap[chunk].next
  <1>1. /\ Sound(heap) /\ chunk \in Chunks /\ result = NULL /\ pc = "search"
        /\ UNCHANGED <<first, heap, pc, request, live>>
        /\ result' = IF Fits(chunk, request) THEN chunk ELSE NULL
        /\ chunk' = next
    BY HeapInvariantSound DEF IInv, MallocLoop, TypeOK
  <1>2. next \in Chunks \cup {NULL}
    BY <1>1 DEF Sound, Tiled, Chunks
  <1>3. TypeOK'
    BY <1>1, <1>2 DEF IInv, TypeOK, Chunks, IsList
  <1>4. HeapInvariant'
    BY <1>1 DEF IInv, HeapInvariant, Chunks, Backed, BackLinked, Tiled, NoFreePair, EndOf
  <1>5. ResultFits'
    BY <1>1 DEF IInv, ResultFits, Fits
  <1>6. FirstFit'
    <2>1. ASSUME NEW c \in Chunks, next = NULL \/ c < next
          PROVE  c < chunk \/ c = chunk
      <3>1. c \in Nat /\ chunk \in Nat /\ c < EndOf(heap, c) /\ EndOf(heap, c) <= HeapEnd
            /\ EndOf(heap, c) \in Nat
        BY <1>1, ChunkBounds DEF Chunks, Word
      <3>2. /\ next = IF EndOf(heap, chunk) = HeapEnd THEN NULL ELSE EndOf(heap, chunk)
            /\ chunk < c => EndOf(heap, chunk) <= c
        BY <1>1 DEF Sound, Tiled, Chunks
      <3>3. HeapEnd \in Nat /\ EndOf(heap, chunk) \in Nat /\ chunk < EndOf(heap, chunk)
        BY <1>1, ChunkBounds, HeapAssumption DEF HeapEnd, Word, Chunks
      <3>4. ~(chunk < c)
        <4>1. SUFFICES ASSUME chunk < c PROVE FALSE
          OBVIOUS
        <4>2. EndOf(heap, chunk) <= c
          BY <3>2, <4>1
        <4>3. next = EndOf(heap, chunk) /\ next # NULL
          BY <3>1, <3>2, <3>3, <4>2 DEF NULL
        <4> QED BY <2>1, <3>1, <3>3, <4>2, <4>3
      <3> QED BY <3>1, <3>4
    <2>2. \A c \in Chunks : c < chunk => heap[c].allocated \/ heap[c].size <= request
      <3>1. chunk # NULL
        BY DEF MallocLoop
      <3> QED BY <1>1, <3>1 DEF IInv, FirstFit
    <2>3. CASE Fits(chunk, request)
      <3>1. result' = chunk /\ chunk # NULL
        BY <1>1, <2>3 DEF MallocLoop
      <3> QED BY <1>1, <2>2, <3>1 DEF FirstFit, Chunks
    <2>4. CASE ~Fits(chunk, request)
      <3>1. heap[chunk].allocated \/ heap[chunk].size <= request
        <4>1. heap[chunk].size \in Nat /\ request \in Nat
          BY <1>1, ChunkBounds, HeapAssumption DEF IInv, TypeOK, Chunks, Word
        <4> QED BY <2>4, <4>1 DEF Fits
      <3>2. result' = NULL
        BY <1>1, <2>4
      <3> QED BY <1>1, <2>1, <2>2, <3>1, <3>2 DEF FirstFit, Chunks
    <2> QED BY <2>3, <2>4
  <1> QED BY <1>3, <1>4, <1>5, <1>6 DEF IInv

(* A call starts its search at the lowest chunk.                           *)
LEMMA CallInv ==
  ASSUME IInv, NEW n \in Requests, MallocCall(n)
  PROVE  IInv'
  <1>1. /\ Sound(heap) /\ n \in Word
        /\ UNCHANGED <<first, heap, live>>
        /\ pc' = "search" /\ request' = n /\ chunk' = first /\ result' = NULL
    BY HeapInvariantSound, HeapAssumption DEF IInv, MallocCall, Word
  <1>2. TypeOK'
    BY <1>1 DEF IInv, TypeOK, Chunks, IsList
  <1>3. HeapInvariant'
    BY <1>1 DEF IInv, HeapInvariant, Chunks, Backed, BackLinked, Tiled, NoFreePair, EndOf
  <1>4. ResultFits'
    BY <1>1 DEF ResultFits
  <1>5. FirstFit'
    <2>1. \A c \in Chunks : HeapStart <= c /\ c \in Nat
      BY <1>1, ChunkBounds DEF Chunks
    <2>2. Chunks # {} => first = HeapStart
      BY DEF IInv, HeapInvariant
    <2>3. HeapStart # NULL /\ HeapStart \in Nat
      BY HeapAssumption DEF NULL
    <2>4. \A c \in Chunks : ~(first = NULL \/ c < first)
      BY <2>1, <2>2, <2>3
    <2> QED BY <1>1, <2>4 DEF FirstFit, Chunks
  <1> QED BY <1>2, <1>3, <1>4, <1>5 DEF IInv

(* IInv is inductive.                                                      *)
LEMMA StepInv == IInv /\ [Next]_vars => IInv'
  <1> SUFFICES ASSUME IInv, [Next]_vars PROVE IInv'
    OBVIOUS
  <1>1. ASSUME NEW n \in Requests, MallocCall(n) PROVE IInv'
    BY <1>1, CallInv
  <1>2. CASE MallocLoop
    BY <1>2, LoopInv
  <1>3. CASE MallocNull
    BY <1>3 DEF MallocNull, IInv, TypeOK, HeapInvariant, FirstFit, ResultFits, Chunks,
                IsList, Backed, BackLinked, Tiled, NoFreePair, EndOf, NULL
  <1>4. CASE MallocTake
    <2>1. TypeOK' /\ HeapInvariant'
      BY <1>4, TakeInv DEF IInv
    <2>2. pc' = "idle" /\ chunk' = NULL /\ result' = NULL
      BY <1>4 DEF MallocTake
    <2> QED BY <2>1, <2>2 DEF IInv, FirstFit, ResultFits
  <1>5. ASSUME NEW p \in DOMAIN live, Free(p) PROVE IInv'
    <2>1. TypeOK' /\ HeapInvariant'
      BY <1>5, FreeInv DEF IInv
    <2>2. pc' = "idle" /\ chunk' = NULL /\ result' = NULL
      BY <1>5 DEF Free, IInv, ResultFits
    <2> QED BY <2>1, <2>2 DEF IInv, FirstFit, ResultFits
  <1>6. CASE UNCHANGED vars
    BY <1>6 DEF vars, IInv, TypeOK, HeapInvariant, FirstFit, ResultFits, Chunks, Fits,
                IsList, Backed, BackLinked, Tiled, NoFreePair, EndOf
  <1> QED BY <1>1, <1>2, <1>3, <1>4, <1>5, <1>6 DEF Next, MallocStep

(* The inductive invariant holds in every reachable state.                 *)
THEOREM Invariance == Spec => []IInv
  BY InitInv, StepInv, PTL DEF Spec
-----------------------------------------------------------------------------
(* The state of malloc and of the chunk list always has its C++ type, and  *)
(* malloc's two pointers always point at chunk headers that exist.         *)
THEOREM TypeCorrect == Spec => []TypeOK
  <1>1. IInv => TypeOK
    BY DEF IInv
  <1> QED BY <1>1, Invariance, PTL

(* malloc and free keep the chunk list intact: it tiles the heap, is linked*)
(* both ways, backs every block in use and holds no two free neighbours.   *)
THEOREM ListIntact == Spec => []HeapInvariant
  <1>1. IInv => HeapInvariant
    BY DEF IInv
  <1> QED BY <1>1, Invariance, PTL

(* malloc's search has passed no chunk that would have done.               *)
THEOREM SearchIsFirstFit == Spec => []FirstFit
  <1>1. IInv => FirstFit
    BY DEF IInv
  <1> QED BY <1>1, Invariance, PTL

(* malloc answers nullptr only when no free chunk is larger than request.  *)
THEOREM NullMeansNoFit == Spec => NullOnlyWhenNothingFits
  <1>1. IInv /\ [Next]_vars =>
          [pc = "search" /\ pc' = "idle" /\ live' = live =>
             \A c \in Chunks : heap[c].allocated \/ heap[c].size <= request]_vars
    <2> SUFFICES ASSUME IInv, Next, pc = "search", pc' = "idle", live' = live,
                        NEW c \in Chunks
                 PROVE  heap[c].allocated \/ heap[c].size <= request
      OBVIOUS
    <2>1. CASE MallocNull
      BY <2>1 DEF MallocNull, IInv, FirstFit
    <2>2. CASE MallocTake
      <3>1. /\ Payload(result) \in DOMAIN live' /\ result \in Chunks
            /\ ~heap[result].allocated
        BY <2>2 DEF MallocTake, IInv, TypeOK, ResultFits, Fits
      <3>2. Payload(result) \notin DOMAIN live
        <4>1. result \in Nat /\ ChunkHeader \in Nat
          BY <3>1, HeapInvariantSound, ChunkBounds, HeapAssumption DEF IInv, Chunks
        <4>2. Payload(result) - ChunkHeader = result
          BY <4>1 DEF Payload
        <4> QED BY <3>1, <4>2 DEF IInv, HeapInvariant, Backed
      <3> QED BY <3>1, <3>2
    <2>3. ~MallocLoop /\ \A n \in Requests : ~MallocCall(n)
      BY DEF MallocLoop, MallocCall
    <2>4. \A p \in DOMAIN live : ~Free(p)
      BY DEF Free
    <2> QED BY <2>1, <2>2, <2>3, <2>4 DEF Next, MallocStep
  <1> QED BY <1>1, Invariance, PTL DEF Spec, NullOnlyWhenNothingFits

(* The search moves up the heap with every iteration and never beyond its  *)
(* end, so that it ends on every heap as long as it is executed.           *)
SearchAdvances ==
  [][pc = "search" /\ pc' = "search" =>
       /\ result = NULL /\ chunk \in HeapStart .. HeapEnd - 1 /\ heap' = heap
       /\ chunk' = NULL \/ chunk < chunk']_vars

(* malloc's loop ends because addresses rise, whatever was allocated.      *)
THEOREM SearchEnds == Spec => SearchAdvances
  <1>1. IInv /\ [Next]_vars =>
          [pc = "search" /\ pc' = "search" =>
             /\ result = NULL /\ chunk \in HeapStart .. HeapEnd - 1 /\ heap' = heap
             /\ chunk' = NULL \/ chunk < chunk']_vars
    <2> SUFFICES ASSUME IInv, Next, pc = "search", pc' = "search"
                 PROVE  /\ result = NULL /\ chunk \in HeapStart .. HeapEnd - 1
                        /\ heap' = heap
                        /\ chunk' = NULL \/ chunk < chunk'
      OBVIOUS
    <2>1. CASE MallocLoop
      <3>1. /\ Sound(heap) /\ chunk \in Chunks /\ result = NULL /\ heap' = heap
            /\ chunk' = heap[chunk].next
        BY <2>1, HeapInvariantSound DEF IInv, MallocLoop, TypeOK
      <3>2. /\ chunk \in Nat /\ HeapStart <= chunk
            /\ EndOf(heap, chunk) \in Nat /\ chunk < EndOf(heap, chunk)
            /\ EndOf(heap, chunk) <= HeapEnd
            /\ heap[chunk].next = IF EndOf(heap, chunk) = HeapEnd THEN NULL
                                  ELSE EndOf(heap, chunk)
        BY <3>1, ChunkBounds, HeapAssumption DEF Sound, Tiled, Chunks, Word
      <3>3. HeapStart \in Nat /\ HeapEnd \in Nat
        BY HeapAssumption DEF HeapEnd
      <3> QED BY <3>1, <3>2, <3>3
    <2>2. ~MallocNull /\ ~MallocTake /\ \A n \in Requests : ~MallocCall(n)
      BY DEF MallocNull, MallocTake, MallocCall
    <2>3. \A p \in DOMAIN live : ~Free(p)
      BY DEF Free
    <2> QED BY <2>1, <2>2, <2>3 DEF Next, MallocStep
  <1> QED BY <1>1, Invariance, PTL DEF Spec, SearchAdvances

(* Once every block has been given back, the heap is the single free chunk *)
(* that the constructor made: coalescing forgets nothing.                  *)
THEOREM NothingIsLost == Spec => []FreedHeapIsWhole
  <1>1. IInv => FreedHeapIsWhole
    <2> SUFFICES ASSUME IInv, DOMAIN live = {}, Chunks # {}
                 PROVE  heap = [c \in {HeapStart} |->
                                  [next |-> NULL, prev |-> NULL, allocated |-> FALSE,
                                   size |-> HeapSize - ChunkHeader]]
      BY DEF FreedHeapIsWhole
    <2>1. Sound(heap) /\ HeapStart \in Chunks
      BY HeapInvariantSound DEF IInv, HeapInvariant, Tiled, Chunks
    <2>2. \A c \in Chunks : ~heap[c].allocated
      BY DEF IInv, HeapInvariant, Backed, Chunks
    <2>3. \A c \in Chunks : heap[c].next = NULL
      BY <2>1, <2>2 DEF IInv, HeapInvariant, NoFreePair, Sound, Tiled, Chunks
    <2>4. \A c \in Chunks : /\ c \in Nat /\ c < EndOf(heap, c) /\ HeapStart <= c
                            /\ EndOf(heap, c) \in Nat /\ EndOf(heap, c) <= HeapEnd
                            /\ EndOf(heap, c) # NULL
      BY <2>1, ChunkBounds DEF Chunks, Word, NULL
    <2>5. \A c \in Chunks : EndOf(heap, c) = HeapEnd
      BY <2>1, <2>3, <2>4 DEF Sound, Tiled, Chunks
    <2>6. Chunks = {HeapStart}
      <3>1. \A c \in Chunks : HeapStart < c => HeapEnd <= c
        BY <2>1, <2>5 DEF Sound, Tiled, Chunks
      <3>2. HeapStart \in Nat /\ HeapEnd \in Nat
        BY HeapAssumption DEF HeapEnd
      <3>3. \A c \in Chunks : c = HeapStart
        BY <2>4, <3>1, <3>2
      <3> QED BY <2>1, <3>3
    <2>7. /\ heap[HeapStart] \in MemoryChunk
          /\ heap[HeapStart].size \in Nat
          /\ heap[HeapStart].prev = NULL
      BY <2>1, ChunkBounds DEF Sound, BackLinked, Chunks
    <2>8. heap[HeapStart].size = HeapSize - ChunkHeader
      BY <2>1, <2>5, <2>7, HeapAssumption DEF EndOf, HeapEnd
    <2>9. heap[HeapStart] = [next |-> NULL, prev |-> NULL, allocated |-> FALSE,
                             size |-> HeapSize - ChunkHeader]
      <3>1. ~heap[HeapStart].allocated /\ heap[HeapStart].next = NULL
        BY <2>1, <2>2, <2>3
      <3> QED BY <2>7, <2>8, <3>1 DEF MemoryChunk
    <2>10. heap = [c \in Chunks |-> heap[c]]
      BY <2>1 DEF Sound, IsList, Chunks
    <2> QED BY <2>6, <2>9, <2>10
  <1> QED BY <1>1, Invariance, PTL
-----------------------------------------------------------------------------
(* A block malloc hands out lies in the heap, clear of every block in use. *)
LEMMA TakeAllocates ==
  ASSUME IInv, MallocTake
  PROVE  \E p \in HeapStart .. Contract!HeapEnd, n \in Requests :
           Contract!Allocate(p, n)
  <1> DEFINE p == Payload(result)
             n == request
  <1>1. /\ Sound(heap) /\ result \in Chunks /\ Fits(result, n) /\ n \in Requests
        /\ Backed(heap, live) /\ DOMAIN live \subseteq Word
        /\ live \in [DOMAIN live -> Word]
        /\ live' = [q \in DOMAIN live \cup {p} |-> IF q = p THEN n ELSE live[q]]
    BY HeapInvariantSound
       DEF IInv, MallocTake, TypeOK, HeapInvariant, ResultFits
  <1>2. /\ n \in Nat /\ ChunkHeader \in Nat /\ HeapStart \in Nat /\ HeapEnd \in Nat
    BY <1>1, HeapAssumption DEF HeapEnd
  <1>3. \A c \in Chunks : /\ c \in Nat /\ heap[c].size \in Nat /\ HeapStart <= c
                          /\ EndOf(heap, c) \in Nat /\ EndOf(heap, c) <= HeapEnd
    BY <1>1, ChunkBounds DEF Chunks, Word
  <1>4. /\ HeapStart <= p /\ p + n <= HeapEnd /\ p \in Nat
        /\ p - ChunkHeader = result /\ p + n <= EndOf(heap, result)
    BY <1>1, <1>2, <1>3 DEF EndOf, Payload, Fits
  <1>5. p \notin DOMAIN live
    BY <1>1, <1>4 DEF Backed, Fits
  <1>6. ASSUME NEW q \in DOMAIN live
        PROVE  p + n <= q \/ q + live[q] <= p
    <2> DEFINE d == q - ChunkHeader
    <2>1. /\ q \in Nat /\ live[q] \in Nat /\ d \in Chunks
          /\ heap[d].allocated /\ live[q] <= heap[d].size
      BY <1>1, HeapAssumption DEF Backed, Word, Chunks
    <2>2. d # result /\ q = d + ChunkHeader
      BY <1>1, <1>2, <2>1 DEF Fits
    <2>3. q + live[q] <= EndOf(heap, d)
      BY <1>2, <1>3, <2>1, <2>2 DEF EndOf
    <2>4. /\ d < result => EndOf(heap, d) <= result
          /\ result < d => EndOf(heap, result) <= d
      BY <1>1, <2>1 DEF Sound, Tiled, Chunks
    <2> HIDE DEF d, p
    <2>5. p = result + ChunkHeader
      BY DEF p, Payload
    <2> QED BY <1>1, <1>2, <1>3, <1>4, <2>1, <2>2, <2>3, <2>4, <2>5
  <1>7. Contract!Allocate(p, n)
    BY <1>1, <1>4, <1>5, <1>6
       DEF Contract!Allocate, Contract!Apart, Contract!HeapEnd, HeapEnd
  <1> QED BY <1>1, <1>2, <1>4, <1>7 DEF Contract!HeapEnd, HeapEnd

(* malloc and free implement HeapContract: no two blocks in use ever share *)
(* a byte, and none reaches outside the heap.                              *)
THEOREM ImplementsContract == Spec => HeapContractHolds
  <1>1. Init => Contract!Init
    BY DEF Init, Contract!Init
  <1>2. IInv /\ [Next]_vars => [Contract!Next]_live
    <2> SUFFICES ASSUME IInv, [Next]_vars PROVE Contract!Next \/ UNCHANGED live
      OBVIOUS
    <2>1. CASE MallocTake
      BY <2>1, TakeAllocates DEF Contract!Next
    <2>2. ASSUME NEW p \in DOMAIN live, Free(p) PROVE Contract!Next
      BY <2>2 DEF Free, Contract!Next, Contract!Release
    <2>3. ASSUME NEW n \in Requests, MallocCall(n) PROVE UNCHANGED live
      BY <2>3 DEF MallocCall
    <2>4. CASE MallocLoop \/ MallocNull \/ UNCHANGED vars
      BY <2>4 DEF MallocLoop, MallocNull, vars
    <2> QED BY <2>1, <2>2, <2>3, <2>4 DEF Next, MallocStep
  <1> QED BY <1>1, <1>2, Invariance, PTL DEF Spec, HeapContractHolds, Contract!Spec
=============================================================================
