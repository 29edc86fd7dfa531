------------------------------- MODULE MemPool -------------------------------
(***************************************************************************)
(* The object pool, src/src/common/mempool.h: chunks of nodes that are      *)
(* never given back, a free list threaded through the free nodes, and a     *)
(* global index for every node.                                             *)
(*                                                                          *)
(* A node is <<c, k>>: place k, counted from 0, of chunk c, counted from 1. *)
(* A pointer to a node is the node itself (a chunk's memory never moves);   *)
(* Foreign stands for a pointer to no node.  Chunks are mapped to their     *)
(* sizes.                                                                   *)
(*                                                                          *)
(* `live' is a history variable: the nodes handed out and not returned.     *)
(***************************************************************************)
EXTENDS Integers, Sequences, SequencesExt

CONSTANTS
    InitialCapacity,    \* initial_capacity_, nodes of the first chunk
    MaxChunkSize,       \* kMaxChunkSize
    MaxChunks,          \* bound: chunks a behaviour can need
    Foreign,            \* a pointer to no node
    NULL                \* the null pointer

\* Every node there can ever be.
Objects == (1 .. MaxChunks) \X (0 .. MaxChunkSize + InitialCapacity)

ASSUME MemPoolAssumption ==
    /\ InitialCapacity \in Nat \ {0}
    /\ MaxChunkSize \in Nat \ {0}
    /\ MaxChunks \in Nat \ {0}
    /\ {Foreign, NULL} \cap Objects = {}

VARIABLES
    chunks_,            \* the sizes of the chunks
    chunk_offsets_,     \* the global index of the first node of each
    total_capacity_,    \* nodes in all
    free_list_head_,    \* a free node, or NULL
    next,               \* Node::next of every node
    is_free,            \* Node::is_free of every node
    reply,              \* what the last call answered, and of which node
    live                \* history: nodes handed out

vars == <<chunks_, chunk_offsets_, total_capacity_, free_list_head_, next,
          is_free, reply, live>>

Answer(answer, node) == [answer |-> answer, node |-> node]

Chunk(c, count) == {<<c, k>> : k \in 0 .. count - 1}
Nodes == UNION {Chunk(c, chunks_[c]) : c \in DOMAIN chunks_}

\* MUTANT: the loop stops one link short.
ChunkLinks_Short(c, count, head) ==
    [n \in Chunk(c, count) |->
        IF n[2] + 2 < count THEN <<c, n[2] + 1>> ELSE head]

\* The links of a new chunk: each node to the one behind it, the last to what
\* was the head of the free list.
ChunkLinks(c, count, head) ==
    [n \in Chunk(c, count) |->
        IF n[2] + 1 < count THEN <<c, n[2] + 1>> ELSE head]

Init ==
    /\ chunks_ = <<InitialCapacity>>
    /\ chunk_offsets_ = <<0>>
    /\ total_capacity_ = InitialCapacity
    /\ next = ChunkLinks(1, InitialCapacity, NULL)
    /\ is_free = [n \in Chunk(1, InitialCapacity) |-> TRUE]
    /\ free_list_head_ = <<1, 0>>
    /\ reply = Answer("none", NULL)
    /\ live = {}

-----------------------------------------------------------------------------
(* Indices.                                                                 *)

\* The chunk that holds a node, by linear search.
ChunkOf(node) == CHOOSE c \in DOMAIN chunks_ : node \in Chunk(c, chunks_[c])

\* The index of a node: its place counted from the first node of its chunk.
IndexOf(node) == chunk_offsets_[ChunkOf(node)] + node[2]

\* The index of a pointer is told, or the exception that it is in no chunk.
getIndex(ptr) ==
    /\ reply' = Answer(IF ptr \in Nodes THEN "index" ELSE "not in pool", ptr)
    /\ UNCHANGED <<chunks_, chunk_offsets_, total_capacity_, free_list_head_,
                   next, is_free, live>>

\* MUTANT: < for <= in the binary search.
resolveIndex_Strict(idx) ==
    LET Search[range \in (1 .. Len(chunks_)) \X (1 .. Len(chunks_) + 1)] ==
            LET lo  == range[1]
                hi  == range[2]
                mid == lo + (hi - lo) \div 2
            IN IF lo + 1 >= hi THEN lo
               ELSE IF chunk_offsets_[mid] < idx THEN Search[<<mid, hi>>]
               ELSE Search[<<lo, mid>>]
        c == Search[<<1, Len(chunks_) + 1>>]
    IN <<c, idx - chunk_offsets_[c]>>

\* The node with an index: binary search for the last chunk that does not begin
\* after it.
resolveIndex(idx) ==
    LET Search[range \in (1 .. Len(chunks_)) \X (1 .. Len(chunks_) + 1)] ==
            LET lo  == range[1]
                hi  == range[2]
                mid == lo + (hi - lo) \div 2
            IN IF lo + 1 >= hi THEN lo
               ELSE IF chunk_offsets_[mid] <= idx THEN Search[<<mid, hi>>]
               ELSE Search[<<lo, mid>>]
        c == Search[<<1, Len(chunks_) + 1>>]
    IN <<c, idx - chunk_offsets_[c]>>

InRange(idx) == idx < total_capacity_

get(idx) ==
    /\ reply' = IF InRange(idx) THEN Answer("node", resolveIndex(idx))
                ELSE Answer("out of range", NULL)
    /\ UNCHANGED <<chunks_, chunk_offsets_, total_capacity_, free_list_head_,
                   next, is_free, live>>

-----------------------------------------------------------------------------
(* Allocation.                                                              *)

\* The head of the free list is taken.
TakeHead(head, links, free) ==
    /\ free_list_head_' = links[head]
    /\ next' = [links EXCEPT ![head] = NULL]
    /\ is_free' = [free EXCEPT ![head] = FALSE]
    /\ reply' = Answer("pointer", head)
    /\ live' = live \cup {head}

\* The pool doubles, but by no more than MaxChunkSize nodes at a time.
GrowthSize ==
    LET most == IF InitialCapacity > total_capacity_ THEN InitialCapacity
                ELSE total_capacity_
    IN IF MaxChunkSize < most THEN MaxChunkSize ELSE most

\* The global index of the first node of the chunk that is added.
OffsetOfNewChunk == total_capacity_

\* The free list is empty: a chunk is added and its first node taken.
GrowAndTake ==
    LET c     == Len(chunks_) + 1
        count == GrowthSize
        links == ChunkLinks(c, count, free_list_head_)
    IN /\ Len(chunks_) < MaxChunks
       /\ chunks_' = Append(chunks_, count)
       /\ chunk_offsets_' = Append(chunk_offsets_, OffsetOfNewChunk)
       /\ total_capacity_' = total_capacity_ + count
       /\ TakeHead(<<c, 0>>,
                   [n \in Nodes \cup Chunk(c, count) |->
                        IF n \in Nodes THEN next[n] ELSE links[n]],
                   [n \in Nodes \cup Chunk(c, count) |->
                        IF n \in Nodes THEN is_free[n] ELSE TRUE])

allocate ==
    \/ /\ free_list_head_ # NULL
       /\ TakeHead(free_list_head_, next, is_free)
       /\ UNCHANGED <<chunks_, chunk_offsets_, total_capacity_>>
    \/ /\ free_list_head_ = NULL
       /\ GrowAndTake

\* MUTANT: no check for a double free.
Refusal_NoDoubleFree(ptr) == IF ptr \notin Nodes THEN "not in pool" ELSE "none"

\* The exception deallocate throws, or "none".
Refusal(ptr) ==
    IF ptr \notin Nodes THEN "not in pool"
    ELSE IF is_free[ptr] THEN "double free" ELSE "none"

\* A node goes to the front of the free list, unless it is refused.
deallocateImpl(ptr) ==
    /\ reply' = Answer(IF ptr = NULL THEN "none" ELSE Refusal(ptr), ptr)
    /\ \/ /\ ptr # NULL /\ Refusal(ptr) = "none"
          /\ next' = [next EXCEPT ![ptr] = free_list_head_]
          /\ free_list_head_' = ptr
          /\ is_free' = [is_free EXCEPT ![ptr] = TRUE]
          /\ live' = live \ {ptr}
       \/ /\ ptr = NULL \/ Refusal(ptr) # "none"
          /\ UNCHANGED <<next, free_list_head_, is_free, live>>
    /\ UNCHANGED <<chunks_, chunk_offsets_, total_capacity_>>

\* deallocate, by index.
deallocateIndex(idx) ==
    \/ /\ InRange(idx)
       /\ deallocateImpl(resolveIndex(idx))
    \/ /\ ~ InRange(idx)
       /\ reply' = Answer("out of range", NULL)
       /\ UNCHANGED <<chunks_, chunk_offsets_, total_capacity_, free_list_head_,
                      next, is_free, live>>

Next ==
    \/ allocate
    \/ \E ptr \in Nodes \cup {Foreign, NULL} : deallocateImpl(ptr) \/ getIndex(ptr)
    \/ \E idx \in 0 .. total_capacity_ : deallocateIndex(idx) \/ get(idx)

Spec == Init /\ [][Next]_vars

-----------------------------------------------------------------------------
(* Properties.                                                              *)

\* The nodes met on the way from the head of the free list, as far as there
\* are nodes to meet.
FreeList ==
    LET Met[k \in 0 .. total_capacity_] ==
            IF k = 0 THEN << >>
            ELSE LET sofar == Met[k - 1]
                     n == IF sofar = << >> THEN free_list_head_
                          ELSE next[Last(sofar)]
                 IN IF n = NULL THEN sofar ELSE Append(sofar, n)
    IN Met[total_capacity_]

\* The free list ends, and meets each free node once and no other; the free
\* nodes are those not handed out, and their number follows from the capacity.
\* A node that is lost, met twice or still in use breaks this, at the latest
\* when the pool grows or a node is returned twice (mempool.h:21-33, 140-162).
FreeListExact ==
    /\ ToSet(FreeList) = {n \in Nodes : is_free[n]}
    /\ IsInjective(FreeList)
    /\ FreeList # << >> => next[Last(FreeList)] = NULL
    /\ \A n \in Nodes : is_free[n] <=> n \notin live
    /\ Cardinality(live) + Len(FreeList) = total_capacity_

\* Index and node determine each other, whatever the sizes of the chunks: the
\* linear search one way and the binary search the other agree, and the indices
\* are those below total_capacity_ (mempool.h:36-45, 75-92).
IndicesAgree ==
    /\ \A n \in Nodes : InRange(IndexOf(n)) /\ resolveIndex(IndexOf(n)) = n
    /\ \A idx \in 0 .. total_capacity_ - 1 :
        resolveIndex(idx) \in Nodes /\ IndexOf(resolveIndex(idx)) = idx

\* The abstract pool, over all the nodes there can ever be.
Abstract == INSTANCE Pool

\* An object in use is never handed out, one that is out can be returned, and a
\* wrong return is refused and changes nothing.
ImplementsPool == Abstract!Spec
=============================================================================
