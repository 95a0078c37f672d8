-------------------------------- MODULE GsMem --------------------------------
(***************************************************************************)
(* The memory pool of GlueSTiK (gluestik/gs_mem.c), from which it takes    *)
(* its connections and NDBs and its clients KRmalloc: a list of chunks,    *)
(* each behind a header, the first that fits is split, and free neighbours *)
(* are joined.                                                             *)
(*                                                                         *)
(* Lengths are in units of eight bytes, the size of a header; sizes are    *)
(* rounded up to units.  Nobody preempts a client in a call.               *)
(***************************************************************************)
EXTENDS Integers

CONSTANTS
    PoolSize,   \* units of the pool, the first header included
    Sizes,      \* that clients ask for
    Tags,       \* what clients write into their blocks
    Junk, Hdr   \* other contents of a unit: none, a header

ASSUME GsMemAssumption ==
    /\ PoolSize \in Nat /\ PoolSize > 1
    /\ Sizes \subseteq Nat

VARIABLES
    chunks,     \* the headers by their addresses
    held,       \* the blocks clients hold: length and tag by address
    mem         \* the contents of every unit

vars == <<chunks, held, mem>>

arena == 0

\* The null pointer: no chunk is behind the pool.
NULL == PoolSize

MIN_CHUNK == 2

Chunk(next, size, used) == [next |-> next, size |-> size, used |-> used]

Init ==
    /\ chunks = [h \in {arena} |-> Chunk(NULL, PoolSize - 1, FALSE)]
    /\ held = [p \in {} |-> [len |-> 0, tag |-> Junk]]
    /\ mem = [u \in 0 .. PoolSize - 1 |-> IF u = arena THEN Hdr ELSE Junk]

(***************************************************************************)
(* The list of chunks c.  It is in the order of the addresses (Tiled), so  *)
(* that the first chunk of the list is the lowest.                         *)
(***************************************************************************)
\* The chunk behind h, if there is one and it is free
FreeNext(c, h) == c[h].next # NULL /\ ~c[c[h].next].used

join_next(c, h, used) ==
    LET h2 == c[h].next
    IN  [a \in DOMAIN c \ {h2} |->
            IF a = h THEN Chunk(c[h2].next, c[h].size + c[h2].size + 1, used) ELSE c[a]]

JoinFree(c, h) == IF FreeNext(c, h) THEN join_next(c, h, FALSE) ELSE c

Splits(c, h, n) == c[h].size - n >= MIN_CHUNK

\* c with the chunk h cut in two, of n units and of the rest
Cut(c, h, n) ==
    LET r == h + 1 + n
    IN  [a \in DOMAIN c \cup {r} |->
            IF a = h THEN Chunk(r, n, TRUE)
            ELSE IF a = r THEN Chunk(c[h].next, c[h].size - n - 1, FALSE) ELSE c[a]]

try_split(c, h, n) ==
    IF Splits(c, h, n) THEN JoinFree(Cut(c, h, n), h + 1 + n)
                       ELSE [c EXCEPT ![h].used = TRUE]

Fits(c, n) == {h \in DOMAIN c : ~c[h].used /\ c[h].size >= n}

\* The chunk that gs_mem_alloc takes
IsFirst(c, n, h) == h \in Fits(c, n) /\ \A g \in Fits(c, n) : h <= g

\* Faulty: the chunk before is not looked for.
Released_NotBefore(c, h) == JoinFree([c EXCEPT ![h].used = FALSE], h)

\* What gs_mem_free makes of the list
Released(c, h) ==
    LET freed  == [c EXCEPT ![h].used = FALSE]
        joined == JoinFree(freed, h)
        before == {g \in DOMAIN joined : joined[g].next = h /\ ~joined[g].used}
    IN  IF before = {} THEN joined
        ELSE join_next(joined, CHOOSE g \in before : TRUE, FALSE)

(***************************************************************************)
(* The contents of the pool: headers that a call writes, and data.         *)
(***************************************************************************)
Headers(m, c) == [u \in DOMAIN m |-> IF u \in DOMAIN c \ DOMAIN chunks THEN Hdr ELSE m[u]]

Filled(m, p, from, to, tag) ==
    [u \in DOMAIN m |-> IF u \in p + from .. p + to - 1 THEN tag ELSE m[u]]

\* What is in units that nobody holds is of no interest.
Kept(m, c, b) ==
    [u \in DOMAIN m |->
        IF u \in DOMAIN c \/ \E p \in DOMAIN b : u \in p .. p + b[p].len - 1 THEN m[u] ELSE Junk]

\* Faulty: the last unit is forgotten.
Copied_Short(m, r, p, n) ==
    [u \in DOMAIN m |-> IF u \in r .. r + n - 2 THEN m[p + u - r] ELSE m[u]]

Copied(m, r, p, n) ==
    [u \in DOMAIN m |-> IF u \in r .. r + n - 1 THEN m[p + u - r] ELSE m[u]]

Lesser(m, n) == IF m < n THEN m ELSE n

\* What clients hold when one of them has a block of n units at p
Holds(b, p, n, tag) ==
    [o \in DOMAIN b \cup {p} |-> IF o = p THEN [len |-> n, tag |-> tag] ELSE b[o]]

Lets(b, p) == [o \in DOMAIN b \ {p} |-> b[o]]

Unused == Tags \ {held[p].tag : p \in DOMAIN held}

(***************************************************************************)
(* The calls.  A client fills the block that it gets.                      *)
(***************************************************************************)
gs_mem_alloc ==
    \E n \in Sizes \ {0}, h \in DOMAIN chunks, tag \in Unused :
        /\ IsFirst(chunks, n, h)
        /\ chunks' = try_split(chunks, h, n)
        /\ held' = Holds(held, h + 1, n, tag)
        /\ mem' = Filled(Headers(mem, chunks'), h + 1, 0, n, tag)

gs_mem_free ==
    \E p \in DOMAIN held :
        /\ chunks' = Released(chunks, p - 1)
        /\ held' = Lets(held, p)
        /\ mem' = Kept(mem, chunks', held')

\* gs_mem_realloc when the chunk is large enough
Shrink(p, n) ==
    /\ n <= chunks[p - 1].size
    /\ chunks' = try_split(chunks, p - 1, n)
    /\ held' = Holds(held, p, n, held[p].tag)
    /\ mem' = Kept(Filled(Headers(mem, chunks'), p, Lesser(held[p].len, n), n, held[p].tag),
                   chunks', held')

\* Faulty: the one behind it need not be free.
GrowsInPlace_AnyNext(c, h, n) ==
    /\ c[h].size < n
    /\ c[h].next # NULL
    /\ c[h].size + c[c[h].next].size + 1 >= n

\* when it is with the free one behind it
GrowsInPlace(c, h, n) ==
    /\ c[h].size < n
    /\ FreeNext(c, h)
    /\ c[h].size + c[c[h].next].size + 1 >= n

Grow(p, n) ==
    /\ GrowsInPlace(chunks, p - 1, n)
    /\ chunks' = try_split(join_next(chunks, p - 1, TRUE), p - 1, n)
    /\ held' = Holds(held, p, n, held[p].tag)
    /\ mem' = Kept(Filled(Headers(mem, chunks'), p, Lesser(held[p].len, n), n, held[p].tag),
                   chunks', held')

\* and when it has to move
Move(p, n) ==
    /\ chunks[p - 1].size < n /\ ~GrowsInPlace(chunks, p - 1, n)
    /\ \E h \in DOMAIN chunks :
          LET c == try_split(chunks, h, n)
              m == Copied(Headers(mem, c), h + 1, p, chunks[p - 1].size)
          IN  /\ IsFirst(chunks, n, h)
              /\ chunks' = Released(c, p - 1)
              /\ held' = Holds(Lets(held, p), h + 1, n, held[p].tag)
              /\ mem' = Kept(Filled(m, h + 1, held[p].len, n, held[p].tag), chunks', held')

gs_mem_realloc ==
    \E p \in DOMAIN held, n \in Sizes \ {0} : Shrink(p, n) \/ Grow(p, n) \/ Move(p, n)

Next == gs_mem_alloc \/ gs_mem_free \/ gs_mem_realloc

Spec == Init /\ [][Next]_vars

-----------------------------------------------------------------------------
(* The chunks cover the pool in the order of the list, and no two free     *)
(* chunks are neighbours: what is free is never cut up needlessly.         *)
Tiled(c) ==
    /\ arena \in DOMAIN c /\ DOMAIN c \subseteq 0 .. PoolSize - 1
    /\ \A h \in DOMAIN c :
          /\ c[h] \in [next : Nat, size : Nat \ {0}, used : BOOLEAN]
          /\ c[h].next = h + 1 + c[h].size
          /\ c[h].next \in DOMAIN c \cup {NULL}
    /\ \A h, g \in DOMAIN c : h < g => c[h].next <= g

Coalesced(c) == \A h \in DOMAIN c : ~(~c[h].used /\ FreeNext(c, h))

Used(c) == {h \in DOMAIN c : c[h].used}

\* The used chunks of c are the blocks b that clients hold, and long enough.
BlocksIn(b, c) ==
    /\ DOMAIN b = {h + 1 : h \in Used(c)}
    /\ \A h \in Used(c) : b[h + 1].len \in 1 .. c[h].size

BlocksHeld == BlocksIn(held, chunks)

HeapInv == Tiled(chunks) /\ Coalesced(chunks) /\ BlocksHeld

(* What a client wrote is still there, also when its block has moved, and  *)
(* no client has written over a header.                                    *)
Intact ==
    /\ \A p \in DOMAIN held : \A u \in p .. p + held[p].len - 1 : mem[u] = held[p].tag
    /\ \A h \in DOMAIN chunks : mem[h] = Hdr

H == INSTANCE Heap WITH live <- [p \in DOMAIN held |-> held[p].len]

(* The pool keeps the promises of an allocator.                            *)
HeapSpec == H!Spec
=============================================================================
