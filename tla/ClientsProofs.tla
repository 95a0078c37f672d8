--------------------------- MODULE ClientsProofs ---------------------------
(***************************************************************************)
(* Proofs about the two libraries of client programs.                      *)
(*                                                                         *)
(* The memory pool of GlueSTiK (GsMem): its invariant, and that it keeps   *)
(* the promises of an allocator (Heap), for every size of the pool and     *)
(* every sequence of calls.  The lemmas say what each operation makes of a *)
(* list of chunks; Used is what the clients see of it.                     *)
(*                                                                         *)
(* The resolver (Resolver): its invariant, for every number of servers,    *)
(* tries and domains, and whatever the network and the servers do.         *)
(***************************************************************************)
EXTENDS GsMem, Resolver, SequenceTheorems, TLAPS


(* Chunks of a tiled list do not reach beyond the pool, and lie apart.     *)
LEMMA TiledFacts ==
    ASSUME GsMemAssumption, NEW c, Tiled(c), NEW h \in DOMAIN c
    PROVE  /\ h \in Nat /\ h < PoolSize
           /\ c[h].size \in Nat \ {0} /\ c[h].used \in BOOLEAN
           /\ c[h] = Chunk(c[h].next, c[h].size, c[h].used)
           /\ c[h].next = h + 1 + c[h].size /\ c[h].next <= PoolSize
           /\ \A g \in DOMAIN c \ {h} :
                 h + 1 + c[h].size <= g \/ g + 1 + c[g].size <= h
  <1>1. c[h] \in [next : Nat, size : Nat \ {0}, used : BOOLEAN]
    BY DEF Tiled
  <1>2. h \in 0 .. PoolSize - 1 /\ PoolSize \in Nat
    BY DEF Tiled, GsMemAssumption
  <1>3. c[h].next = h + 1 + c[h].size /\ c[h].next \in DOMAIN c \cup {PoolSize}
    BY DEF Tiled, NULL
  <1>4. \A g \in DOMAIN c \ {h} : g \in Int /\ (h < g \/ g < h)
    BY <1>2 DEF Tiled, GsMemAssumption
  <1>5. \A g \in DOMAIN c \ {h} : h + 1 + c[h].size <= g \/ g + 1 + c[g].size <= h
    BY <1>4 DEF Tiled
  <1>6. c[h].next <= PoolSize
    BY <1>3, <1>2 DEF Tiled
  <1> QED
    BY <1>1, <1>2, <1>3, <1>5, <1>6 DEF Chunk

(***************************************************************************)
(* What the operations make of a list c: d is c with the chunk h marked,   *)
(* joined with the next one, cut behind n units.                           *)
(***************************************************************************)
IsMarked(c, h, s, d) ==
    /\ Tiled(d) /\ DOMAIN d = DOMAIN c
    /\ d[h] = Chunk(c[h].next, c[h].size, s)
    /\ \A a \in DOMAIN c \ {h} : d[a] = c[a]

IsJoined(c, h, h2, s, d) ==
    /\ Tiled(d)
    /\ h2 \in DOMAIN c /\ h2 # h /\ DOMAIN d = DOMAIN c \ {h2}
    /\ d[h] = Chunk(c[h2].next, c[h].size + c[h2].size + 1, s)
    /\ \A a \in DOMAIN d \ {h} : d[a] = c[a] /\ c[a].next # h2

IsCut(c, h, n, r, d) ==
    /\ Tiled(d)
    /\ r \notin DOMAIN c /\ DOMAIN d = DOMAIN c \cup {r}
    /\ d[h] = Chunk(r, n, TRUE)
    /\ d[r] = Chunk(c[h].next, c[h].size - n - 1, FALSE)
    /\ \A a \in DOMAIN c \ {h} : d[a] = c[a]

(* Marking a chunk keeps the list tiled.                                   *)
LEMMA MarkTiled ==
    ASSUME GsMemAssumption, NEW c, Tiled(c), NEW h \in DOMAIN c, NEW s \in BOOLEAN,
           NEW d, d = [c EXCEPT ![h].used = s]
    PROVE  IsMarked(c, h, s, d)
  <1>1. c[h] \in [next : Nat, size : Nat \ {0}, used : BOOLEAN]
    BY DEF Tiled
  <1>2. d[h] = Chunk(c[h].next, c[h].size, s)
    BY <1>1 DEF Chunk
  <1>3. DOMAIN d = DOMAIN c /\ \A a \in DOMAIN c \ {h} : d[a] = c[a]
    OBVIOUS
  <1>4. \A a \in DOMAIN c : d[a].next = c[a].next /\ d[a].size = c[a].size
    BY <1>2, <1>3 DEF Chunk
  <1>5. \A a \in DOMAIN c : d[a] \in [next : Nat, size : Nat \ {0}, used : BOOLEAN]
    BY <1>1, <1>2, <1>3 DEF Chunk, Tiled
  <1>6. Tiled(d)
    BY <1>3, <1>4, <1>5 DEF Tiled
  <1> QED BY <1>2, <1>3, <1>6 DEF IsMarked

(* Joining a chunk with the next one keeps the list tiled.                 *)
LEMMA JoinTiled ==
    ASSUME GsMemAssumption, NEW c, Tiled(c), NEW h \in DOMAIN c, c[h].next # NULL,
           NEW s \in BOOLEAN, NEW d, d = join_next(c, h, s)
    PROVE  IsJoined(c, h, c[h].next, s, d)
  <1> PICK h2 : h2 = c[h].next
    OBVIOUS
  <1>1. h2 \in DOMAIN c /\ h2 # h
    BY TiledFacts DEF Tiled
  <1>2. DOMAIN d = DOMAIN c \ {h2}
    BY DEF join_next
  <1>3. d[h] = Chunk(c[h2].next, c[h].size + c[h2].size + 1, s)
    BY <1>1 DEF join_next
  <1>4. \A a \in DOMAIN d \ {h} : d[a] = c[a]
    BY DEF join_next
  <1>h. /\ h \in Nat /\ c[h].size \in Nat \ {0} /\ h2 = h + 1 + c[h].size
        /\ c[h2].size \in Nat \ {0} /\ c[h2].next = h2 + 1 + c[h2].size
    BY <1>1, TiledFacts
  <1>5. \A a \in DOMAIN d \ {h} : c[a].next # h2 /\ a \in Nat
    <2> TAKE a \in DOMAIN d \ {h}
    <2>1. a \in DOMAIN c /\ a # h2 /\ a # h
      BY <1>2
    <2>2. a \in Nat /\ c[a].size \in Nat \ {0} /\ c[a].next = a + 1 + c[a].size
      BY <2>1, TiledFacts
    <2>3. h + 1 + c[h].size <= a \/ a + 1 + c[a].size <= h
      BY <2>1, TiledFacts
    <2> QED BY <2>2, <2>3, <1>h
  <1>6. Tiled(d)
    <2>1. arena \in DOMAIN d /\ DOMAIN d \subseteq 0 .. PoolSize - 1
      BY <1>2, <1>h DEF Tiled, arena
    <2>2. ASSUME NEW a \in DOMAIN d
          PROVE  /\ d[a] \in [next : Nat, size : Nat \ {0}, used : BOOLEAN]
                 /\ d[a].next = a + 1 + d[a].size
                 /\ d[a].next \in DOMAIN d \cup {NULL}
      <3>1. CASE a = h
        <4>1. c[h2].next \in DOMAIN c \cup {NULL} /\ c[h2].next # h2
          BY <1>1, <1>h DEF Tiled
        <4> QED BY <3>1, <4>1, <1>2, <1>3, <1>h DEF Chunk
      <3>2. CASE a # h
        BY <3>2, <1>2, <1>4, <1>5 DEF Tiled
      <3> QED BY <3>1, <3>2
    <2>3. ASSUME NEW a \in DOMAIN d, NEW g \in DOMAIN d, a < g
          PROVE  d[a].next <= g
      <3>1. a \in DOMAIN c /\ g \in DOMAIN c /\ g # h2 /\ g \in Nat
        BY <1>2, TiledFacts
      <3>2. CASE a = h
        <4>1. h2 < g
          BY <3>1, <3>2, <2>3, <1>h DEF Tiled
        <4>2. c[h2].next <= g
          BY <4>1, <3>1, <1>1 DEF Tiled
        <4> QED BY <4>2, <3>2, <1>3 DEF Chunk
      <3>3. CASE a # h
        BY <3>1, <3>3, <2>3, <1>4 DEF Tiled
      <3> QED BY <3>2, <3>3
    <2> QED BY <2>1, <2>2, <2>3 DEF Tiled
  <1> QED BY <1>1, <1>2, <1>3, <1>4, <1>5, <1>6 DEF IsJoined

(* Cutting a chunk in two keeps the list tiled.                            *)
LEMMA CutTiled ==
    ASSUME GsMemAssumption, NEW c, Tiled(c), NEW h \in DOMAIN c,
           NEW n \in Nat \ {0}, Splits(c, h, n),
           NEW d, d = Cut(c, h, n)
    PROVE  IsCut(c, h, n, h + 1 + n, d)
  <1> PICK r : r = h + 1 + n
    OBVIOUS
  <1>h. /\ h \in Nat /\ c[h].size \in Nat \ {0} /\ c[h].next = h + 1 + c[h].size
        /\ c[h].next <= PoolSize /\ PoolSize \in Nat
        /\ c[h].size - n >= 2
    BY TiledFacts DEF Splits, MIN_CHUNK, GsMemAssumption
  <1>1. r \in Nat /\ h < r /\ r + 1 < c[h].next
    BY <1>h
  <1>2. r \notin DOMAIN c
    BY <1>h, <1>1 DEF Tiled
  <1>3. DOMAIN d = DOMAIN c \cup {r}
    BY DEF Cut
  <1>4. /\ d[h] = Chunk(r, n, TRUE)
        /\ d[r] = Chunk(c[h].next, c[h].size - n - 1, FALSE)
        /\ \A a \in DOMAIN c \ {h} : d[a] = c[a]
    BY <1>1, <1>2 DEF Cut
  <1>5. \A a \in DOMAIN c \ {h} :
           /\ a \in Nat /\ c[a].size \in Nat \ {0} /\ c[a].next = a + 1 + c[a].size
           /\ (c[h].next <= a \/ c[a].next <= h)
    BY TiledFacts, <1>h
  <1>6. \A g \in DOMAIN d : g \in Nat
    BY <1>1, <1>3, <1>5, <1>h
  <1>7. Tiled(d)
    <2>1. arena \in DOMAIN d /\ DOMAIN d \subseteq 0 .. PoolSize - 1
      BY <1>3, <1>1, <1>h DEF Tiled
    <2>2. ASSUME NEW a \in DOMAIN d
          PROVE  /\ d[a] \in [next : Nat, size : Nat \ {0}, used : BOOLEAN]
                 /\ d[a].next = a + 1 + d[a].size
                 /\ d[a].next \in DOMAIN d \cup {NULL}
      <3>1. CASE a = h
        BY <3>1, <1>3, <1>4, <1>1, <1>h DEF Chunk
      <3>2. CASE a = r
        <4>1. c[h].next \in DOMAIN c \cup {NULL}
          BY DEF Tiled
        <4>2. c[h].size - n - 1 \in Nat \ {0}
          BY <1>h
        <4> QED BY <3>2, <4>1, <4>2, <1>3, <1>4, <1>1, <1>h DEF Chunk
      <3>3. CASE a # h /\ a # r
        BY <3>3, <1>3, <1>4 DEF Tiled
      <3> QED BY <3>1, <3>2, <3>3
    <2>3. ASSUME NEW a \in DOMAIN d, NEW g \in DOMAIN d, a < g
          PROVE  d[a].next <= g
      <3>1. CASE a = h /\ g # r
        <4>1. c[h].next <= g
          BY <3>1, <2>3, <1>3 DEF Tiled
        <4>2. g \in Nat
          BY <1>6
        <4> QED BY <3>1, <4>1, <4>2, <1>4, <1>1, <1>h DEF Chunk
      <3>2. CASE a = h /\ g = r
        BY <3>2, <1>4, <1>1 DEF Chunk
      <3>3. CASE a = r
        <4>0. g \in Nat /\ h < g /\ g # r
          BY <3>3, <2>3, <1>1, <1>6, <1>h
        <4>1. g \in DOMAIN c \ {h} /\ g \in Nat
          BY <4>0, <1>3, <1>h
        <4>2. c[h].next <= g
          <5>1. c[h].next <= g \/ c[g].next <= h
            BY <4>1, <1>5
          <5>2. c[g].next \in Nat /\ g < c[g].next
            BY <4>1, <1>5
          <5> QED BY <5>1, <5>2, <4>0, <1>h
        <4> QED BY <3>3, <4>2, <1>4 DEF Chunk
      <3>4. CASE a # h /\ a # r /\ g = r
        <4>1. c[a].next <= h
          BY <3>4, <2>3, <1>1, <1>3, <1>5, <1>h
        <4> QED BY <4>1, <3>4, <1>1, <1>3, <1>4, <1>5, <1>h
      <3>5. CASE a # h /\ a # r /\ g # r
        BY <3>5, <2>3, <1>3, <1>4 DEF Tiled
      <3> QED BY <3>1, <3>2, <3>3, <3>4, <3>5
    <2> QED BY <2>1, <2>2, <2>3 DEF Tiled
  <1> QED BY <1>2, <1>3, <1>4, <1>7 DEF IsCut

(* No two chunks end at the same place.                                    *)
LEMMA NextInjective ==
    ASSUME GsMemAssumption, NEW c, Tiled(c), NEW a \in DOMAIN c, NEW g \in DOMAIN c \ {a}
    PROVE  c[a].next # c[g].next
  <1>1. /\ a \in Nat /\ c[a].size \in Nat \ {0} /\ c[a].next = a + 1 + c[a].size
        /\ (a + 1 + c[a].size <= g \/ g + 1 + c[g].size <= a)
    BY TiledFacts
  <1>2. g \in Nat /\ c[g].size \in Nat \ {0} /\ c[g].next = g + 1 + c[g].size
    BY TiledFacts
  <1> QED BY <1>1, <1>2

(* Free neighbours of the list c are found at h only: the chunk h and the  *)
(* one behind it, or the one before h and h.                               *)
OnlyAt(c, h) ==
    \A a \in DOMAIN c \ {h} : ~c[a].used /\ FreeNext(c, a) => c[a].next = h

\* d is c with the free chunk h joined with what is free behind it.
IsGrown(c, h, d) ==
    /\ Tiled(d) /\ h \in DOMAIN d /\ ~d[h].used
    /\ Used(d) = Used(c)
    /\ \A a \in Used(c) : d[a] = c[a]
    /\ OnlyAt(d, h) /\ ~FreeNext(d, h)

(* Joining a free chunk with the next one, if that is free, leaves the     *)
(* used chunks alone, and no free chunk behind it.                         *)
LEMMA JoinFreeFacts ==
    ASSUME GsMemAssumption, NEW c, Tiled(c), NEW h \in DOMAIN c, ~c[h].used, OnlyAt(c, h),
           NEW d, d = JoinFree(c, h)
    PROVE  IsGrown(c, h, d)
  <1>1. CASE ~FreeNext(c, h)
    BY <1>1 DEF JoinFree, IsGrown
  <1>2. CASE FreeNext(c, h)
    <2> PICK h2 : h2 = c[h].next
      OBVIOUS
    <2>0. d = join_next(c, h, FALSE) /\ c[h].next # NULL /\ ~c[h2].used
      BY <1>2 DEF JoinFree, FreeNext
    <2>j. IsJoined(c, h, h2, FALSE, d)
      BY <2>0, JoinTiled
    <2>1. /\ Tiled(d)
          /\ h2 \in DOMAIN c /\ h2 # h /\ DOMAIN d = DOMAIN c \ {h2}
          /\ d[h] = Chunk(c[h2].next, c[h].size + c[h2].size + 1, FALSE)
          /\ \A a \in DOMAIN d \ {h} : d[a] = c[a] /\ c[a].next # h2
      BY <2>j DEF IsJoined
    <2>2. ~d[h].used /\ d[h].next = c[h2].next
      BY <2>1 DEF Chunk
    <2>3. Used(d) = Used(c) /\ \A a \in Used(c) : d[a] = c[a]
      BY <2>0, <2>1, <2>2 DEF Used
    <2>4. OnlyAt(d, h)
      <3> SUFFICES ASSUME NEW a \in DOMAIN d \ {h}, ~d[a].used, FreeNext(d, a),
                          d[a].next # h
                   PROVE  FALSE
        BY DEF OnlyAt
      <3>1. d[a] = c[a] /\ c[a].next \in DOMAIN d \ {h}
        BY <2>1 DEF FreeNext, Tiled
      <3>2. FreeNext(c, a)
        BY <3>1, <2>1 DEF FreeNext
      <3> QED BY <3>1, <3>2, <2>1 DEF OnlyAt
    <2>5. ~FreeNext(d, h)
      <3> SUFFICES ASSUME FreeNext(d, h) PROVE FALSE
        OBVIOUS
      <3>1. d[h].next \in DOMAIN d \ {h}
        <4>1. d[h].next \in DOMAIN d
          BY <2>1 DEF FreeNext, Tiled
        <4>2. h \in DOMAIN d
          BY <2>1
        <4>3. d[h].next = h + 1 + d[h].size /\ h \in Nat /\ d[h].size \in Nat
          <5>1. Tiled(d)
            BY <2>1
          <5> HIDE <2>1
          <5> QED BY <5>1, <4>2, TiledFacts
        <4>4. d[h].next # h
          BY <4>3
        <4> QED BY <4>1, <4>4
      <3>2. FreeNext(c, h2) /\ c[h2].next = d[h].next
        BY <3>1, <2>1, <2>2 DEF FreeNext
      <3>3. c[h2].next = h
        BY <3>2, <2>0, <2>1 DEF OnlyAt
      <3> QED BY <3>1, <3>2, <3>3
    <2> QED BY <2>1, <2>2, <2>3, <2>4, <2>5 DEF IsGrown
  <1> QED BY <1>1, <1>2

(* try_split takes a chunk into use and leaves it long enough.             *)
LEMMA SplitFacts ==
    ASSUME GsMemAssumption, NEW c, Tiled(c), Coalesced(c), NEW h \in DOMAIN c,
           NEW n \in Nat \ {0}, n <= c[h].size, NEW d, d = try_split(c, h, n)
    PROVE  /\ Tiled(d) /\ Coalesced(d)
           /\ Used(d) = Used(c) \cup {h} /\ d[h].size >= n
           /\ \A a \in Used(c) \ {h} : d[a] = c[a]
  <1>h. c[h].size \in Nat /\ n \in Nat
    BY TiledFacts
  <1>1. CASE ~Splits(c, h, n)
    <2>0. d = [c EXCEPT ![h].used = TRUE]
      BY <1>1 DEF try_split
    <2>1. /\ Tiled(d) /\ DOMAIN d = DOMAIN c
          /\ d[h] = Chunk(c[h].next, c[h].size, TRUE)
          /\ \A a \in DOMAIN c \ {h} : d[a] = c[a]
      BY <2>0, MarkTiled DEF IsMarked
    <2>2. d[h].used /\ d[h].size = c[h].size /\ d[h].next = c[h].next
      BY <2>1 DEF Chunk
    <2>3. Used(d) = Used(c) \cup {h} /\ \A a \in Used(c) \ {h} : d[a] = c[a]
      BY <2>1, <2>2 DEF Used
    <2>4. Coalesced(d)
      <3> SUFFICES ASSUME NEW a \in DOMAIN d, ~d[a].used, FreeNext(d, a) PROVE FALSE
        BY DEF Coalesced
      <3>1. a # h /\ d[a] = c[a] /\ c[a].next \in DOMAIN d \ {h}
        BY <2>1, <2>2 DEF FreeNext, Tiled
      <3>2. FreeNext(c, a)
        BY <3>1, <2>1 DEF FreeNext
      <3> QED BY <3>1, <3>2, <2>1 DEF Coalesced
    <2> QED BY <2>1, <2>2, <2>3, <2>4, <1>h
  <1>2. CASE Splits(c, h, n)
    <2> PICK k : k = Cut(c, h, n)
      OBVIOUS
    <2> PICK r : r = h + 1 + n
      OBVIOUS
    <2>0. d = JoinFree(k, r)
      BY <1>2 DEF try_split
    <2>c. IsCut(c, h, n, r, k)
      BY <1>2, CutTiled
    <2>1. /\ Tiled(k)
          /\ r \notin DOMAIN c /\ DOMAIN k = DOMAIN c \cup {r}
          /\ k[h] = Chunk(r, n, TRUE)
          /\ k[r] = Chunk(c[h].next, c[h].size - n - 1, FALSE)
          /\ \A a \in DOMAIN c \ {h} : k[a] = c[a]
      BY <2>c DEF IsCut
    <2>2. /\ k[h].used /\ k[h].size = n /\ k[h].next = r
          /\ ~k[r].used
      BY <2>1 DEF Chunk
    <2>3. Used(k) = Used(c) \cup {h}
      BY <2>1, <2>2 DEF Used
    <2>4. OnlyAt(k, r)
      <3> SUFFICES ASSUME NEW a \in DOMAIN k \ {r}, ~k[a].used, FreeNext(k, a),
                          k[a].next # r
                   PROVE  FALSE
        BY DEF OnlyAt
      <3>1. a \in DOMAIN c \ {h} /\ k[a] = c[a]
        BY <2>1, <2>2
      <3>2. c[a].next \in DOMAIN c \ {h}
        BY <3>1, <2>1, <2>2 DEF FreeNext, Tiled
      <3>3. FreeNext(c, a)
        BY <3>1, <3>2, <2>1 DEF FreeNext
      <3> QED BY <3>1, <3>3 DEF Coalesced
    <2>5. /\ Tiled(d) /\ r \in DOMAIN d /\ ~d[r].used
          /\ Used(d) = Used(k)
          /\ \A a \in Used(k) : d[a] = k[a]
          /\ OnlyAt(d, r) /\ ~FreeNext(d, r)
      <3>1. r \in DOMAIN k
        BY <2>1
      <3>2. IsGrown(k, r, d)
        BY <3>1, <2>0, <2>1, <2>2, <2>4, JoinFreeFacts
      <3> QED BY <3>2 DEF IsGrown
    <2>6. d[h] = k[h] /\ h \in DOMAIN d
      BY <2>3, <2>5 DEF Used
    <2>7. Coalesced(d)
      <3> SUFFICES ASSUME NEW a \in DOMAIN d, ~d[a].used, FreeNext(d, a) PROVE FALSE
        BY DEF Coalesced
      <3>1. a # r /\ d[a].next = r
        BY <2>5 DEF OnlyAt
      <3>2. a # h
        BY <2>6, <2>2
      <3> QED BY <3>1, <3>2, <2>6, <2>2, <2>5, NextInjective
    <2>8. \A a \in Used(c) \ {h} : d[a] = c[a]
      BY <2>5, <2>3, <2>1 DEF Used
    <2> QED BY <2>2, <2>3, <2>5, <2>6, <2>7, <2>8, <1>h
  <1> QED BY <1>1, <1>2

(* gs_mem_free gives one chunk back and leaves the used ones alone.        *)
LEMMA ReleasedFacts ==
    ASSUME GsMemAssumption, NEW c, Tiled(c), Coalesced(c), NEW h \in DOMAIN c,
           NEW d, d = Released(c, h)
    PROVE  /\ Tiled(d) /\ Coalesced(d)
           /\ Used(d) = Used(c) \ {h}
           /\ \A a \in Used(c) \ {h} : d[a] = c[a]
  <1> PICK freed : freed = [c EXCEPT ![h].used = FALSE]
    OBVIOUS
  <1> PICK joined : joined = JoinFree(freed, h)
    OBVIOUS
  <1> PICK before : before = {g \in DOMAIN joined : joined[g].next = h /\ ~joined[g].used}
    OBVIOUS
  <1>0. d = IF before = {} THEN joined
            ELSE join_next(joined, CHOOSE g \in before : TRUE, FALSE)
    BY DEF Released
  <1>1. /\ Tiled(freed) /\ DOMAIN freed = DOMAIN c
        /\ freed[h] = Chunk(c[h].next, c[h].size, FALSE)
        /\ \A a \in DOMAIN c \ {h} : freed[a] = c[a]
    <2>1. IsMarked(c, h, FALSE, freed)
      BY MarkTiled
    <2> QED BY <2>1 DEF IsMarked
  <1>2. ~freed[h].used
    BY <1>1 DEF Chunk
  <1>3. Used(freed) = Used(c) \ {h}
    BY <1>1, <1>2 DEF Used
  <1>4. OnlyAt(freed, h)
    <2> SUFFICES ASSUME NEW a \in DOMAIN freed \ {h}, ~freed[a].used,
                        FreeNext(freed, a), freed[a].next # h
                 PROVE  FALSE
      BY DEF OnlyAt
    <2>1. freed[a] = c[a] /\ c[a].next \in DOMAIN c \ {h}
      BY <1>1 DEF FreeNext, Tiled
    <2>2. FreeNext(c, a)
      BY <2>1, <1>1 DEF FreeNext
    <2> QED BY <2>1, <2>2, <1>1 DEF Coalesced
  <1>5. /\ Tiled(joined) /\ h \in DOMAIN joined /\ ~joined[h].used
        /\ Used(joined) = Used(freed)
        /\ \A a \in Used(freed) : joined[a] = freed[a]
        /\ OnlyAt(joined, h) /\ ~FreeNext(joined, h)
    <2>1. h \in DOMAIN freed
      BY <1>1
    <2>2. IsGrown(freed, h, joined)
      BY <2>1, <1>1, <1>2, <1>4, JoinFreeFacts
    <2> QED BY <2>2 DEF IsGrown
  <1>6. \A a \in Used(c) \ {h} : joined[a] = c[a]
    BY <1>5, <1>3, <1>1 DEF Used
  <1>7. CASE before = {}
    <2>1. d = joined
      BY <1>7, <1>0
    <2>2. Coalesced(joined)
      BY <1>5, <1>7 DEF Coalesced, OnlyAt
    <2> QED BY <2>1, <2>2, <1>3, <1>5, <1>6
  <1>8. CASE before # {}
    <2> PICK g : g = CHOOSE x \in before : TRUE
      OBVIOUS
    <2>1. g \in before
      BY <1>8
    <2>2. g \in DOMAIN joined /\ joined[g].next = h /\ ~joined[g].used
      BY <2>1
    <2>3. d = join_next(joined, g, FALSE)
      BY <1>8, <1>0
    <2>4. h # NULL
      BY <1>5, TiledFacts, GsMemAssumption DEF NULL
    <2>j. IsJoined(joined, g, h, FALSE, d)
      <3>1. joined[g].next # NULL
        BY <2>2, <2>4
      <3>2. IsJoined(joined, g, joined[g].next, FALSE, d)
        BY <3>1, <2>2, <2>3, <1>5, JoinTiled
      <3> QED BY <3>2, <2>2
    <2>5. /\ Tiled(d)
          /\ h # g /\ DOMAIN d = DOMAIN joined \ {h}
          /\ d[g] = Chunk(joined[h].next, joined[g].size + joined[h].size + 1, FALSE)
          /\ \A a \in DOMAIN d \ {g} : d[a] = joined[a] /\ joined[a].next # h
      BY <2>j DEF IsJoined
    <2>6. ~d[g].used /\ d[g].next = joined[h].next
      BY <2>5 DEF Chunk
    <2>7. Used(d) = Used(joined) /\ \A a \in Used(joined) : d[a] = joined[a]
      <3>1. \A a \in DOMAIN joined : joined[a].used => a \in DOMAIN d \ {g}
        BY <2>2, <2>5, <1>5
      <3>2. \A a \in DOMAIN d : d[a].used => a # g /\ d[a] = joined[a] /\ a \in DOMAIN joined
        BY <2>5, <2>6
      <3>3. \A a : a \in Used(d) <=> a \in Used(joined)
        BY <3>1, <3>2, <2>5 DEF Used
      <3>4. \A a \in Used(joined) : d[a] = joined[a]
        BY <3>1, <2>5 DEF Used
      <3> QED BY <3>3, <3>4
    <2>8. Coalesced(d)
      <3> SUFFICES ASSUME NEW a \in DOMAIN d, ~d[a].used, FreeNext(d, a) PROVE FALSE
        BY DEF Coalesced
      <3>1. d[a].next \in DOMAIN d /\ ~d[d[a].next].used
        BY <2>5 DEF FreeNext, Tiled
      <3>2. ~joined[d[a].next].used
        BY <3>1, <2>2, <2>5
      <3>3. CASE a = g
        BY <3>1, <3>2, <3>3, <2>6, <1>5 DEF FreeNext
      <3>4. CASE a # g
        <4>1. d[a] = joined[a] /\ joined[a].next # h
          BY <3>4, <2>5
        <4>2. FreeNext(joined, a) /\ ~joined[a].used /\ a \in DOMAIN joined \ {h}
          BY <4>1, <3>2, <2>5 DEF FreeNext
        <4> QED BY <4>1, <4>2, <1>5 DEF OnlyAt
      <3> QED BY <3>3, <3>4
    <2> QED BY <2>5, <2>7, <2>8, <1>3, <1>5, <1>6
  <1> QED BY <1>7, <1>8

-----------------------------------------------------------------------------
(* A block taken from the chunk h, or given back to the list.              *)
LEMMA TakenUse ==
    ASSUME GsMemAssumption, NEW c, NEW b, BlocksIn(b, c), NEW d, Tiled(d), NEW h,
           Used(d) = Used(c) \cup {h}, \A a \in Used(c) \ {h} : d[a] = c[a],
           NEW n \in Nat \ {0}, d[h].size >= n, NEW tag
    PROVE  BlocksIn(Holds(b, h + 1, n, tag), d)
  <1> PICK e : e = Holds(b, h + 1, n, tag)
    OBVIOUS
  <1>0. \A a \in Used(d) : a \in Nat /\ d[a].size \in Nat
    BY TiledFacts DEF Used
  <1>1. DOMAIN e = DOMAIN b \cup {h + 1}
    BY DEF Holds
  <1>2. DOMAIN b = {a + 1 : a \in Used(c)}
    BY DEF BlocksIn
  <1>3. DOMAIN e = {a + 1 : a \in Used(d)}
    BY <1>1, <1>2
  <1>4. ASSUME NEW a \in Used(d) PROVE e[a + 1].len \in 1 .. d[a].size
    <2>0. h \in Used(d) /\ a \in Nat /\ d[a].size \in Nat /\ h \in Nat
      BY <1>0
    <2>1. CASE a = h
      <3>1. e[a + 1].len = n
        BY <2>1, <1>1 DEF Holds
      <3> QED BY <3>1, <2>0, <2>1
    <2>2. CASE a # h
      <3>1. a \in Used(c) /\ d[a] = c[a]
        BY <2>2
      <3>2. a + 1 \in DOMAIN b /\ a + 1 # h + 1
        BY <3>1, <2>0, <2>2, <1>2
      <3>3. e[a + 1] = b[a + 1]
        BY <3>2, <1>1 DEF Holds
      <3> QED BY <3>1, <3>3 DEF BlocksIn
    <2> QED BY <2>1, <2>2
  <1> QED BY <1>3, <1>4 DEF BlocksIn

(* The same when the block of the chunk h is given back.                   *)
LEMMA GivenBack ==
    ASSUME GsMemAssumption, NEW c, Tiled(c), NEW b, BlocksIn(b, c), NEW d,
           NEW h \in Used(c), Used(d) = Used(c) \ {h},
           \A a \in Used(c) \ {h} : d[a] = c[a]
    PROVE  BlocksIn(Lets(b, h + 1), d)
  <1>0. \A a \in Used(c) : a \in Nat
    BY TiledFacts DEF Used
  <1>1. DOMAIN b = {a + 1 : a \in Used(c)}
    BY DEF BlocksIn
  <1>2. DOMAIN Lets(b, h + 1) = DOMAIN b \ {h + 1}
    BY DEF Lets
  <1>3. {a + 1 : a \in Used(c)} \ {h + 1} = {a + 1 : a \in Used(c) \ {h}}
    <2>1. \A x : x \in {a + 1 : a \in Used(c)} \ {h + 1}
                    <=> x \in {a + 1 : a \in Used(c) \ {h}}
      BY <1>0
    <2> QED BY <2>1
  <1>4. DOMAIN Lets(b, h + 1) = {a + 1 : a \in Used(d)}
    BY <1>1, <1>2, <1>3
  <1>5. ASSUME NEW a \in Used(d)
        PROVE  Lets(b, h + 1)[a + 1].len \in 1 .. d[a].size
    <2>1. a \in Used(c) /\ a # h /\ d[a] = c[a]
      OBVIOUS
    <2>2. a + 1 \in DOMAIN b \ {h + 1}
      BY <2>1, <1>0, <1>1
    <2>3. Lets(b, h + 1)[a + 1] = b[a + 1]
      BY <2>2 DEF Lets
    <2> QED BY <2>1, <2>3 DEF BlocksIn
  <1> QED BY <1>4, <1>5 DEF BlocksIn

(* Every call keeps the invariant.                                         *)
Good(b, c) == Tiled(c) /\ Coalesced(c) /\ BlocksIn(b, c)

(* The invariant, of the pool before and after a step.                     *)
LEMMA HeapInvIs == /\ HeapInv <=> Good(held, chunks)
                   /\ HeapInv' <=> Good(held, chunks)'
  BY DEF HeapInv, Good, BlocksHeld

\* A chunk that gs_mem_alloc takes is free, and long enough.
LEMMA FirstFacts ==
    ASSUME GsMemAssumption, NEW c, NEW n, NEW h, IsFirst(c, n, h)
    PROVE  h \in DOMAIN c /\ ~c[h].used /\ c[h].size >= n /\ h \notin Used(c)
  BY DEF IsFirst, Fits, Used

(* Taking a chunk into use gives its block to a client.                    *)
LEMMA TakeSplit ==
    ASSUME GsMemAssumption, NEW c, NEW b, Good(b, c), NEW h \in DOMAIN c,
           NEW n \in Nat \ {0}, n <= c[h].size, NEW tag
    PROVE  Good(Holds(b, h + 1, n, tag), try_split(c, h, n))
  <1> PICK d : d = try_split(c, h, n)
    OBVIOUS
  <1>1. /\ Tiled(d) /\ Coalesced(d)
        /\ Used(d) = Used(c) \cup {h} /\ d[h].size >= n
        /\ \A a \in Used(c) \ {h} : d[a] = c[a]
    BY SplitFacts DEF Good
  <1>2. BlocksIn(Holds(b, h + 1, n, tag), d)
    BY <1>1, TakenUse DEF Good
  <1> QED BY <1>1, <1>2 DEF Good

(* Freeing the block of a chunk takes it from its client.                  *)
LEMMA GiveBack ==
    ASSUME GsMemAssumption, NEW c, NEW b, Good(b, c), NEW h \in Used(c)
    PROVE  Good(Lets(b, h + 1), Released(c, h))
  <1> PICK d : d = Released(c, h)
    OBVIOUS
  <1>0. h \in DOMAIN c
    BY DEF Used
  <1>1. /\ Tiled(d) /\ Coalesced(d)
        /\ Used(d) = Used(c) \ {h}
        /\ \A a \in Used(c) \ {h} : d[a] = c[a]
    BY <1>0, ReleasedFacts DEF Good
  <1>2. BlocksIn(Lets(b, h + 1), d)
    BY <1>1, GivenBack DEF Good
  <1> QED BY <1>1, <1>2 DEF Good

(* What fits in m units fits in more.                                      *)
LEMMA Wider ==
    ASSUME NEW m \in Nat, NEW k \in Nat, m <= k, NEW l \in 1 .. m
    PROVE  l \in 1 .. k
  OBVIOUS

\* A used chunk joined with the free one behind it is still used, and longer.
LEMMA JoinUsed ==
    ASSUME GsMemAssumption, NEW c, NEW b, Good(b, c), NEW h \in Used(c), NEW h2,
           ~c[h2].used, NEW d, IsJoined(c, h, h2, TRUE, d)
    PROVE  Good(b, d)
  <1>0. h \in DOMAIN c /\ c[h].used /\ Tiled(c) /\ Coalesced(c) /\ BlocksIn(b, c)
    BY DEF Used, Good
  <1>1. /\ Tiled(d)
        /\ h2 \in DOMAIN c /\ h2 # h /\ DOMAIN d = DOMAIN c \ {h2}
        /\ d[h] = Chunk(c[h2].next, c[h].size + c[h2].size + 1, TRUE)
        /\ \A a \in DOMAIN d \ {h} : d[a] = c[a] /\ c[a].next # h2
    BY DEF IsJoined
  <1>h. h \in DOMAIN d /\ d[h].used /\ d[h].size = c[h].size + c[h2].size + 1
    BY <1>0, <1>1 DEF Chunk
  <1>2. \A a : a \in Used(d) <=> a \in Used(c)
    BY <1>0, <1>1, <1>h DEF Used
  <1>3. Coalesced(d)
    <2> SUFFICES ASSUME NEW a \in DOMAIN d, ~d[a].used, FreeNext(d, a) PROVE FALSE
      BY DEF Coalesced
    <2>1. d[a].next \in DOMAIN d /\ ~d[d[a].next].used
      BY <1>1 DEF FreeNext, Tiled
    <2>2. a # h /\ d[a] = c[a] /\ d[a].next # h
      BY <2>1, <1>1, <1>h
    <2>3. c[a].next # NULL /\ ~c[c[a].next].used
      BY <2>1, <2>2, <1>1 DEF FreeNext
    <2> QED BY <2>2, <2>3, <1>0, <1>1 DEF Coalesced, FreeNext
  <1>4. BlocksIn(b, d)
    <2>1. Used(d) = Used(c)
      BY <1>2
    <2>2. DOMAIN b = {a + 1 : a \in Used(d)}
      BY <2>1, <1>0 DEF BlocksIn
    <2>3. ASSUME NEW a \in Used(d) PROVE b[a + 1].len \in 1 .. d[a].size
      <3>1. b[a + 1].len \in 1 .. c[a].size /\ a \in DOMAIN c
        BY <2>1, <1>0 DEF BlocksIn, Used
      <3>2. c[a].size \in Nat /\ c[h].size \in Nat /\ c[h2].size \in Nat
        BY <3>1, <1>0, <1>1, TiledFacts
      <3>0. a \in DOMAIN d
        BY DEF Used
      <3>3. d[a].size >= c[a].size
        <4>1. CASE a = h
          BY <4>1, <1>h, <3>2
        <4>2. CASE a # h
          BY <4>2, <1>1, <3>0, <3>2
        <4> QED BY <4>1, <4>2
      <3>4. d[a].size \in Nat
        BY <1>1, TiledFacts DEF Used
      <3>5. c[a].size <= d[a].size
        BY <3>2, <3>3, <3>4
      <3> QED BY <3>1, <3>2, <3>4, <3>5, Wider
    <2> QED BY <2>2, <2>3 DEF BlocksIn
  <1> QED BY <1>1, <1>3, <1>4 DEF Good

\* Blocks and the chunks they are in
LEMMA BlockFacts ==
    ASSUME GsMemAssumption, NEW c, NEW b, Good(b, c), NEW p \in DOMAIN b
    PROVE  /\ p - 1 \in Used(c) /\ p - 1 \in DOMAIN c /\ p \in Int /\ p = (p - 1) + 1
           /\ c[p - 1].size \in Nat /\ c[p - 1].used /\ b[p].len \in 1 .. c[p - 1].size
  <1>1. PICK a \in Used(c) : p = a + 1
    BY DEF Good, BlocksIn
  <1>2. a \in DOMAIN c /\ a \in Nat /\ c[a].size \in Nat /\ c[a].used
    BY TiledFacts DEF Good, Used
  <1>3. p - 1 = a
    BY <1>1, <1>2
  <1> QED BY <1>1, <1>2, <1>3 DEF Good, BlocksIn

(* gs_init_mem leaves one free chunk, which is the whole pool.             *)
LEMMA InitGood == GsMemAssumption /\ Init => HeapInv
  <1> SUFFICES ASSUME GsMemAssumption, Init PROVE HeapInv
    OBVIOUS
  <1>1. DOMAIN chunks = {0} /\ chunks[0] = Chunk(NULL, PoolSize - 1, FALSE)
    BY DEF Init, arena
  <1>2. PoolSize \in Nat /\ PoolSize - 1 \in Nat \ {0}
    BY DEF GsMemAssumption
  <1>3. Tiled(chunks)
    <2>1. /\ chunks[0].next = PoolSize /\ chunks[0].size = PoolSize - 1
          /\ chunks[0] \in [next : Nat, size : Nat \ {0}, used : BOOLEAN]
      BY <1>1, <1>2 DEF Chunk, NULL
    <2>2. 0 \in 0 .. PoolSize - 1 /\ PoolSize = 0 + 1 + (PoolSize - 1)
      BY <1>2, GsMemAssumption
    <2>3. \A h \in DOMAIN chunks : h = 0
      BY <1>1
    <2>4. \A h, g \in DOMAIN chunks : ~(h < g)
      BY <2>3
    <2>5. arena \in DOMAIN chunks /\ DOMAIN chunks \subseteq 0 .. PoolSize - 1
      BY <2>2, <1>1 DEF arena
    <2>6. \A h \in DOMAIN chunks :
          /\ chunks[h] \in [next : Nat, size : Nat \ {0}, used : BOOLEAN]
          /\ chunks[h].next = h + 1 + chunks[h].size
          /\ chunks[h].next \in DOMAIN chunks \cup {NULL}
      BY <2>1, <2>2, <2>3 DEF NULL
    <2> QED BY <2>4, <2>5, <2>6 DEF Tiled
  <1>4. Coalesced(chunks)
    BY <1>1 DEF Coalesced, FreeNext, Chunk
  <1>5. Used(chunks) = {} /\ DOMAIN held = {}
    BY <1>1 DEF Used, Chunk, Init
  <1>6. BlocksHeld
    BY <1>5 DEF BlocksHeld, BlocksIn
  <1> QED BY <1>3, <1>4, <1>6 DEF HeapInv

(* Blocks have a unit at least.                                            *)
LEMMA SizesNat == GsMemAssumption => \A n \in Sizes \ {0} : n \in Nat \ {0}
  BY DEF GsMemAssumption

(* Every call of a client keeps the invariant of the list.                 *)
LEMMA NextGood == GsMemAssumption /\ HeapInv /\ [Next]_vars => HeapInv'
  <1> SUFFICES ASSUME GsMemAssumption, Good(held, chunks), [Next]_vars
               PROVE  Good(held', chunks')
    BY HeapInvIs
  <1>1. CASE gs_mem_alloc
    <2>1. PICK n \in Sizes \ {0}, h \in DOMAIN chunks, tag \in Unused :
             /\ IsFirst(chunks, n, h)
             /\ chunks' = try_split(chunks, h, n)
             /\ held' = Holds(held, h + 1, n, tag)
      BY <1>1 DEF gs_mem_alloc
    <2>2. n \in Nat \ {0} /\ chunks[h].size >= n
      BY <2>1, SizesNat, FirstFacts
    <2>3. chunks[h].size \in Nat
      BY TiledFacts DEF Good
    <2>4. n <= chunks[h].size
      BY <2>2, <2>3
    <2> QED BY <2>1, <2>2, <2>4, TakeSplit
  <1>2. CASE gs_mem_free
    <2>1. PICK p \in DOMAIN held :
             /\ chunks' = Released(chunks, p - 1)
             /\ held' = Lets(held, p)
      BY <1>2 DEF gs_mem_free
    <2>2. p - 1 \in Used(chunks) /\ p = (p - 1) + 1
      BY BlockFacts
    <2>3. Good(Lets(held, (p - 1) + 1), Released(chunks, p - 1))
      BY <2>2, GiveBack
    <2> QED BY <2>1, <2>2, <2>3
  <1>3. CASE gs_mem_realloc
    <2>1. PICK p \in DOMAIN held, n \in Sizes \ {0} : Shrink(p, n) \/ Grow(p, n) \/ Move(p, n)
      BY <1>3 DEF gs_mem_realloc
    <2>2. n \in Nat \ {0}
      BY SizesNat
    <2>3. /\ p - 1 \in Used(chunks) /\ p - 1 \in DOMAIN chunks /\ p = (p - 1) + 1
          /\ chunks[p - 1].size \in Nat /\ chunks[p - 1].used /\ p \in Int
      BY BlockFacts
    <2> PICK a : a = p - 1
      OBVIOUS
    <2>4. CASE Shrink(p, n)
      <3>1. /\ n <= chunks[a].size
            /\ chunks' = try_split(chunks, a, n)
            /\ held' = Holds(held, a + 1, n, held[p].tag)
        BY <2>4, <2>3 DEF Shrink
      <3> QED BY <3>1, <2>2, <2>3, TakeSplit
    <2>5. CASE Grow(p, n)
      <3>c. PICK c : c = join_next(chunks, a, TRUE)
        OBVIOUS
      <3>1. /\ FreeNext(chunks, a)
            /\ chunks[a].size + chunks[chunks[a].next].size + 1 >= n
            /\ chunks' = try_split(c, a, n)
            /\ held' = Holds(held, a + 1, n, held[p].tag)
        BY <2>5, <2>3, <3>c DEF Grow, GrowsInPlace
      <3>j. IsJoined(chunks, a, chunks[a].next, TRUE, c) /\ ~chunks[chunks[a].next].used
        BY <3>1, <3>c, <2>3, JoinTiled DEF FreeNext, Good
      <3>2. /\ Good(held, c) /\ a \in DOMAIN c
            /\ c[a].size = chunks[a].size + chunks[chunks[a].next].size + 1
        <4> PICK h2 : h2 = chunks[a].next
          OBVIOUS
        <4>1. a \in Used(chunks) /\ ~chunks[h2].used /\ IsJoined(chunks, a, h2, TRUE, c)
          BY <3>j, <2>3
        <4>2. Good(held, c)
          BY <4>1, JoinUsed
        <4>3. /\ DOMAIN c = DOMAIN chunks \ {h2} /\ a # h2
              /\ c[a] = Chunk(chunks[h2].next, chunks[a].size + chunks[h2].size + 1, TRUE)
          BY <4>1 DEF IsJoined
        <4> QED BY <4>2, <4>3, <2>3 DEF Chunk
      <3>3. c[a].size \in Nat
        BY <3>2, TiledFacts DEF Good
      <3>4. n <= c[a].size
        BY <3>1, <3>2, <3>3, <2>2
      <3> QED BY <3>1, <3>2, <3>4, <2>2, TakeSplit
    <2>6. CASE Move(p, n)
      <3>1. PICK h \in DOMAIN chunks :
               /\ IsFirst(chunks, n, h)
               /\ chunks' = Released(try_split(chunks, h, n), a)
               /\ held' = Holds(Lets(held, p), h + 1, n, held[p].tag)
        BY <2>6 DEF Move
      <3> PICK c : c = try_split(chunks, h, n)
        OBVIOUS
      <3> PICK b : b = Holds(held, h + 1, n, held[p].tag)
        OBVIOUS
      <3>2. /\ chunks[h].size >= n /\ chunks[h].size \in Nat /\ h \in Nat
            /\ h \notin Used(chunks)
        BY <3>1, FirstFacts, TiledFacts DEF Good
      <3>3. n <= chunks[h].size
        BY <3>2, <2>2
      <3>4. Good(b, c)
        BY <3>3, <2>2, TakeSplit
      <3>5. a \in Used(c)
        <4>1. Used(c) = Used(chunks) \cup {h}
          BY <3>3, <2>2, SplitFacts DEF Good
        <4> QED BY <4>1, <2>3
      <3>6. Good(Lets(b, a + 1), Released(c, a))
        BY <3>4, <3>5, GiveBack
      <3>7. Lets(b, p) = Holds(Lets(held, p), h + 1, n, held[p].tag)
        <4>1. p # h + 1
          BY <3>2, <2>3
        <4> QED BY <4>1 DEF Lets, Holds
      <3> QED BY <3>1, <3>6, <3>7, <2>3
    <2> QED BY <2>1, <2>4, <2>5, <2>6
  <1>4. CASE UNCHANGED vars
    BY <1>4 DEF vars
  <1> QED BY <1>1, <1>2, <1>3, <1>4 DEF Next

(* The list always covers the pool, no free chunks are neighbours, and the *)
(* used ones are those of the clients: whatever is freed and moved, the    *)
(* pool of gs_mem.c never loses memory.                                    *)
THEOREM HeapInvariant == Spec => []HeapInv
  <1>1. Init => HeapInv
    BY GsMemAssumption, InitGood
  <1>2. HeapInv /\ [Next]_vars => HeapInv'
    BY GsMemAssumption, NextGood
  <1> QED BY <1>1, <1>2, PTL DEF Spec

-----------------------------------------------------------------------------
(* The refinement.  Blocks lie in the pool, and apart from each other.     *)
Live(b) == [p \in DOMAIN b |-> b[p].len]

(* Blocks of clients lie in the pool and do not overlap.                   *)
LEMMA Apart ==
    ASSUME GsMemAssumption, NEW c, NEW b, Good(b, c), NEW p \in DOMAIN b
    PROVE  /\ p \in H!Pool /\ b[p].len \in H!Pool \ {0} /\ p + b[p].len <= PoolSize
           /\ \A o \in DOMAIN b \ {p} :
                 /\ o \in Int /\ b[o].len \in Nat
                 /\ p + b[p].len <= o \/ o + b[o].len <= p
  <1>1. ASSUME NEW o \in DOMAIN b
        PROVE  /\ o \in Nat /\ o - 1 \in DOMAIN c /\ c[o - 1].size \in Nat
               /\ b[o].len \in Nat \ {0} /\ b[o].len <= c[o - 1].size
               /\ o + b[o].len <= PoolSize /\ PoolSize \in Nat
    <2>1. /\ o - 1 \in DOMAIN c /\ o \in Int
          /\ c[o - 1].size \in Nat /\ b[o].len \in 1 .. c[o - 1].size
      BY BlockFacts
    <2>2. /\ o - 1 \in Nat /\ c[o - 1].next <= PoolSize
          /\ c[o - 1].next = (o - 1) + 1 + c[o - 1].size
      BY <2>1, TiledFacts DEF Good
    <2>3. PoolSize \in Nat
      BY DEF GsMemAssumption
    <2> QED BY <2>1, <2>2, <2>3
  <1>2. ASSUME NEW o \in DOMAIN b \ {p}
        PROVE  p + b[p].len <= o \/ o + b[o].len <= p
    <2>1. o - 1 \in DOMAIN c \ {p - 1} /\ p - 1 \in DOMAIN c
      BY <1>1
    <2>2. \/ (p - 1) + 1 + c[p - 1].size <= o - 1
          \/ (o - 1) + 1 + c[o - 1].size <= p - 1
      BY <2>1, TiledFacts DEF Good
    <2>3. /\ p \in Nat /\ c[p - 1].size \in Nat /\ b[p].len \in Nat /\ b[p].len <= c[p - 1].size
          /\ o \in Nat /\ c[o - 1].size \in Nat /\ b[o].len \in Nat /\ b[o].len <= c[o - 1].size
      BY <1>1
    <2> QED BY <2>2, <2>3
  <1>3. p \in H!Pool /\ b[p].len \in H!Pool \ {0} /\ p + b[p].len <= PoolSize
    BY <1>1 DEF H!Pool
  <1> QED BY <1>1, <1>2, <1>3

\* What the other blocks leave to the block p is room for it.
LEMMA HasRoom ==
    ASSUME GsMemAssumption, NEW c, NEW b, Good(b, c), NEW p \in DOMAIN b, NEW n,
           b[p].len = n, NEW f, DOMAIN f = DOMAIN b \ {p},
           \A o \in DOMAIN f : f[o] = b[o].len
    PROVE  p \in H!Pool /\ n \in H!Pool \ {0} /\ H!Room(f, p, n)
  <1>1. /\ p \in H!Pool /\ n \in H!Pool \ {0} /\ p + n <= PoolSize
        /\ \A o \in DOMAIN f :
              o \in Int /\ f[o] \in Nat /\ (p + n <= o \/ o + f[o] <= p)
    BY Apart
  <1>2. p \in Int /\ n \in Int
    BY <1>1 DEF H!Pool
  <1>3. ASSUME NEW o \in DOMAIN f
        PROVE  (p .. p + n - 1) \cap (o .. o + f[o] - 1) = {}
    BY <1>1, <1>2
  <1> QED BY <1>1, <1>3 DEF H!Room, H!Units

(* What the other blocks leave to a new block is room for it.              *)
LEMMA NewRoom ==
    ASSUME GsMemAssumption, NEW c, NEW b, Good(b, c), NEW p \in DOMAIN b,
           NEW e, \A o \in DOMAIN b \ {p} : b[o] = e[o], NEW n, b[p].len = n,
           NEW f, f = [o \in DOMAIN b \ {p} |-> e[o].len]
    PROVE  p \in H!Pool /\ n \in H!Pool \ {0} /\ H!Room(f, p, n)
  <1>1. DOMAIN f = DOMAIN b \ {p} /\ \A o \in DOMAIN f : f[o] = b[o].len
    OBVIOUS
  <1> QED BY <1>1, HasRoom

\* A step that gives a client the block p of n units
LEMMA MallocStep ==
    ASSUME GsMemAssumption, HeapInv', NEW p, p \notin DOMAIN held, NEW n, NEW tag,
           held' = Holds(held, p, n, tag)
    PROVE  H!Malloc
  <1> PICK f : f = [o \in DOMAIN held |-> held[o].len]
    OBVIOUS
  <1> PICK g : g = [o \in DOMAIN held' |-> held'[o].len]
    OBVIOUS
  <1>1. /\ DOMAIN held' = DOMAIN held \cup {p} /\ held'[p].len = n
        /\ \A o \in DOMAIN held' \ {p} : held'[o] = held[o]
    BY DEF Holds
  <1>2. Good(held', chunks')
    BY HeapInvIs
  <1>3. DOMAIN held' \ {p} = DOMAIN held
    BY <1>1
  <1>4. f = [o \in DOMAIN held' \ {p} |-> held[o].len]
    BY <1>3
  <1>5. p \in H!Pool /\ n \in H!Pool \ {0} /\ H!Room(f, p, n)
    BY <1>1, <1>2, <1>4, NewRoom
  <1>6. g = H!With(f, p, n)
    <2>1. DOMAIN g = DOMAIN f \cup {p}
      BY <1>1
    <2>2. \A o \in DOMAIN f \cup {p} : g[o] = IF o = p THEN n ELSE f[o]
      BY <1>1
    <2> QED BY <2>1, <2>2 DEF H!With
  <1>7. p \in DOMAIN g \ DOMAIN f /\ g[p] = n
    BY <1>1
  <1> QED BY <1>5, <1>6, <1>7 DEF H!Malloc

(* A step that takes the block p from its client is a free.                *)
LEMMA FreeStep ==
    ASSUME NEW p \in DOMAIN held, held' = Lets(held, p)
    PROVE  H!Free
  <1>1. DOMAIN held' = DOMAIN held \ {p} /\ \A o \in DOMAIN held' : held'[o] = held[o]
    BY DEF Lets
  <1> PICK f : f = [o \in DOMAIN held |-> held[o].len]
    OBVIOUS
  <1> PICK g : g = [o \in DOMAIN held' |-> held'[o].len]
    OBVIOUS
  <1>2. g = H!Without(f, p)
    BY <1>1 DEF H!Without
  <1> QED BY <1>2 DEF H!Free

\* A step that gives a client the block r of n units for its block p
LEMMA ReallocStep ==
    ASSUME GsMemAssumption, HeapInv', NEW p \in DOMAIN held, NEW r, NEW n, NEW tag,
           r = p \/ r \notin DOMAIN held,
           held' = Holds(Lets(held, p), r, n, tag)
    PROVE  H!Realloc
  <1>f. PICK f : f = [o \in DOMAIN held |-> held[o].len]
    OBVIOUS
  <1>g. PICK g : g = [o \in DOMAIN held' |-> held'[o].len]
    OBVIOUS
  <1>w. PICK w : w = H!Without(f, p)
    OBVIOUS
  <1>0. w = [o \in DOMAIN held \ {p} |-> held[o].len]
    BY <1>f, <1>w DEF H!Without
  <1>1. /\ DOMAIN held' = (DOMAIN held \ {p}) \cup {r} /\ held'[r].len = n
        /\ \A o \in DOMAIN held' \ {r} : held'[o] = held[o]
    BY DEF Holds, Lets
  <1>2. Good(held', chunks')
    BY HeapInvIs
  <1>3. DOMAIN held' \ {r} = DOMAIN held \ {p}
    BY <1>1
  <1>4. w = [o \in DOMAIN held' \ {r} |-> held[o].len]
    BY <1>0, <1>3
  <1>5. r \in H!Pool /\ n \in H!Pool \ {0} /\ H!Room(w, r, n)
    BY <1>1, <1>2, <1>4, NewRoom
  <1>6. g = H!With(w, r, n)
    <2>1. DOMAIN g = DOMAIN w \cup {r}
      BY <1>0, <1>1, <1>g
    <2>2. \A o \in DOMAIN w \cup {r} : g[o] = IF o = r THEN n ELSE w[o]
      BY <1>0, <1>1, <1>g
    <2> QED BY <2>1, <2>2, <1>g DEF H!With
  <1>7. p \in DOMAIN f /\ H!Room(H!Without(f, p), r, n) /\ g = H!With(H!Without(f, p), r, n)
    BY <1>5, <1>6, <1>f, <1>w
  <1> QED BY <1>5, <1>7, <1>f, <1>g DEF H!Realloc

(* Every call is a call of an allocator, or changes no block.              *)
LEMMA NextHeap == GsMemAssumption /\ HeapInv /\ HeapInv' /\ [Next]_vars =>
                     \/ H!Next \/ UNCHANGED held
  <1> SUFFICES ASSUME GsMemAssumption, Good(held, chunks), HeapInv', [Next]_vars
               PROVE  H!Next \/ UNCHANGED held
    BY HeapInvIs
  <1>1. CASE gs_mem_alloc
    <2>1. PICK n \in Sizes \ {0}, h \in DOMAIN chunks, tag \in Unused :
             IsFirst(chunks, n, h) /\ held' = Holds(held, h + 1, n, tag)
      BY <1>1 DEF gs_mem_alloc
    <2>2. h + 1 \notin DOMAIN held
      <3>1. h \notin Used(chunks) /\ h \in Nat
        BY <2>1, FirstFacts, TiledFacts DEF Good
      <3>2. \A p \in DOMAIN held : p - 1 \in Used(chunks) /\ p \in Int
        BY BlockFacts
      <3> QED BY <3>1, <3>2
    <2> QED BY <2>1, <2>2, MallocStep DEF H!Next
  <1>2. CASE gs_mem_free
    <2>1. PICK p \in DOMAIN held : held' = Lets(held, p)
      BY <1>2 DEF gs_mem_free
    <2> QED BY <2>1, FreeStep DEF H!Next
  <1>3. CASE gs_mem_realloc
    <2>1. PICK p \in DOMAIN held, n \in Sizes \ {0} : Shrink(p, n) \/ Grow(p, n) \/ Move(p, n)
      BY <1>3 DEF gs_mem_realloc
    <2>2. CASE Shrink(p, n) \/ Grow(p, n)
      <3>1. PICK tag : held' = Holds(held, p, n, tag)
        BY <2>2 DEF Shrink, Grow
      <3>2. Holds(held, p, n, tag) = Holds(Lets(held, p), p, n, tag)
        BY DEF Holds, Lets
      <3> QED BY <3>1, <3>2, ReallocStep DEF H!Next
    <2>3. CASE Move(p, n)
      <3>0. PICK h \in DOMAIN chunks :
               IsFirst(chunks, n, h) /\ held' = Holds(Lets(held, p), h + 1, n, held[p].tag)
        BY <2>3 DEF Move
      <3>1. PICK tag : IsFirst(chunks, n, h) /\ held' = Holds(Lets(held, p), h + 1, n, tag)
        BY <3>0
      <3>2. h + 1 \notin DOMAIN held
        <4>1. h \notin Used(chunks) /\ h \in Nat
          BY <3>1, FirstFacts, TiledFacts DEF Good
        <4>2. \A o \in DOMAIN held : o - 1 \in Used(chunks) /\ o \in Int
          BY BlockFacts
        <4> QED BY <4>1, <4>2
      <3> QED BY <3>1, <3>2, ReallocStep DEF H!Next
    <2> QED BY <2>1, <2>2, <2>3
  <1>4. CASE UNCHANGED vars
    BY <1>4 DEF vars
  <1> QED BY <1>1, <1>2, <1>3, <1>4 DEF Next

(* The pool of gs_mem.c implements an allocator: the blocks that it hands  *)
(* out lie in the pool and apart from all that clients hold, and no call   *)
(* touches the blocks of others.                                           *)
THEOREM HeapRefinement == Spec => HeapSpec
  <1>1. Init => H!Init
    BY DEF Init, H!Init
  <1>2. HeapInv /\ HeapInv' /\ [Next]_vars => [H!Next]_([p \in DOMAIN held |-> held[p].len])
    BY GsMemAssumption, NextHeap
  <1> QED BY <1>1, <1>2, HeapInvariant, PTL DEF Spec, HeapSpec, H!Spec

-----------------------------------------------------------------------------
(* The contents.  In m, the blocks b have what their clients wrote, and    *)
(* the chunks c their headers.                                             *)
Contents(m, b, c) ==
    /\ DOMAIN m = 0 .. PoolSize - 1
    /\ \A p \in DOMAIN b : \A u \in p .. p + b[p].len - 1 : m[u] = b[p].tag
    /\ \A h \in DOMAIN c : m[h] = Hdr

(* A unit of a block is in the pool, in no other block, and no header.     *)
LEMMA UnitFacts ==
    ASSUME GsMemAssumption, NEW c, NEW b, Good(b, c), NEW p \in DOMAIN b,
           NEW u \in p .. p + b[p].len - 1
    PROVE  /\ u \in 0 .. PoolSize - 1 /\ u \notin DOMAIN c
           /\ \A o \in DOMAIN b \ {p} : u \notin o .. o + b[o].len - 1
  <1>1. /\ p \in Nat /\ b[p].len \in Nat /\ p + b[p].len <= PoolSize
        /\ \A o \in DOMAIN b \ {p} :
              o \in Int /\ b[o].len \in Nat /\ (p + b[p].len <= o \/ o + b[o].len <= p)
    BY Apart DEF H!Pool
  <1>2. u \in Int /\ p <= u /\ u < p + b[p].len
    BY <1>1
  <1>3. u \in 0 .. PoolSize - 1
    BY <1>1, <1>2 DEF GsMemAssumption
  <1>4. \A o \in DOMAIN b \ {p} : u \notin o .. o + b[o].len - 1
    BY <1>1, <1>2
  <1>5. u \notin DOMAIN c
    <2> SUFFICES ASSUME u \in DOMAIN c PROVE FALSE
      OBVIOUS
    <2>1. /\ p - 1 \in DOMAIN c /\ c[p - 1].size \in Nat /\ b[p].len <= c[p - 1].size
      BY BlockFacts
    <2>2. u # p - 1
      BY <1>1, <1>2
    <2>3. (p - 1) + 1 + c[p - 1].size <= u \/ u + 1 + c[u].size <= p - 1
      BY <2>1, <2>2, TiledFacts DEF Good
    <2>4. c[u].size \in Nat
      BY TiledFacts DEF Good
    <2> QED BY <2>1, <2>3, <2>4, <1>1, <1>2
  <1> QED BY <1>3, <1>4, <1>5

(* Blanking what nobody holds leaves what somebody holds.                  *)
LEMMA KeptContents ==
    ASSUME NEW m, NEW b, NEW c, Contents(m, b, c),
           DOMAIN c \subseteq 0 .. PoolSize - 1,
           \A p \in DOMAIN b : p .. p + b[p].len - 1 \subseteq 0 .. PoolSize - 1
    PROVE  Contents(Kept(m, c, b), b, c)
  <1> PICK k : k = Kept(m, c, b)
    OBVIOUS
  <1>1. DOMAIN k = DOMAIN m /\ DOMAIN m = 0 .. PoolSize - 1
    BY DEF Kept, Contents
  <1>2. \A h \in DOMAIN c : k[h] = m[h]
    BY <1>1 DEF Kept
  <1>3. \A p \in DOMAIN b : \A u \in p .. p + b[p].len - 1 : k[u] = m[u]
    BY <1>1 DEF Kept
  <1> QED BY <1>1, <1>2, <1>3 DEF Contents

\* All is right in m but the block p.
RightAround(m, b, c, p) ==
    /\ DOMAIN m = 0 .. PoolSize - 1
    /\ \A h \in DOMAIN c : m[h] = Hdr
    /\ \A o \in DOMAIN b \ {p} : \A u \in o .. o + b[o].len - 1 : m[u] = b[o].tag

\* The first units of the block p of n units are right.
BeginsRight(m, p, from, n, tag) == \A u \in p .. p + n - 1 : u < p + from => m[u] = tag

(* A block is filled from the unit from on: what was right around it and   *)
(* before that unit still is, and the rest of the block is right now.      *)
LEMMA FilledContents ==
    ASSUME GsMemAssumption, NEW b, NEW c, Good(b, c), NEW m, NEW p \in DOMAIN b,
           NEW from \in Nat, NEW n, n = b[p].len, NEW tag, tag = b[p].tag,
           RightAround(m, b, c, p), BeginsRight(m, p, from, n, tag)
    PROVE  Contents(Filled(m, p, from, n, tag), b, c)
  <1> USE DEF RightAround, BeginsRight
  <1> PICK k : k = Filled(m, p, from, n, tag)
    OBVIOUS
  <1>0. p \in Nat /\ n \in Nat
    BY Apart DEF H!Pool
  <1>1. /\ DOMAIN k = 0 .. PoolSize - 1
        /\ \A u \in 0 .. PoolSize - 1 : k[u] = IF u \in p + from .. p + n - 1 THEN tag ELSE m[u]
    BY DEF Filled
  <1>2. p + from .. p + n - 1 \subseteq p .. p + n - 1
    BY <1>0
  <1>3. ASSUME NEW h \in DOMAIN c
        PROVE  k[h] = Hdr
    <2>1. h \in 0 .. PoolSize - 1
      BY DEF Good, Tiled
    <2>2. h \notin p .. p + n - 1
      BY UnitFacts
    <2> QED BY <2>1, <2>2, <1>1, <1>2
  <1>4. ASSUME NEW u \in p .. p + n - 1
        PROVE  k[u] = tag
    <2>1. u \in 0 .. PoolSize - 1
      BY UnitFacts
    <2>2. CASE u < p + from
      BY <2>1, <2>2, <1>1
    <2>3. CASE ~(u < p + from)
      <3>1. u \in p + from .. p + n - 1
        BY <2>3, <1>0
      <3> QED BY <3>1, <2>1, <1>1
    <2> QED BY <2>2, <2>3
  <1>5. ASSUME NEW o \in DOMAIN b \ {p}, NEW u \in o .. o + b[o].len - 1
        PROVE  k[u] = b[o].tag
    <2>1. u \in 0 .. PoolSize - 1 /\ u \notin p .. p + n - 1
      BY UnitFacts
    <2> QED BY <2>1, <1>1, <1>2
  <1> QED BY <1>1, <1>3, <1>4, <1>5 DEF Contents

(* A call that makes the list c of the chunks writes the headers that are  *)
(* new, and no other unit.                                                 *)
LEMMA HeadersFacts ==
    ASSUME Contents(mem, held, chunks), NEW c, Tiled(c), NEW m, m = Headers(mem, c)
    PROVE  /\ DOMAIN m = 0 .. PoolSize - 1
           /\ \A h \in DOMAIN c : m[h] = Hdr
           /\ \A u \in (0 .. PoolSize - 1) \ DOMAIN c : m[u] = mem[u]
  <1>1. DOMAIN m = 0 .. PoolSize - 1 /\ DOMAIN mem = 0 .. PoolSize - 1
    BY DEF Headers, Contents
  <1>2. DOMAIN c \subseteq 0 .. PoolSize - 1
    BY DEF Tiled
  <1>3. \A u \in 0 .. PoolSize - 1 :
           m[u] = IF u \in DOMAIN c \ DOMAIN chunks THEN Hdr ELSE mem[u]
    BY <1>1 DEF Headers
  <1> QED BY <1>1, <1>2, <1>3 DEF Contents

(* A client gets a block at p, or its block there becomes longer or        *)
(* shorter; of a block that stays, the first units stay too.               *)
LEMMA Rewritten ==
    ASSUME GsMemAssumption, Contents(mem, held, chunks), NEW p, NEW n, NEW tag,
           NEW b, b = Holds(held, p, n, tag), NEW c, Good(b, c), NEW from \in Nat,
           from = 0 \/ (/\ p \in DOMAIN held /\ tag = held[p].tag
                        /\ from <= held[p].len /\ held[p].len \in Nat)
    PROVE  Contents(Filled(Headers(mem, c), p, from, n, tag), b, c)
  <1> PICK m : m = Headers(mem, c)
    OBVIOUS
  <1>1. /\ DOMAIN m = 0 .. PoolSize - 1
        /\ \A h \in DOMAIN c : m[h] = Hdr
        /\ \A u \in (0 .. PoolSize - 1) \ DOMAIN c : m[u] = mem[u]
    BY HeadersFacts DEF Good
  <1>2. /\ p \in DOMAIN b /\ b[p].len = n /\ b[p].tag = tag
        /\ \A o \in DOMAIN b \ {p} : o \in DOMAIN held /\ b[o] = held[o]
    BY DEF Holds
  <1>3. p \in Nat /\ n \in Nat
    BY <1>2, Apart DEF H!Pool
  <1>4. ASSUME NEW u \in p .. p + n - 1, u < p + from
        PROVE  m[u] = tag
    <2>1. u \in (0 .. PoolSize - 1) \ DOMAIN c
      BY <1>2, UnitFacts
    <2>2. u \in p .. p + held[p].len - 1 /\ p \in DOMAIN held /\ tag = held[p].tag
      BY <1>3, <1>4
    <2>3. mem[u] = tag
      BY <2>2 DEF Contents
    <2> QED BY <2>1, <2>3, <1>1
  <1>5. ASSUME NEW o \in DOMAIN b \ {p}, NEW u \in o .. o + b[o].len - 1
        PROVE  m[u] = b[o].tag
    <2>1. u \in (0 .. PoolSize - 1) \ DOMAIN c
      BY UnitFacts
    <2>2. mem[u] = b[o].tag
      BY <1>2 DEF Contents
    <2> QED BY <2>1, <2>2, <1>1
  <1>6. RightAround(m, b, c, p) /\ BeginsRight(m, p, from, n, tag)
    BY <1>1, <1>4, <1>5 DEF RightAround, BeginsRight
  <1> QED BY <1>2, <1>6, FilledContents

(* A chunk that is joined away has no header, and no other chunk gets one. *)
LEMMA ReleasedDomain ==
    ASSUME NEW c, NEW h
    PROVE  DOMAIN Released(c, h) \subseteq DOMAIN c
  <1>1. \A d, g, s : DOMAIN join_next(d, g, s) \subseteq DOMAIN d
    BY DEF join_next
  <1>2. \A d, g : DOMAIN JoinFree(d, g) \subseteq DOMAIN d
    BY <1>1 DEF JoinFree
  <1> PICK freed : freed = [c EXCEPT ![h].used = FALSE]
    OBVIOUS
  <1> PICK joined : joined = JoinFree(freed, h)
    OBVIOUS
  <1> PICK before : before = {g \in DOMAIN joined : joined[g].next = h /\ ~joined[g].used}
    OBVIOUS
  <1>3. DOMAIN freed = DOMAIN c /\ DOMAIN joined \subseteq DOMAIN freed
    BY <1>2
  <1>4. Released(c, h) = IF before = {} THEN joined
                         ELSE join_next(joined, CHOOSE g \in before : TRUE, FALSE)
    BY DEF Released
  <1> QED BY <1>1, <1>3, <1>4

(* What is right of the blocks is right of some of them and fewer chunks.  *)
LEMMA FewerContents ==
    ASSUME NEW m, NEW b, NEW c, Contents(m, b, c), NEW d, DOMAIN d \subseteq DOMAIN c,
           NEW e, DOMAIN e \subseteq DOMAIN b, \A p \in DOMAIN e : e[p] = b[p]
    PROVE  Contents(m, e, d)
  BY DEF Contents

(* Blanking what nobody holds, for a list and blocks that fit.             *)
LEMMA KeptGood ==
    ASSUME GsMemAssumption, NEW b, NEW c, Good(b, c), NEW m, Contents(m, b, c)
    PROVE  Contents(Kept(m, c, b), b, c)
  <1>1. DOMAIN c \subseteq 0 .. PoolSize - 1
    BY DEF Good, Tiled
  <1>2. \A p \in DOMAIN b : p .. p + b[p].len - 1 \subseteq 0 .. PoolSize - 1
    BY UnitFacts
  <1> QED BY <1>1, <1>2, KeptContents

(* The block p of a client moves to h + 1: what it has is copied before    *)
(* its old chunk is given back.                                            *)
LEMMA MoveContents ==
    ASSUME GsMemAssumption, Good(held, chunks), Contents(mem, held, chunks),
           NEW p \in DOMAIN held, NEW n \in Nat \ {0}, NEW h \in DOMAIN chunks,
           chunks[p - 1].size < n,
           NEW c, NEW b, b = Holds(held, h + 1, n, held[p].tag), Good(b, c), h + 1 \notin DOMAIN held,
           NEW d, DOMAIN d \subseteq DOMAIN c,
           NEW e, e = Holds(Lets(held, p), h + 1, n, held[p].tag), Good(e, d)
    PROVE  Contents(Filled(Copied(Headers(mem, c), h + 1, p, chunks[p - 1].size),
                           h + 1, held[p].len, n, held[p].tag), e, d)
  <1> PICK r : r = h + 1
    OBVIOUS
  <1> PICK k : k = Headers(mem, c)
    OBVIOUS
  <1> PICK z : z = chunks[p - 1].size
    OBVIOUS
  <1> PICK m : m = Copied(k, r, p, z)
    OBVIOUS
  <1>1. /\ DOMAIN k = 0 .. PoolSize - 1
        /\ \A g \in DOMAIN c : k[g] = Hdr
        /\ \A u \in (0 .. PoolSize - 1) \ DOMAIN c : k[u] = mem[u]
    BY HeadersFacts DEF Good
  <1>2. /\ p # r /\ DOMAIN b = DOMAIN held \cup {r} /\ b[r].len = n
        /\ \A o \in DOMAIN held : b[o] = held[o]
    BY DEF Holds
  <1>3. /\ DOMAIN e = (DOMAIN held \ {p}) \cup {r} /\ e[r].len = n /\ e[r].tag = held[p].tag
        /\ \A o \in DOMAIN held \ {p} : e[o] = held[o] /\ o # r
    BY DEF Holds, Lets
  <1>4. /\ p \in Nat /\ r \in Nat /\ z \in Nat /\ n \in Nat
        /\ held[p].len \in Nat /\ held[p].len <= z /\ z < n
    <2>1. r \in Nat
      BY <1>2, Apart DEF H!Pool
    <2>2. z \in Nat /\ held[p].len \in 1 .. z
      BY BlockFacts
    <2>3. p \in Nat
      BY Apart DEF H!Pool
    <2> QED BY <2>1, <2>2, <2>3
  <1>5. /\ DOMAIN m = 0 .. PoolSize - 1
        /\ \A u \in 0 .. PoolSize - 1 : m[u] = IF u \in r .. r + z - 1 THEN k[p + u - r] ELSE k[u]
    BY <1>1 DEF Copied
  <1>6. r .. r + z - 1 \subseteq r .. r + n - 1
    BY <1>4
  <1>7. \A g \in DOMAIN d : m[g] = Hdr
    <2> TAKE g \in DOMAIN d
    <2>1. g \in 0 .. PoolSize - 1
      BY DEF Good, Tiled
    <2>2. g \notin r .. r + n - 1
      BY <1>3, UnitFacts
    <2> QED BY <2>1, <2>2, <1>1, <1>5, <1>6
  <1>8. ASSUME NEW u \in r .. r + n - 1, u < r + held[p].len
        PROVE  m[u] = held[p].tag
    <2> PICK v : v = p + u - r
      OBVIOUS
    <2>1. u \in r .. r + z - 1 /\ v \in p .. p + held[p].len - 1
      BY <1>4, <1>8
    <2>2. u \in 0 .. PoolSize - 1
      BY <1>2, UnitFacts
    <2>3. v \in (0 .. PoolSize - 1) \ DOMAIN c
      BY <2>1, <1>2, UnitFacts
    <2>4. mem[v] = held[p].tag
      BY <2>1 DEF Contents
    <2> QED BY <2>1, <2>2, <2>3, <2>4, <1>1, <1>5
  <1>9. ASSUME NEW o \in DOMAIN e \ {r}, NEW u \in o .. o + e[o].len - 1
        PROVE  m[u] = e[o].tag
    <2>1. o \in DOMAIN held \ {p} /\ e[o] = held[o] /\ b[o] = held[o] /\ o \in DOMAIN b \ {r}
      BY <1>2, <1>3
    <2>2. /\ u \in (0 .. PoolSize - 1) \ DOMAIN c
          /\ u \notin r .. r + n - 1
      BY <2>1, <1>2, UnitFacts
    <2>3. mem[u] = held[o].tag
      BY <2>1 DEF Contents
    <2> QED BY <2>1, <2>2, <2>3, <1>1, <1>5, <1>6
  <1>10. PICK tag : tag = held[p].tag
    OBVIOUS
  <1>11. PICK from : from = held[p].len
    OBVIOUS
  <1>12. /\ r \in DOMAIN e /\ n = e[r].len /\ tag = e[r].tag
         /\ from \in Nat
         /\ BeginsRight(m, r, from, n, tag)
    BY <1>3, <1>4, <1>8, <1>10, <1>11 DEF BeginsRight
  <1>13. Contents(Filled(m, r, from, n, tag), e, d)
    <2>1. RightAround(m, e, d, r)
      BY <1>5, <1>7, <1>9 DEF RightAround
    <2> QED BY <2>1, <1>12, FilledContents
  <1> QED BY <1>10, <1>11, <1>13

(* Every call keeps what is in the blocks and the headers.                 *)
LEMMA NextContents ==
    ASSUME GsMemAssumption, HeapInv, HeapInv', Contents(mem, held, chunks), [Next]_vars
    PROVE  Contents(mem', held', chunks')
  <1>g. Good(held, chunks) /\ Good(held', chunks')
    BY HeapInvIs
  <1>1. CASE gs_mem_alloc
    <2>1. PICK n \in Sizes \ {0}, h \in DOMAIN chunks, tag \in Unused :
             /\ held' = Holds(held, h + 1, n, tag)
             /\ mem' = Filled(Headers(mem, chunks'), h + 1, 0, n, tag)
      BY <1>1 DEF gs_mem_alloc
    <2> QED BY <2>1, <1>g, Rewritten
  <1>2. CASE gs_mem_free
    <2>1. PICK p \in DOMAIN held :
             /\ chunks' = Released(chunks, p - 1)
             /\ held' = Lets(held, p)
             /\ mem' = Kept(mem, chunks', held')
      BY <1>2 DEF gs_mem_free
    <2>2. DOMAIN chunks' \subseteq DOMAIN chunks
      BY <2>1, ReleasedDomain
    <2>3. DOMAIN held' \subseteq DOMAIN held /\ \A o \in DOMAIN held' : held'[o] = held[o]
      BY <2>1 DEF Lets
    <2>4. Contents(mem, held', chunks')
      BY <2>2, <2>3, FewerContents
    <2> QED BY <2>1, <2>4, <1>g, KeptGood
  <1>3. CASE gs_mem_realloc
    <2>1. PICK p \in DOMAIN held, n \in Sizes \ {0} : Shrink(p, n) \/ Grow(p, n) \/ Move(p, n)
      BY <1>3 DEF gs_mem_realloc
    <2>2. n \in Nat \ {0} /\ held[p].len \in Nat
      BY <1>g, SizesNat, BlockFacts
    <2>3. CASE Shrink(p, n) \/ Grow(p, n)
      <3>1. /\ held' = Holds(held, p, n, held[p].tag)
            /\ mem' = Kept(Filled(Headers(mem, chunks'), p, Lesser(held[p].len, n), n, held[p].tag),
                           chunks', held')
        BY <2>3 DEF Shrink, Grow
      <3>2. Lesser(held[p].len, n) \in Nat /\ Lesser(held[p].len, n) <= held[p].len
        BY <2>2 DEF Lesser
      <3>3. Contents(Filled(Headers(mem, chunks'), p, Lesser(held[p].len, n), n, held[p].tag),
                     held', chunks')
        BY <3>1, <3>2, <2>2, <1>g, Rewritten
      <3> QED BY <3>1, <3>3, <1>g, KeptGood
    <2>4. CASE Move(p, n)
      <3>1. PICK h \in DOMAIN chunks :
               LET c == try_split(chunks, h, n)
                   m == Copied(Headers(mem, c), h + 1, p, chunks[p - 1].size)
               IN  /\ IsFirst(chunks, n, h)
                   /\ chunks' = Released(c, p - 1)
                   /\ held' = Holds(Lets(held, p), h + 1, n, held[p].tag)
                   /\ mem' = Kept(Filled(m, h + 1, held[p].len, n, held[p].tag), chunks', held')
        BY <2>4 DEF Move
      <3>0. chunks[p - 1].size < n
        BY <2>4 DEF Move
      <3> PICK c : c = try_split(chunks, h, n)
        OBVIOUS
      <3> PICK b : b = Holds(held, h + 1, n, held[p].tag)
        OBVIOUS
      <3>2. /\ n <= chunks[h].size /\ h \in Nat /\ h \notin Used(chunks)
        <4>1. chunks[h].size >= n /\ h \notin Used(chunks) /\ h \in Nat /\ chunks[h].size \in Nat
          BY <3>1, <1>g, FirstFacts, TiledFacts DEF Good
        <4> QED BY <4>1, <2>2
      <3>3. Good(b, c)
        BY <3>2, <2>2, <1>g, TakeSplit
      <3>4. h + 1 \notin DOMAIN held
        <4>1. \A o \in DOMAIN held : o - 1 \in Used(chunks) /\ o \in Int
          BY <1>g, BlockFacts
        <4> QED BY <4>1, <3>2
      <3>5. DOMAIN chunks' \subseteq DOMAIN c
        BY <3>1, ReleasedDomain
      <3>6. Contents(Filled(Copied(Headers(mem, c), h + 1, p, chunks[p - 1].size),
                            h + 1, held[p].len, n, held[p].tag), held', chunks')
        BY <3>0, <3>1, <3>3, <3>4, <3>5, <2>2, <1>g, MoveContents
      <3> QED BY <3>1, <3>6, <1>g, KeptGood
    <2> QED BY <2>1, <2>3, <2>4
  <1>4. CASE UNCHANGED vars
    BY <1>4 DEF vars
  <1> QED BY <1>1, <1>2, <1>3, <1>4 DEF Next

(* What a client wrote into its block stays there, whatever the others     *)
(* allocate, free and resize, and moves along with the block; nobody       *)
(* writes over a header.                                                   *)
THEOREM IntactInvariant == Spec => []Intact
  <1>1. Init => Contents(mem, held, chunks)
    <2> SUFFICES ASSUME Init PROVE Contents(mem, held, chunks)
      OBVIOUS
    <2>1. DOMAIN held = {} /\ DOMAIN chunks = {0} /\ 0 \in 0 .. PoolSize - 1
      BY GsMemAssumption DEF Init, arena, GsMemAssumption
    <2>2. DOMAIN mem = 0 .. PoolSize - 1 /\ mem[0] = Hdr
      BY <2>1 DEF Init, arena
    <2> QED BY <2>1, <2>2 DEF Contents
  <1>2. HeapInv /\ HeapInv' /\ Contents(mem, held, chunks) /\ [Next]_vars
           => Contents(mem, held, chunks)'
    BY GsMemAssumption, NextContents
  <1>3. Contents(mem, held, chunks) => Intact
    BY DEF Contents, Intact
  <1> QED BY <1>1, <1>2, <1>3, HeapInvariant, PTL DEF Spec

(***************************************************************************)
(* Resolver: the inductive invariant.                                      *)
(***************************************************************************)
Errnos == {"0", "ETIMEDOUT", "ECONNREFUSED", "EHOSTUNREACH", "EAFNOSUPPORT", "EPIPE", "ECONNRESET"}

Asking ==
    [id : Nat, try : 0 .. retry - 1, ns : Servers, vc : BOOLEAN, connected : BOOLEAN,
     connreset : BOOLEAN, gotsomewhere : BOOLEAN, terrno : Errnos]

Sockets ==
    [kind : {"none", "dgram", "stream"}, peer : Servers \cup {None}, in : Seq(Answer), err : BOOLEAN]

Searches ==
    [cand : Candidates, dots : BOOLEAN, nodata : BOOLEAN, lookups : 0 .. MaxLookups,
     result : {None, "found"} \cup Verdicts]

Counts == [Servers -> Nat]

Logs ==
    [asked : Counts, gaveup : {None} \cup [asked : Counts, vc : BOOLEAN],
     verdicts : [Candidates -> {None} \cup Verdicts]]

Typed ==
    /\ pc \in {"idle", "ask", "select", "read"}
    /\ search \in Searches /\ q \in Asking /\ sock \in Sockets
    /\ options \in {{}, {"STAYOPEN"}, {"STAYOPEN", "USEVC"}}
    /\ errno \in Errnos
    /\ out \subseteq [srv : Servers, id : Nat, cand : Candidates, kind : {"dgram", "stream"}]
    /\ records \in [Candidates -> Verdicts]
    /\ log \in Logs /\ troubles \in Nat

\* What has come, or may come, by the socket: m is for a question before this one,
\* or for the candidate that is asked about.
Mine(m) == m.id <= q.id /\ (pc # "idle" /\ m.id = q.id => m.cand = search.cand)

Matched ==
    /\ \A m \in out : Mine(m) /\ m.kind = sock.kind
    /\ \A i \in 1 .. Len(sock.in) : Mine(sock.in[i])
    /\ sock.kind = "none" => sock = Closed /\ out = {}

\* A circuit carries one question at a time.
Circuit ==
    sock.kind = "stream" =>
        /\ pc # "read" => out = {} /\ sock.in = <<>>
        /\ \A m \in out : m.id = q.id
        /\ \A i \in 1 .. Len(sock.in) : sock.in[i].id = q.id
        /\ (out = {} \/ sock.in = <<>>) /\ Len(sock.in) <= 1
        /\ \A m, n \in out : m = n
        /\ sock.err => troubles > 0

\* The socket is of the right kind.
Suits ==
    /\ pc # "idle" /\ "USEVC" \in options => q.vc
    /\ pc = "ask" => IF q.vc THEN sock.kind = "none" \/ (sock.kind = "stream" /\ sock.peer = q.ns)
                     ELSE sock.kind # "stream"
    /\ pc = "select" => ~q.vc /\ sock.kind = "dgram"
    /\ pc = "read" => q.vc /\ sock.kind = "stream" /\ sock.peer = q.ns
    /\ SocketKept

First == q.try = 0 /\ q.ns = 1

\* The socket is connected for the first server of the first round only: that is
\* when a refusal can come, and whom it costs a question.
Connected ==
    /\ sock.kind = "dgram" /\ sock.err => sock.peer # None
    /\ pc = "ask" /\ ~q.vc /\ First => log.asked = Nobody
    /\ nscount > 1 /\ pc = "ask" /\ ~q.vc /\ ~First =>
          IF q.connected THEN q.try = 0 /\ q.ns = 2 ELSE sock.peer = None
    /\ nscount > 1 /\ pc = "select" =>
          /\ q.connected <=> First
          /\ IF First THEN sock.peer = 1 /\ \A n \in Servers \ {1} : log.asked[n] = 0
                      ELSE sock.peer = None
    /\ nscount = 1 /\ pc = "select" => sock.peer = 1

\* Rounds of the loops in which server n had its turn
Turns(n) == q.try + (IF n < q.ns \/ (n = q.ns /\ pc = "select") THEN 1 ELSE 0)

Counted ==
    /\ nscount > 1 /\ pc \in {"ask", "select"} /\ ~q.vc =>
          \A n \in Servers : log.asked[n] + troubles + 1 >= Turns(n)
    /\ EveryServerAsked

Denied(c) == log.verdicts[c] = "HOST_NOT_FOUND"

\* What the search list has brought so far
Searched ==
    /\ RightAnswers
    /\ search.nodata => \E c \in Candidates : log.verdicts[c] = "NO_DATA"
    /\ pc # "idle" =>
          /\ search.result = None
          /\ ~search.dots => search.cand <= Domains
                              /\ (search.nodata \/ \A c \in 1 .. search.cand - 1 : Denied(c))
    /\ ResultFounded

ResolverIInv == Typed /\ Matched /\ Circuit /\ Suits /\ Connected /\ Counted /\ Searched

\* The next question of a search, or its end
Turned ==
    /\ \/ pc' = "idle" /\ q' = Question(q.id, FALSE)
       \/ pc' = "ask" /\ q' = Question(q.id + 1, "USEVC" \in options)
    /\ log'.asked = Nobody

\* A question begins with the first server and the first try.
LEMMA QuestionIs ==
    ASSUME NEW id \in Nat, NEW vc \in BOOLEAN
    PROVE  /\ Question(id, vc) \in Asking
           /\ Question(id, vc).id = id /\ Question(id, vc).vc = vc
           /\ Question(id, vc).try = 0 /\ Question(id, vc).ns = 1
BY ResolverAssumption DEF Question, Asking, Servers, Errnos

\* A closed socket has no kind, nothing has come through it, no error is pending.
LEMMA ClosedIs == Closed \in Sockets /\ Closed.kind = "none" /\ Closed.in = <<>> /\ ~Closed.err
BY DEF Closed, Sockets

\* What the next question, or the end of a search, leaves in the locals.
LEMMA TurnedIs ==
    ASSUME Typed, Turned
    PROVE  /\ q' \in Asking /\ q'.try = 0 /\ q'.ns = 1 /\ q.id <= q'.id
           /\ pc' = "idle" \/ (pc' = "ask" /\ q'.id = q.id + 1 /\ (q'.vc <=> "USEVC" \in options))
           /\ \A n \in Servers : log'.asked[n] = 0
<1>1. q.id \in Nat /\ q.id + 1 \in Nat /\ ("USEVC" \in options) \in BOOLEAN
  BY DEF Typed, Asking
<1> DEFINE Q1 == Question(q.id, FALSE)
           Q2 == Question(q.id + 1, "USEVC" \in options)
<1>2. Q1 \in Asking /\ Q1.id = q.id /\ Q1.try = 0 /\ Q1.ns = 1
  BY <1>1, QuestionIs
<1>3. Q2 \in Asking /\ Q2.id = q.id + 1 /\ (Q2.vc <=> "USEVC" \in options) /\ Q2.try = 0 /\ Q2.ns = 1
  BY <1>1, QuestionIs
<1> HIDE DEF Q1, Q2
<1>4. \A n \in Servers : log'.asked[n] = 0
  BY DEF Turned, Nobody
<1>5. CASE pc' = "idle" /\ q' = Q1
  BY <1>1, <1>2, <1>4, <1>5
<1>6. CASE pc' = "ask" /\ q' = Q2
  BY <1>1, <1>3, <1>4, <1>6
<1> QED BY <1>5, <1>6 DEF Turned, Q1, Q2

\* If the socket was closed, the rest of the invariant holds again.
LEMMA ClosedKept ==
    ASSUME Typed, Turned, sock' = Closed, out' = {}, troubles' \in Nat, EveryServerAsked', options' = options
    PROVE  Matched' /\ Circuit' /\ Suits' /\ Connected' /\ Counted'
<1>1. /\ q' \in Asking /\ q'.try = 0 /\ q'.ns = 1
      /\ pc' = "idle" \/ (pc' = "ask" /\ (q'.vc <=> "USEVC" \in options))
      /\ \A n \in Servers : log'.asked[n] = 0
  BY TurnedIs
<1>2. sock'.kind = "none" /\ sock'.in = <<>> /\ ~sock'.err
  BY ClosedIs
<1>3. Matched'
  BY <1>2 DEF Matched
<1>4. Circuit' /\ Suits'
  BY <1>1, <1>2 DEF Circuit, Suits, SocketKept
<1>5. First'
  BY <1>1 DEF First
<1>6. Connected'
  BY <1>1, <1>2, <1>5 DEF Connected, Turned
<1>7. Counted'
  <2>1. ASSUME NEW n \in Servers, pc' = "ask" PROVE log'.asked[n] + troubles' + 1 >= Turns(n)'
    <3>1. Turns(n)' = 0
      BY <1>1, <2>1 DEF Turns, Servers
    <3> QED BY <1>1, <3>1
  <2> QED BY <1>1, <2>1 DEF Counted
<1> QED BY <1>3, <1>4, <1>6, <1>7

\* res_search goes on, or has a result that follows from answers.
LEMMA JudgedIs ==
    ASSUME ResolverIInv, pc # "idle", UNCHANGED <<options, records>>,
           NEW v \in Verdicts, NEW e \in Errnos, NEW a \in Logs, Judged(v, e, a),
           \/ v = "TRY_AGAIN" /\ a.verdicts = log.verdicts
           \/ v = records[search.cand] /\ a.verdicts = [log.verdicts EXCEPT ![search.cand] = v]
    PROVE  /\ Turned /\ Searched'
           /\ search' \in Searches /\ log' \in Logs /\ errno' \in Errnos /\ log'.gaveup = a.gaveup
<1> DEFINE nodata == search.nodata \/ (search.cand # Itself /\ v = "NO_DATA")
           next == IF v = "NOERROR" \/ GiveUp(e) THEN None ELSE NextCandidate(v)
           c == search.cand
<1>1. /\ search \in Searches /\ q \in Asking /\ log \in Logs
      /\ records \in [Candidates -> Verdicts] /\ Searched
  BY DEF ResolverIInv, Typed
<1>2. /\ c \in Candidates /\ search.dots \in BOOLEAN /\ search.nodata \in BOOLEAN /\ search.result = None
      /\ log.verdicts \in [Candidates -> {None} \cup Verdicts]
      /\ a.verdicts \in [Candidates -> {None} \cup Verdicts]
  BY <1>1 DEF Searches, Logs, Searched, ResolverIInv
<1>3. nodata \in BOOLEAN
  BY <1>2
<1>4. Domains \in Nat \ {0} /\ Itself = Domains + 1 /\ Itself \in Candidates /\ 1 \in Candidates
  BY ResolverAssumption DEF Itself, Candidates
<1>5. next \in {None} \cup Candidates
  BY <1>2, <1>4 DEF NextCandidate, Candidates, Itself
<1>6. None \notin Candidates /\ None \notin Verdicts \cup {"found"}
  BY ResolverAssumption
<1>7. \A d \in Candidates : a.verdicts[d] \in {None, records[d]}
  BY <1>1, <1>2 DEF Searched, RightAnswers
<1>8. nodata => \E d \in Candidates : a.verdicts[d] = "NO_DATA"
  <2>1. ASSUME search.nodata PROVE \E d \in Candidates : a.verdicts[d] = "NO_DATA"
    <3>1. PICK d \in Candidates : log.verdicts[d] = "NO_DATA"
      BY <1>1, <2>1 DEF Searched
    <3>2. records[d] = "NO_DATA"
      BY <1>1, <1>6, <3>1 DEF Searched, RightAnswers, Verdicts
    <3> QED BY <1>2, <3>1, <3>2
  <2>2. ASSUME v = "NO_DATA" PROVE a.verdicts[c] = "NO_DATA"
    BY <1>2, <2>2
  <2> QED BY <1>2, <2>1, <2>2
<1>9. ~search.dots => c <= Domains /\ (search.nodata \/ \A d \in 1 .. c - 1 : Denied(d))
  BY <1>1 DEF Searched, ResolverIInv
<1>10. \A d \in 1 .. c - 1 : d \in Candidates /\ a.verdicts[d] = log.verdicts[d]
  BY <1>2, <1>4 DEF Candidates
<1>11. /\ errno' = e /\ log' = [a EXCEPT !.asked = Nobody]
       /\ \/ /\ next # None /\ pc' = "ask"
             /\ search' = [search EXCEPT !.cand = next, !.nodata = nodata]
             /\ q' = Question(q.id + 1, "USEVC" \in options)
          \/ /\ next = None /\ pc' = "idle" /\ q' = Question(q.id, FALSE)
             /\ search' = [search EXCEPT !.result = Result(nodata, v, e), !.nodata = nodata]
  BY DEF Judged, Ask
<1> HIDE DEF nodata, next
<1>12. Nobody \in Counts
  BY DEF Nobody, Counts
<1>13. /\ log' \in Logs /\ log'.asked = Nobody /\ log'.gaveup = a.gaveup /\ log'.verdicts = a.verdicts
  BY <1>11, <1>12 DEF Logs
<1>14. CASE next # None
  <2>1. /\ search' = [search EXCEPT !.cand = next, !.nodata = nodata] /\ pc' = "ask"
        /\ q' = Question(q.id + 1, "USEVC" \in options)
    BY <1>11, <1>14
  <2>2. next \in Candidates
    BY <1>5, <1>14
  <2>3. /\ search' \in Searches /\ search'.cand = next /\ search'.nodata = nodata
        /\ search'.result = None /\ search'.dots = search.dots
    BY <1>1, <1>2, <1>3, <2>1, <2>2 DEF Searches
  <2>4. ASSUME ~search.dots
        PROVE  next <= Domains /\ (nodata \/ \A d \in 1 .. next - 1 : a.verdicts[d] = "HOST_NOT_FOUND")
    <3>1. next = c + 1 /\ c < Domains /\ v \in {"HOST_NOT_FOUND", "NO_DATA"}
      BY <1>14, <2>4 DEF next, NextCandidate
    <3>2. c \in Nat
      BY <1>2 DEF Candidates
    <3>3. ASSUME ~nodata PROVE \A d \in 1 .. c : a.verdicts[d] = "HOST_NOT_FOUND"
      <4>1. ~search.nodata /\ v = "HOST_NOT_FOUND"
        BY <1>4, <3>1, <3>2, <3>3 DEF nodata
      <4>2. a.verdicts[c] = "HOST_NOT_FOUND"
        BY <1>2, <4>1
      <4>3. \A d \in 1 .. c - 1 : a.verdicts[d] = "HOST_NOT_FOUND"
        BY <1>9, <1>10, <2>4, <4>1 DEF Denied
      <4> QED BY <3>2, <4>2, <4>3
    <3>4. next <= Domains /\ next - 1 = c
      BY <1>4, <3>1, <3>2
    <3> QED BY <3>3, <3>4
  <2>5. Searched'
    <3>1. RightAnswers'
      BY <1>7, <1>13 DEF RightAnswers
    <3>2. ResultFounded'
      BY <1>6, <2>3 DEF ResultFounded, Verdicts
    <3> QED BY <1>8, <1>13, <2>3, <2>4, <3>1, <3>2 DEF Searched, Denied
  <2> QED BY <1>11, <1>13, <2>1, <2>3, <2>5 DEF Turned
<1>15. CASE next = None
  <2> DEFINE res == Result(nodata, v, e)
  <2>1. /\ search' = [search EXCEPT !.result = res, !.nodata = nodata] /\ pc' = "idle"
        /\ q' = Question(q.id, FALSE)
    BY <1>11, <1>15
  <2>2. res \in {None, "found"} \cup Verdicts
    BY DEF Result, Verdicts
  <2>3. /\ res = "found" => v = "NOERROR"
        /\ res = "NO_DATA" => nodata \/ v = "NO_DATA"
        /\ res = "HOST_NOT_FOUND" => ~nodata /\ v = "HOST_NOT_FOUND" /\ ~GiveUp(e)
    BY DEF Result, Verdicts
  <2> HIDE DEF res
  <2>4. /\ search' \in Searches /\ search'.cand = c /\ search'.nodata = nodata
        /\ search'.result = res /\ search'.dots = search.dots
    BY <1>1, <1>2, <1>3, <2>1, <2>2 DEF Searches
  <2>5. v # "TRY_AGAIN" => a.verdicts[c] = v
    BY <1>2
  <2>6. res = "NO_DATA" => \E d \in Candidates : a.verdicts[d] = "NO_DATA"
    BY <1>2, <1>8, <2>3, <2>5
  <2>7. ASSUME res = "HOST_NOT_FOUND", search.dots PROVE a.verdicts[Itself] = "HOST_NOT_FOUND"
    <3>1. c = Itself
      <4>1. ~GiveUp(e) /\ v = "HOST_NOT_FOUND"
        BY <2>3, <2>7
      <4>2. c < Domains => c + 1 \in Candidates
        BY <1>2, <1>4 DEF Candidates
      <4>3. next = NextCandidate(v)
        BY <4>1 DEF next
      <4>4. c < Domains => next = c + 1
        BY <4>1, <4>3 DEF NextCandidate
      <4>5. ~(c < Domains)
        BY <1>6, <1>15, <4>2, <4>4
      <4> QED BY <1>4, <1>6, <1>15, <2>7, <4>3, <4>5 DEF NextCandidate
    <3> QED BY <2>3, <2>5, <2>7, <3>1
  <2>8. ASSUME res = "HOST_NOT_FOUND", ~search.dots
        PROVE  \A d \in 1 .. Domains : a.verdicts[d] = "HOST_NOT_FOUND"
    <3>1. ~nodata /\ v = "HOST_NOT_FOUND" /\ ~GiveUp(e)
      BY <2>3, <2>8
    <3>3. ~(c < Domains)
      <4>1. ASSUME c < Domains PROVE FALSE
        <5>1. next = c + 1
          BY <3>1, <4>1 DEF next, NextCandidate
        <5>2. c + 1 \in Candidates
          BY <1>2, <1>4, <4>1 DEF Candidates
        <5> QED BY <1>6, <1>15, <5>1, <5>2
      <4> QED BY <4>1
    <3>4. c = Domains
      BY <1>2, <1>4, <1>9, <2>8, <3>3 DEF Candidates
    <3>5. ~search.nodata
      BY <3>1 DEF nodata
    <3>6. \A d \in 1 .. Domains - 1 : a.verdicts[d] = "HOST_NOT_FOUND"
      BY <1>9, <1>10, <2>8, <3>4, <3>5 DEF Denied
    <3> QED BY <1>4, <2>5, <3>1, <3>4, <3>6
  <2>9. Searched'
    <3>1. RightAnswers'
      BY <1>7, <1>13 DEF RightAnswers
    <3>2. ResultFounded'
      BY <1>13, <2>3, <2>4, <2>5, <2>6, <2>7, <2>8 DEF ResultFounded
    <3> QED BY <1>8, <1>13, <2>1, <2>4, <3>1, <3>2 DEF Searched
  <2> QED BY <1>11, <1>13, <2>1, <2>4, <2>9 DEF Turned
<1> QED BY <1>14, <1>15

\* The variables keep their types when a search goes on or ends.
LEMMA TurnedTyped ==
    ASSUME Typed, Turned, UNCHANGED <<options, records>>, search' \in Searches, log' \in Logs, errno' \in Errnos,
           sock' \in Sockets, out' \subseteq out, troubles' \in Nat
    PROVE  Typed'
<1>1. q' \in Asking /\ pc' \in {"idle", "ask"}
  BY TurnedIs
<1> QED BY <1>1 DEF Typed

\* Nothing asked is forgotten.
LEMMA LaterAsked ==
    ASSUME EveryServerAsked, Typed, log'.gaveup = log.gaveup, troubles' \in Nat, troubles <= troubles'
    PROVE  EveryServerAsked'
<1>1. ASSUME NEW n \in Servers, log.gaveup # None PROVE log.gaveup.asked[n] \in Nat
  BY <1>1 DEF Typed, Logs, Counts
<1>2. troubles \in Nat /\ retry \in Nat
  BY ResolverAssumption DEF Typed
<1> QED BY <1>1, <1>2 DEF EveryServerAsked

\* Steps that judge nothing leave what the search has brought alone.
LEMMA SearchedStays ==
    ASSUME Searched, UNCHANGED <<search, records>>, log'.verdicts = log.verdicts,
           pc' = "idle" => pc = "idle", pc = "idle" => pc' = "idle"
    PROVE  Searched'
<1>1. RightAnswers' /\ ResultFounded'
  BY DEF Searched, RightAnswers, ResultFounded
<1> QED BY <1>1 DEF Searched, Denied

\* A round that ends with a circuit: the circuit is closed.
LEMMA ContinueCircuit ==
    ASSUME ResolverIInv, pc # "idle", UNCHANGED <<options, records>>, troubles' \in Nat, troubles <= troubles',
           troubles' > 0,
           NEW r \in Asking, r.id = q.id, r.ns = q.ns, r.vc, NEW e \in Errnos,
           q.vc, Continue(r, Closed, e, {})
    PROVE  ResolverIInv'
<1>1. Typed /\ Searched /\ log \in Logs /\ EveryServerAsked
  BY DEF ResolverIInv, Typed, Counted
<1>2. /\ sock' = Closed /\ out' = {} /\ sock'.kind = "none" /\ sock' \in Sockets /\ sock'.in = <<>> /\ ~sock'.err
  BY ClosedIs DEF Continue
<1>3. /\ r.ns \in Servers /\ nscount \in Nat \ {0} /\ Servers = 1 .. nscount
  BY ResolverAssumption DEF Asking, Servers
<1>4. CASE r.ns < nscount
  <2>1. /\ pc' = "ask" /\ q' = [r EXCEPT !.ns = @ + 1] /\ errno' = e /\ UNCHANGED <<search, log>>
    BY <1>4 DEF Continue
  <2>2. q' \in Asking /\ q'.vc /\ q'.id = r.id /\ q'.ns = r.ns + 1
    BY <1>3, <1>4, <2>1 DEF Asking
  <2>3. Typed'
    BY <1>1, <1>2, <2>1, <2>2 DEF Typed
  <2>4. Matched' /\ Circuit' /\ Suits' /\ Connected'
    BY <1>2, <2>1, <2>2 DEF Matched, Circuit, Suits, SocketKept, Connected
  <2>5. Counted'
    BY <1>1, <2>1, <2>2, LaterAsked DEF Counted
  <2>6. Searched'
    BY <1>1, <2>1, SearchedStays DEF ResolverIInv
  <2> QED BY <2>3, <2>4, <2>5, <2>6 DEF ResolverIInv
<1>5. CASE ~(r.ns < nscount)
  <2> DEFINE a == [log EXCEPT !.gaveup = [asked |-> log.asked, vc |-> r.vc]]
             e2 == IF r.vc THEN r.terrno ELSE IF r.gotsomewhere THEN "ETIMEDOUT" ELSE "ECONNREFUSED"
  <2>1. Judged("TRY_AGAIN", e2, a)
    BY <1>5 DEF Continue
  <2>2. e2 \in Errnos
    BY DEF Asking
  <2>3. /\ a \in Logs /\ a.verdicts = log.verdicts
        /\ a.gaveup = [asked |-> log.asked, vc |-> r.vc] /\ log.asked \in Counts
    BY <1>1 DEF Logs, Asking
  <2> HIDE DEF a, e2
  <2>4. /\ Turned /\ Searched'
        /\ search' \in Searches /\ log' \in Logs /\ errno' \in Errnos /\ log'.gaveup = a.gaveup
    BY <2>1, <2>2, <2>3, JudgedIs DEF Verdicts
  <2>5. EveryServerAsked'
    <3>1. log'.gaveup.vc /\ log'.gaveup.asked \in Counts
      BY <2>3, <2>4
    <3> QED BY <3>1 DEF EveryServerAsked, Counts
  <2> QED BY <1>1, <1>2, <2>4, <2>5, TurnedTyped, ClosedKept DEF ResolverIInv
<1> QED BY <1>4, <1>5

\* A round that ends with datagrams: each server but one had all its turns.
LEMMA ContinueDatagram ==
    ASSUME ResolverIInv, pc \in {"ask", "select"}, UNCHANGED <<options, records>>,
           troubles' \in Nat, troubles <= troubles', ~q.vc,
           NEW r \in Asking, r.id = q.id, r.ns = q.ns, r.try = q.try, ~r.vc,
           NEW s \in Sockets, s.kind = "dgram", s.in = sock.in, ~s.err,
           nscount > 1 => IF First THEN r.connected ELSE ~r.connected /\ s.peer = None,
           nscount > 1 => \A n \in Servers :
               log.asked[n] + troubles' + 1 >= q.try + (IF n <= q.ns THEN 1 ELSE 0),
           NEW e \in Errnos, Continue(r, s, e, out)
    PROVE  ResolverIInv'
<1>1. /\ Typed /\ Searched /\ Matched /\ Suits /\ log \in Logs /\ EveryServerAsked
      /\ out \subseteq [srv : Servers, id : Nat, cand : Candidates, kind : {"dgram", "stream"}]
  BY DEF ResolverIInv, Typed, Counted
<1>2. /\ r.ns \in Servers /\ r.try \in 0 .. retry - 1 /\ nscount \in Nat \ {0} /\ Servers = 1 .. nscount
      /\ retry \in Nat \ {0} /\ troubles \in Nat /\ log.asked \in Counts
  BY <1>1, ResolverAssumption DEF Asking, Servers, Typed, Logs
<1>3. sock.kind # "stream"
  BY <1>1 DEF Suits
<1>4. CASE r.ns < nscount \/ r.try + 1 < retry
  <2> DEFINE t == IF r.ns < nscount THEN r.try ELSE r.try + 1
             n == IF r.ns < nscount THEN r.ns + 1 ELSE 1
  <2>1. /\ pc' = "ask" /\ sock' = s /\ errno' = e /\ out' = out /\ UNCHANGED <<search, log>>
        /\ q' = IF r.ns < nscount THEN [r EXCEPT !.ns = @ + 1] ELSE [r EXCEPT !.ns = 1, !.try = @ + 1]
    BY <1>4 DEF Continue
  <2>2. n \in Servers /\ t \in 0 .. retry - 1
    BY <1>2, <1>4
  <2>3. /\ q' \in Asking /\ ~q'.vc /\ q'.id = r.id /\ q'.ns = n /\ q'.try = t /\ q'.connected = r.connected
    BY <1>2, <2>1, <2>2 DEF Asking
  <2> HIDE DEF t, n
  <2>4. Typed'
    BY <1>1, <2>1, <2>3 DEF Typed
  <2>5. Matched'
    BY <1>1, <1>3, <2>1, <2>3 DEF Matched, Mine, Sockets
  <2>6. Circuit'
    BY <2>1 DEF Circuit
  <2>7. Suits'
    BY <1>1, <2>1, <2>3 DEF Suits, SocketKept
  <2>8. ~First' /\ (First /\ nscount > 1 => t = 0 /\ n = 2)
    BY <1>2, <2>3 DEF First, t, n
  <2>9. Connected'
    BY <2>1, <2>3, <2>8 DEF Connected
  <2>10. ASSUME NEW m \in Servers, nscount > 1 PROVE log'.asked[m] + troubles' + 1 >= Turns(m)'
    <3>1. m \in Nat /\ m <= nscount /\ log.asked[m] \in Nat /\ log'.asked[m] = log.asked[m]
      BY <1>2, <2>1 DEF Counts
    <3>2. Turns(m)' = t + (IF m < n THEN 1 ELSE 0)
      BY <2>1, <2>3 DEF Turns
    <3>3. Turns(m)' <= q.try + (IF m <= q.ns THEN 1 ELSE 0)
      BY <1>2, <3>1, <3>2 DEF t, n
    <3> HIDE DEF t, n
    <3>4. Turns(m)' \in Nat /\ q.try \in Nat
      BY <1>2, <2>2, <3>2
    <3> QED BY <2>10, <3>1, <3>3, <3>4
  <2>11. Counted'
    BY <1>1, <2>1, <2>10, LaterAsked DEF Counted
  <2>12. Searched'
    BY <1>1, <2>1, SearchedStays
  <2> QED BY <2>4, <2>5, <2>6, <2>7, <2>9, <2>11, <2>12 DEF ResolverIInv
<1>5. CASE ~(r.ns < nscount \/ r.try + 1 < retry)
  <2> DEFINE a == [log EXCEPT !.gaveup = [asked |-> log.asked, vc |-> r.vc]]
             e2 == IF r.vc THEN r.terrno ELSE IF r.gotsomewhere THEN "ETIMEDOUT" ELSE "ECONNREFUSED"
  <2>1. Judged("TRY_AGAIN", e2, a) /\ sock' = Closed /\ out' = {}
    BY <1>5 DEF Continue
  <2>2. e2 \in Errnos
    BY DEF Asking, Errnos
  <2>3. /\ a \in Logs /\ a.verdicts = log.verdicts
        /\ a.gaveup = [asked |-> log.asked, vc |-> r.vc]
    BY <1>1, <1>2 DEF Logs, Asking
  <2> HIDE DEF a, e2
  <2>4. /\ Turned /\ Searched'
        /\ search' \in Searches /\ log' \in Logs /\ errno' \in Errnos /\ log'.gaveup = a.gaveup
    BY <2>1, <2>2, <2>3, JudgedIs DEF Verdicts
  <2>5. EveryServerAsked'
    <3>1. ~log'.gaveup.vc /\ log'.gaveup.asked = log.asked
      BY <2>3, <2>4
    <3>2. r.ns = nscount /\ r.try = retry - 1
      BY <1>2, <1>5
    <3>3. ASSUME NEW n \in Servers, nscount > 1 PROVE log.asked[n] + troubles' >= retry - 1
      <4>1. n <= q.ns /\ log.asked[n] \in Nat
        BY <1>2, <3>2 DEF Counts
      <4>2. log.asked[n] + troubles' + 1 >= q.try + 1
        BY <3>3, <4>1
      <4> QED BY <1>2, <3>2, <4>1, <4>2
    <3>4. \A n \in Servers : log.asked[n] \in Nat
      BY <1>2 DEF Counts
    <3> QED BY <3>1, <3>3, <3>4 DEF EveryServerAsked
  <2>6. Closed \in Sockets
    BY ClosedIs
  <2> QED BY <1>1, <2>1, <2>4, <2>5, <2>6, TurnedTyped, ClosedKept DEF ResolverIInv
<1> QED BY <1>4, <1>5

\* An answer to the question is taken; the socket may be kept.
LEMMA TakenKept ==
    ASSUME ResolverIInv, pc \in {"select", "read"}, UNCHANGED <<options, records>>,
           troubles' \in Nat, troubles <= troubles',
           NEW m \in Answer, m.cand = search.cand,
           NEW s \in Sockets, s.kind = sock.kind, s.peer = sock.peer,
           \A i \in 1 .. Len(s.in) : s.in[i].id <= q.id,
           pc = "select" => ~s.err,
           pc = "read" => s.in = <<>> /\ out = {} /\ (s.err => troubles' > 0),
           Taken(m, s)
    PROVE  ResolverIInv'
<1> DEFINE close == \/ q.vc /\ ("USEVC" \notin options \/ q.ns # 1)
                    \/ "STAYOPEN" \notin options
           v == records[m.cand]
           a == [log EXCEPT !.verdicts[search.cand] = v]
<1>1. /\ Typed /\ Matched /\ Suits /\ Connected /\ log \in Logs /\ EveryServerAsked
      /\ search \in Searches /\ errno \in Errnos /\ q \in Asking
  BY DEF ResolverIInv, Typed, Counted
<1>2. search.cand \in Candidates /\ v \in Verdicts
  BY <1>1 DEF Typed, Searches
<1>3. a \in Logs /\ a.verdicts = [log.verdicts EXCEPT ![search.cand] = v] /\ a.gaveup = log.gaveup
  BY <1>1, <1>2 DEF Logs
<1>4. /\ sock' = IF close THEN Closed ELSE s
      /\ out' = IF close THEN {} ELSE out
      /\ Judged(v, errno, a)
  BY DEF Taken
<1>5. v = records[search.cand]
  OBVIOUS
<1> HIDE DEF v, a
<1>6. /\ Turned /\ Searched'
      /\ search' \in Searches /\ log' \in Logs /\ errno' \in Errnos /\ log'.gaveup = log.gaveup
  BY <1>1, <1>2, <1>3, <1>4, <1>5, JudgedIs
<1>7. EveryServerAsked'
  BY <1>1, <1>6, LaterAsked
<1>8. CASE close
  BY <1>1, <1>4, <1>6, <1>7, <1>8, ClosedIs, TurnedTyped, ClosedKept DEF ResolverIInv
<1>9. CASE ~close
  <2>1. sock' = s /\ out' = out /\ "STAYOPEN" \in options /\ (q.vc => "USEVC" \in options /\ q.ns = 1)
    BY <1>4, <1>9
  <2>2. /\ q' \in Asking /\ q'.try = 0 /\ q'.ns = 1 /\ q.id <= q'.id
        /\ pc' = "idle" \/ (pc' = "ask" /\ q'.id = q.id + 1 /\ (q'.vc <=> "USEVC" \in options))
        /\ \A n \in Servers : log'.asked[n] = 0
    BY <1>1, <1>6, TurnedIs
  <2>3. Typed'
    BY <1>1, <1>6, <2>1, TurnedTyped
  <2>4. sock.kind = IF q.vc THEN "stream" ELSE "dgram"
    BY <1>1 DEF Suits
  <2>5. "USEVC" \in options <=> q.vc
    BY <1>1, <2>1 DEF Suits
  <2>6. Matched'
    <3>1. q.id \in Nat
      BY <1>1 DEF Asking
    <3>2. \A o \in out : o.id \in Nat /\ o.id <= q.id /\ o.kind = sock.kind
      BY <1>1 DEF Matched, Mine, Typed
    <3>3. \A i \in 1 .. Len(s.in) : s.in[i].id \in Nat /\ s.in[i].id <= q.id
      <4>1. s.in \in Seq(Answer)
        BY DEF Sockets
      <4>2. ASSUME NEW i \in 1 .. Len(s.in) PROVE s.in[i] \in Answer
        BY <4>1
      <4> QED BY <4>2 DEF Answer
    <3>4. q'.id \in Nat
      BY <2>2 DEF Asking
    <3>5. \A o \in out : Mine(o)'
      BY <2>2, <3>1, <3>2, <3>4 DEF Mine
    <3>6. \A i \in 1 .. Len(s.in) : Mine(s.in[i])'
      BY <2>1, <2>2, <3>1, <3>3, <3>4 DEF Mine
    <3> QED BY <2>1, <2>4, <3>2, <3>5, <3>6 DEF Matched
  <2>7. Circuit'
    <3>1. CASE ~q.vc
      BY <2>1, <2>4, <3>1 DEF Circuit
    <3>2. CASE q.vc
      <4>1. pc = "read"
        BY <1>1, <3>2 DEF Suits
      <4> QED BY <2>1, <2>2, <4>1 DEF Circuit
    <3> QED BY <3>1, <3>2
  <2>8. Suits'
    <3>1. q.vc => sock.peer = 1
      BY <1>1, <2>1 DEF Suits
    <3> QED BY <2>1, <2>2, <2>4, <2>5, <3>1 DEF Suits, SocketKept
  <2>9. First'
    BY <2>2 DEF First
  <2>10. Connected'
    BY <1>1, <1>6, <2>1, <2>2, <2>4, <2>9 DEF Connected, Turned, Suits
  <2>11. Counted'
    <3>1. ASSUME NEW n \in Servers, pc' = "ask" PROVE log'.asked[n] + troubles' + 1 >= Turns(n)'
      <4>1. Turns(n)' = 0
        BY <2>2, <3>1 DEF Turns, Servers
      <4> QED BY <2>2, <4>1
    <3> QED BY <1>7, <2>2, <3>1 DEF Counted
  <2> QED BY <1>6, <2>3, <2>6, <2>7, <2>8, <2>10, <2>11 DEF ResolverIInv
<1> QED BY <1>8, <1>9

(***************************************************************************)
(* Resolver: the actions                                                   *)
(***************************************************************************)

\* gethostbyname begins with the first candidate.
LEMMA LookupStep == ASSUME ResolverIInv, Lookup PROVE ResolverIInv'
<1>1. /\ Typed /\ Matched /\ Circuit /\ Suits /\ Connected /\ EveryServerAsked /\ Searched /\ pc = "idle"
      /\ q \in Asking /\ search \in Searches /\ log \in Logs /\ sock \in Sockets
  BY DEF ResolverIInv, Typed, Counted, Lookup
<1>2. PICK dots \in BOOLEAN :
         Ask([cand |-> 1, dots |-> dots, nodata |-> FALSE, result |-> None, lookups |-> search.lookups + 1])
  BY DEF Lookup
<1> DEFINE s2 == [cand |-> 1, dots |-> dots, nodata |-> FALSE, result |-> None, lookups |-> search.lookups + 1]
<1>3. /\ pc' = "ask" /\ search' = s2 /\ q' = Question(q.id + 1, "USEVC" \in options) /\ errno' = "0"
      /\ log' = [asked |-> Nobody, gaveup |-> None, verdicts |-> NoVerdicts]
      /\ UNCHANGED <<sock, options, out, records, troubles>> /\ search.lookups < MaxLookups
  BY <1>2 DEF Ask, Lookup
<1>4. Turned
  BY <1>3 DEF Turned
<1>5. 1 \in Candidates /\ 1 <= Domains
  BY ResolverAssumption DEF Candidates, Itself
<1>6. /\ s2 \in Searches /\ s2.cand = 1 /\ ~s2.nodata /\ s2.result = None
  <2>1. search.lookups + 1 \in 0 .. MaxLookups
    BY <1>1, <1>3, ResolverAssumption DEF Searches
  <2> QED BY <1>5, <2>1 DEF Searches
<1> HIDE DEF s2
<1>7. log' \in Logs /\ log'.gaveup = None /\ \A c \in Candidates : log'.verdicts[c] = None
  BY <1>3 DEF Logs, Nobody, NoVerdicts, Counts
<1>8. /\ q' \in Asking /\ q'.try = 0 /\ q'.ns = 1 /\ q'.id = q.id + 1 /\ (q'.vc <=> "USEVC" \in options)
      /\ \A n \in Servers : log'.asked[n] = 0
  BY <1>1, <1>3, <1>4, TurnedIs
<1>9. Typed'
  BY <1>1, <1>3, <1>4, <1>6, <1>7, TurnedTyped DEF Typed, Errnos
<1>10. Matched'
  <2>1. q.id \in Nat /\ \A m \in out : m.id \in Nat
    BY <1>1 DEF Asking, Typed
  <2>2. \A i \in 1 .. Len(sock.in) : sock.in[i] \in Answer
    <3>1. sock.in \in Seq(Answer)
      BY <1>1 DEF Sockets
    <3> QED BY <3>1
  <2>3. \A m \in out : Mine(m)'
    BY <1>1, <1>3, <1>8, <2>1 DEF Matched, Mine
  <2>4. \A i \in 1 .. Len(sock.in) : Mine(sock.in[i])'
    <3>1. ASSUME NEW i \in 1 .. Len(sock.in) PROVE sock.in[i].id \in Nat /\ sock.in[i].id <= q.id
      BY <1>1, <2>2, <3>1 DEF Matched, Mine, Answer
    <3> QED BY <1>3, <1>8, <2>1, <3>1 DEF Mine
  <2> QED BY <1>1, <1>3, <2>3, <2>4 DEF Matched
<1>11. Circuit'
  BY <1>1, <1>3 DEF Circuit
<1>12. Suits'
  BY <1>1, <1>3, <1>8 DEF Suits, SocketKept
<1>13. Connected'
  BY <1>1, <1>3, <1>8 DEF Connected, First
<1>14. Counted'
  <2>1. ASSUME NEW n \in Servers PROVE log'.asked[n] + troubles' + 1 >= Turns(n)'
    <3>1. Turns(n)' = 0 /\ troubles' \in Nat
      BY <1>3, <1>8, <1>9 DEF Turns, Servers, Typed
    <3> QED BY <1>8, <3>1
  <2> QED BY <1>7, <2>1 DEF Counted, EveryServerAsked
<1>15. Searched'
  <2>1. None \notin Verdicts \cup {"found"} /\ "found" # None
    BY ResolverAssumption
  <2> QED BY <1>3, <1>5, <1>6, <1>7, <2>1 DEF Searched, RightAnswers, ResultFounded, Verdicts
<1> QED BY <1>9, <1>10, <1>11, <1>12, <1>13, <1>14, <1>15 DEF ResolverIInv

\* What is under way after a question was sent.
LEMMA SentIs ==
    ASSUME Typed, Matched, NEW kind \in {"dgram", "stream"}, pc # "idle"
    PROVE  /\ Sent(kind) \subseteq [srv : Servers, id : Nat, cand : Candidates, kind : {"dgram", "stream"}]
           /\ \A m \in Sent(kind) : Mine(m) /\ (m \in out \/ m.kind = kind)
           /\ out = {} => \A m \in Sent(kind) :
                            m = [srv |-> q.ns, id |-> q.id, cand |-> search.cand, kind |-> kind]
<1> DEFINE new == [srv |-> q.ns, id |-> q.id, cand |-> search.cand, kind |-> kind]
<1>1. q.ns \in Servers /\ q.id \in Nat /\ search.cand \in Candidates
  BY DEF Typed, Asking, Searches
<1>2. new \in [srv : Servers, id : Nat, cand : Candidates, kind : {"dgram", "stream"}] /\ Mine(new)
  BY <1>1 DEF Mine
<1>3. Sent(kind) \subseteq out \cup {new}
  BY DEF Sent
<1>4. new.kind = kind
  OBVIOUS
<1> HIDE DEF new
<1>5. \A m \in out : m \in [srv : Servers, id : Nat, cand : Candidates, kind : {"dgram", "stream"}] /\ Mine(m)
  BY DEF Typed, Matched
<1> QED BY <1>2, <1>3, <1>4, <1>5 DEF new

\* The socket before a datagram is sent: it is connected to the first server in the
\* first round, and to nobody later.
LEMMA PreparedIs ==
    ASSUME ResolverIInv, pc = "ask", ~q.vc
    PROVE  /\ Prepared.sock \in Sockets /\ Prepared.sock.kind = "dgram" /\ Prepared.sock.in = sock.in
           /\ Prepared.sock.err = sock.err /\ Prepared.errno \in Errnos /\ Connects \in BOOLEAN
           /\ Connects => Prepared.sock.peer = q.ns
           /\ nscount > 1 => (Connects <=> First) /\ (~First => Prepared.sock.peer = None)
<1> DEFINE s == IF sock.kind = "none" THEN Open("dgram", None) ELSE sock
           p == Prepared.sock
<1>1. Typed /\ Matched /\ Suits /\ Connected /\ sock \in Sockets /\ q \in Asking /\ errno \in Errnos
  BY DEF ResolverIInv, Typed
<1>2. s \in Sockets /\ s.kind = "dgram" /\ s.in = sock.in /\ s.err = sock.err
      /\ s.peer = (IF sock.kind = "none" THEN None ELSE sock.peer)
  <2>1. CASE sock.kind = "none"
    <3>1. sock = Closed
      BY <1>1, <2>1 DEF Matched
    <3>2. Open("dgram", None) = [Closed EXCEPT !.kind = "dgram", !.peer = None]
      BY DEF Open
    <3>3. /\ Open("dgram", None) \in Sockets /\ Open("dgram", None).kind = "dgram"
          /\ Open("dgram", None).in = Closed.in /\ Open("dgram", None).err = Closed.err
          /\ Open("dgram", None).peer = None
      BY <3>2, ClosedIs DEF Sockets
    <3> QED BY <2>1, <3>1, <3>3
  <2>2. CASE sock.kind # "none"
    BY <1>1, <2>2 DEF Suits, Sockets
  <2> QED BY <2>1, <2>2
<1> HIDE DEF s
<1>3. p = IF Connects THEN [s EXCEPT !.peer = q.ns]
          ELSE IF q.connected THEN [s EXCEPT !.peer = None] ELSE s
  BY DEF Prepared, s
<1>4. q.ns \in Servers
  BY <1>1 DEF Asking
<1>5. /\ p \in Sockets /\ p.kind = "dgram" /\ p.in = sock.in /\ p.err = sock.err
      /\ p.peer = IF Connects THEN q.ns ELSE IF q.connected THEN None ELSE s.peer
  BY <1>2, <1>3, <1>4 DEF Sockets
<1>6. nscount > 1 => (Connects <=> First)
  BY ResolverAssumption DEF Connects, First
<1>7. nscount > 1 /\ ~First => (IF q.connected THEN None ELSE s.peer) = None
  BY <1>1, <1>2 DEF Connected
<1>8. Prepared.errno \in Errnos
  BY <1>1 DEF Prepared, Errnos
<1>9. Connects \in BOOLEAN
  BY DEF Connects
<1> HIDE DEF p
<1>10. Connects => p.peer = q.ns
  BY <1>5
<1>11. nscount > 1 => (Connects <=> First) /\ (~First => p.peer = None)
  BY <1>5, <1>6, <1>7
<1> QED BY <1>5, <1>8, <1>9, <1>10, <1>11 DEF p

\* A question goes out by a datagram, or does not.
LEMMA AskDatagramStep == ASSUME ResolverIInv, AskDatagram PROVE ResolverIInv'
<1>1. /\ Typed /\ Matched /\ Circuit /\ Suits /\ Connected /\ Counted /\ Searched /\ EveryServerAsked
      /\ pc = "ask" /\ ~q.vc /\ UNCHANGED <<options, records>>
      /\ q \in Asking /\ log \in Logs /\ troubles \in Nat /\ log.asked \in Counts
  BY DEF ResolverIInv, Typed, Counted, AskDatagram, Logs
<1> DEFINE p == Prepared.sock
           r == [q EXCEPT !.connected = Connects]
<1>2. /\ p \in Sockets /\ p.kind = "dgram" /\ p.in = sock.in
      /\ p.err = sock.err /\ Prepared.errno \in Errnos /\ Connects \in BOOLEAN
      /\ Connects => p.peer = q.ns
      /\ nscount > 1 => (Connects <=> First) /\ (~First => p.peer = None)
  BY <1>1, PreparedIs
<1>3. /\ r \in Asking /\ r.id = q.id /\ r.ns = q.ns /\ r.try = q.try /\ r.vc = q.vc /\ r.connected = Connects
  BY <1>1, <1>2 DEF Asking
<1>4. sock.kind # "stream" /\ (sock.kind = "none" => out = {})
  BY <1>1 DEF Suits, Matched
<1>5. q.ns \in Servers /\ q.try \in 0 .. retry - 1 /\ Servers = 1 .. nscount /\ nscount \in Nat \ {0} /\ retry \in Nat
  BY <1>1, ResolverAssumption DEF Asking, Servers
<1>6. ASSUME NEW n \in Servers
      PROVE  /\ log.asked[n] \in Nat /\ n \in Nat
             /\ Turns(n) = q.try + (IF n < q.ns THEN 1 ELSE 0)
             /\ nscount > 1 => log.asked[n] + troubles + 1 >= Turns(n)
  BY <1>1, <1>5 DEF Counts, Turns, Counted
<1> DEFINE PD == [p EXCEPT !.err = FALSE]
<1> HIDE DEF p
<1>7. PD \in Sockets /\ PD.kind = "dgram" /\ PD.in = sock.in /\ ~PD.err /\ PD.peer = p.peer
  BY <1>2 DEF Sockets
<1> HIDE DEF r, PD
<1>8. CASE /\ Fine /\ ~sock.err /\ pc' = "select" /\ sock' = p /\ errno' = Prepared.errno /\ q' = r
           /\ out' = Sent("dgram") /\ log' = Asked /\ UNCHANGED <<search, h_errno>>
  <2>1. Asked = [log EXCEPT !.asked[q.ns] = @ + 1]
    BY DEF Asked
  <2>2. /\ log' \in Logs /\ log'.gaveup = log.gaveup /\ log'.verdicts = log.verdicts
        /\ log'.asked = [log.asked EXCEPT ![q.ns] = @ + 1]
    <3>1. [log.asked EXCEPT ![q.ns] = @ + 1] \in Counts
      BY <1>1, <1>5 DEF Counts
    <3>2. Asked = [log EXCEPT !.asked = [log.asked EXCEPT ![q.ns] = @ + 1]]
      BY <1>1, <2>1 DEF Logs
    <3> QED BY <1>1, <1>8, <3>1, <3>2 DEF Logs
  <2>3. /\ Sent("dgram") \subseteq [srv : Servers, id : Nat, cand : Candidates, kind : {"dgram", "stream"}]
        /\ \A m \in Sent("dgram") : Mine(m) /\ (m \in out \/ m.kind = "dgram")
    BY <1>1, SentIs
  <2>4. /\ pc' = "select" /\ sock' = p /\ errno' = Prepared.errno /\ q' = r /\ troubles' = troubles
        /\ out' = Sent("dgram") /\ UNCHANGED search /\ ~p.err
    BY <1>2, <1>8 DEF Fine
  <2>5. Typed'
    BY <1>1, <1>2, <1>3, <2>2, <2>3, <2>4 DEF Typed
  <2>6. Matched'
    <3>1. \A m \in out' : Mine(m)'
      BY <1>1, <1>3, <2>3, <2>4 DEF Mine
    <3>2. \A m \in out' : m.kind = "dgram"
      BY <1>1, <1>4, <2>3, <2>4 DEF Matched, Typed
    <3>3. sock'.in = sock.in /\ sock'.kind = "dgram" /\ q'.id = q.id
      BY <1>2, <1>3, <2>4
    <3>4. \A i \in 1 .. Len(sock.in) : Mine(sock.in[i])'
      BY <1>1, <2>4, <3>3 DEF Mine, Matched
    <3> QED BY <3>1, <3>2, <3>3, <3>4 DEF Matched
  <2>7. Circuit' /\ Suits'
    BY <1>1, <1>2, <1>3, <2>4 DEF Circuit, Suits, SocketKept
  <2>8. First' <=> First
    BY <1>3, <2>4 DEF First
  <2>9. Connected'
    <3>1. First => \A n \in Servers \ {1} : log'.asked[n] = 0
      <4>1. ASSUME First PROVE \A n \in Servers : log.asked[n] = 0
        BY <1>1, <4>1 DEF Connected, Nobody
      <4>2. First => q.ns = 1
        BY DEF First
      <4> QED BY <1>1, <1>5, <2>2, <4>1, <4>2 DEF Counts
    <3>2. nscount = 1 => p.peer = 1
      BY <1>2, <1>5 DEF Connects
    <3>3. First => q.ns = 1
      BY DEF First
    <3> QED BY <1>2, <1>3, <2>4, <2>8, <3>1, <3>2, <3>3 DEF Connected
  <2>10. Counted'
    <3>1. ASSUME NEW n \in Servers, nscount > 1 PROVE log'.asked[n] + troubles' + 1 >= Turns(n)'
      <4>1. Turns(n)' = q.try + (IF n <= q.ns THEN 1 ELSE 0)
        BY <1>3, <1>5, <1>6, <2>4 DEF Turns
      <4>2. log'.asked[n] = IF n = q.ns THEN log.asked[n] + 1 ELSE log.asked[n]
        BY <1>1, <2>2 DEF Counts
      <4>3. log.asked[n] + troubles + 1 >= q.try + (IF n < q.ns THEN 1 ELSE 0)
        BY <1>6, <3>1
      <4>4. log.asked[n] \in Nat /\ n \in Nat /\ q.ns \in Nat /\ q.try \in Nat /\ troubles' = troubles
        BY <1>5, <1>6, <2>4
      <4> QED BY <1>1, <4>1, <4>2, <4>3, <4>4
    <3>2. EveryServerAsked'
      BY <1>1, <2>2, <2>4, LaterAsked
    <3> QED BY <3>1, <3>2 DEF Counted
  <2>11. Searched'
    BY <1>1, <2>2, <2>4, SearchedStays
  <2> QED BY <2>5, <2>6, <2>7, <2>9, <2>10, <2>11 DEF ResolverIInv
<1>9. nscount > 1 => IF First THEN r.connected ELSE ~r.connected /\ p.peer = None
  BY <1>2, <1>3
<1>10. CASE Fine /\ sock.err /\ Continue(r, PD, "ECONNREFUSED", out)
  <2>1. troubles' = troubles
    BY <1>10 DEF Fine
  <2>2. nscount > 1 => q.try = 0
    <3>1. sock.peer # None
      BY <1>1, <1>4, <1>10, ClosedIs DEF Connected, Matched, Typed, Sockets
    <3>2. First => q.try = 0
      BY DEF First
    <3> QED BY <1>1, <3>1, <3>2 DEF Connected
  <2>3. ASSUME nscount > 1, NEW n \in Servers
        PROVE  log.asked[n] + troubles' + 1 >= q.try + (IF n <= q.ns THEN 1 ELSE 0)
    BY <1>1, <1>6, <2>1, <2>2, <2>3
  <2>4. "ECONNREFUSED" \in Errnos
    BY DEF Errnos
  <2> QED BY <1>1, <1>3, <1>7, <1>9, <1>10, <2>1, <2>3, <2>4, ContinueDatagram
<1>11. CASE Trouble /\ ~sock.err /\ Continue(r, p, "EHOSTUNREACH", out)
  <2>1. troubles' = troubles + 1
    BY <1>11 DEF Trouble
  <2>2. ASSUME nscount > 1, NEW n \in Servers
        PROVE  log.asked[n] + troubles' + 1 >= q.try + (IF n <= q.ns THEN 1 ELSE 0)
    <3>1. log.asked[n] + troubles + 1 >= q.try + (IF n < q.ns THEN 1 ELSE 0)
      BY <1>6, <2>2
    <3>2. log.asked[n] \in Nat /\ n \in Nat /\ q.ns \in Nat /\ q.try \in Nat
      BY <1>5, <1>6
    <3> QED BY <1>1, <2>1, <3>1, <3>2
  <2>3. "EHOSTUNREACH" \in Errnos
    BY DEF Errnos
  <2>4. troubles' \in Nat /\ troubles <= troubles'
    BY <1>1, <2>1
  <2> QED BY <1>1, <1>2, <1>3, <1>9, <1>11, <2>2, <2>3, <2>4, ContinueDatagram
<1> QED BY <1>8, <1>10, <1>11 DEF AskDatagram, r, p, PD

\* A process that waits gives up on the server that it has asked.
LEMMA WaitsFacts ==
    ASSUME ResolverIInv, pc = "select"
    PROVE  /\ q \in Asking /\ ~q.vc /\ sock \in Sockets /\ sock.kind = "dgram" /\ errno \in Errnos /\ troubles \in Nat
           /\ nscount > 1 => (q.connected <=> First) /\ (~First => sock.peer = None)
           /\ nscount > 1 => \A n \in Servers :
                 log.asked[n] + troubles + 1 >= q.try + (IF n <= q.ns THEN 1 ELSE 0)
<1>1. Typed /\ Suits /\ Connected /\ Counted
  BY DEF ResolverIInv
<1>2. q \in Asking /\ ~q.vc /\ sock \in Sockets /\ sock.kind = "dgram" /\ errno \in Errnos /\ troubles \in Nat
  BY <1>1 DEF Typed, Suits
<1>3. ASSUME NEW n \in Servers, nscount > 1
      PROVE  log.asked[n] + troubles + 1 >= q.try + (IF n <= q.ns THEN 1 ELSE 0)
  <2>1. n \in Nat /\ q.ns \in Nat
    BY <1>2 DEF Servers, Asking
  <2>2. Turns(n) = q.try + (IF n <= q.ns THEN 1 ELSE 0)
    BY <2>1 DEF Turns
  <2> QED BY <1>1, <1>2, <1>3, <2>2 DEF Counted
<1> QED BY <1>1, <1>2, <1>3 DEF Connected

\* Nothing comes in time, or a refusal: on to the next server.
LEMMA SelectStep == ASSUME ResolverIInv, SelectTimeout \/ RecvError PROVE ResolverIInv'
<1>1. /\ pc = "select" /\ troubles' = troubles /\ UNCHANGED <<options, records>>
  BY DEF SelectTimeout, RecvError, Fine
<1>2. /\ q \in Asking /\ ~q.vc /\ sock \in Sockets /\ sock.kind = "dgram" /\ errno \in Errnos /\ troubles \in Nat
      /\ nscount > 1 => (q.connected <=> First) /\ (~First => sock.peer = None)
      /\ nscount > 1 => \A n \in Servers :
            log.asked[n] + troubles + 1 >= q.try + (IF n <= q.ns THEN 1 ELSE 0)
  BY <1>1, WaitsFacts
<1>3. q.connected \in BOOLEAN
  BY <1>2 DEF Asking
<1>4. CASE SelectTimeout
  <2> DEFINE r == [q EXCEPT !.gotsomewhere = TRUE]
  <2>1. r \in Asking /\ r.id = q.id /\ r.ns = q.ns /\ r.try = q.try /\ r.vc = q.vc /\ r.connected = q.connected
    BY <1>2 DEF Asking
  <2>2. Continue(r, sock, errno, out) /\ ~sock.err
    BY <1>4 DEF SelectTimeout
  <2> HIDE DEF r
  <2> QED BY <1>1, <1>2, <1>3, <2>1, <2>2, ContinueDatagram
<1>5. CASE RecvError
  <2> DEFINE s == [sock EXCEPT !.err = FALSE]
  <2>1. s \in Sockets /\ s.kind = "dgram" /\ s.in = sock.in /\ ~s.err /\ s.peer = sock.peer
    BY <1>2 DEF Sockets
  <2>2. Continue(q, s, "ECONNREFUSED", out) /\ "ECONNREFUSED" \in Errnos
    BY <1>5 DEF RecvError, Errnos
  <2> HIDE DEF s
  <2> QED BY <1>1, <1>2, <1>3, <2>1, <2>2, ContinueDatagram
<1> QED BY <1>4, <1>5


\* An answer by a datagram: an old one, one that does not fit, or the answer.
LEMMA RecvStep == ASSUME ResolverIInv, Recv PROVE ResolverIInv'
<1> DEFINE m == Head(sock.in)
           s == [sock EXCEPT !.in = Tail(@)]
<1>1. /\ pc = "select" /\ sock.in # <<>> /\ ~sock.err /\ troubles' = troubles /\ UNCHANGED <<options, records>>
      /\ Typed /\ Matched /\ Suits /\ Connected /\ Counted /\ Searched /\ EveryServerAsked
  BY DEF ResolverIInv, Recv, Fine, Counted
<1>2. q \in Asking /\ ~q.vc /\ sock \in Sockets /\ sock.kind = "dgram" /\ errno \in Errnos /\ troubles \in Nat
  BY <1>1, WaitsFacts
<1>3. sock.in \in Seq(Answer)
  BY <1>2 DEF Sockets
<1>4. /\ m \in Answer /\ Tail(sock.in) \in Seq(Answer) /\ Len(Tail(sock.in)) = Len(sock.in) - 1
      /\ m = sock.in[1] /\ 1 \in 1 .. Len(sock.in) /\ Len(sock.in) \in Nat
      /\ \A i \in 1 .. Len(Tail(sock.in)) : Tail(sock.in)[i] = sock.in[i + 1] /\ i + 1 \in 1 .. Len(sock.in)
  BY <1>1, <1>3
<1>5. s \in Sockets /\ s.in = Tail(sock.in) /\ s.kind = "dgram" /\ s.peer = sock.peer /\ ~s.err
  BY <1>1, <1>2, <1>4 DEF Sockets
<1>6. Mine(m) /\ \A i \in 1 .. Len(s.in) : Mine(s.in[i])
  BY <1>1, <1>4, <1>5 DEF Matched
<1> HIDE DEF m, s
<1>7. CASE /\ OldAnswer(m) /\ sock' = s /\ q' = [q EXCEPT !.gotsomewhere = TRUE]
           /\ UNCHANGED <<pc, search, errno, h_errno, out, log>>
  <2>1. /\ q' \in Asking /\ q'.id = q.id /\ q'.ns = q.ns /\ q'.try = q.try /\ q'.vc = q.vc
        /\ q'.connected = q.connected
    BY <1>2, <1>7 DEF Asking
  <2>2. Typed'
    BY <1>1, <1>5, <1>7, <2>1 DEF Typed
  <2>3. Matched'
    BY <1>1, <1>2, <1>5, <1>6, <1>7, <2>1 DEF Matched, Mine
  <2>4. Circuit' /\ Suits'
    BY <1>1, <1>2, <1>5, <1>7, <2>1 DEF Circuit, Suits, SocketKept
  <2>5. First' <=> First
    BY <2>1 DEF First
  <2>6. Connected'
    BY <1>1, <1>5, <1>7, <2>1, <2>5 DEF Connected
  <2>7. Counted'
    BY <1>1, <1>7, <2>1 DEF Counted, Turns, EveryServerAsked
  <2>8. Searched'
    BY <1>1, <1>7, SearchedStays
  <2> QED BY <2>2, <2>3, <2>4, <2>6, <2>7, <2>8 DEF ResolverIInv
<1>8. CASE /\ pc' = "ask" /\ sock' = Closed /\ out' = {}
           /\ q' = [q EXCEPT !.gotsomewhere = TRUE, !.vc = TRUE]
           /\ UNCHANGED <<search, errno, h_errno, log>>
  <2>1. q' \in Asking /\ q'.vc
    BY <1>2, <1>8 DEF Asking
  <2>2. sock' \in Sockets /\ sock'.kind = "none" /\ sock'.in = <<>> /\ ~sock'.err
    BY <1>8, ClosedIs
  <2>3. Typed'
    BY <1>1, <1>8, <2>1, <2>2 DEF Typed
  <2>4. Matched' /\ Circuit' /\ Suits' /\ Connected'
    BY <1>8, <2>1, <2>2 DEF Matched, Circuit, Suits, SocketKept, Connected
  <2>5. Counted'
    BY <1>1, <1>8, <2>1 DEF Counted, EveryServerAsked
  <2>6. Searched'
    BY <1>1, <1>8, SearchedStays
  <2> QED BY <2>3, <2>4, <2>5, <2>6 DEF ResolverIInv
<1>9. CASE ~OldAnswer(m) /\ Taken(m, s)
  <2>1. m.cand = search.cand
    BY <1>1, <1>6, <1>9 DEF OldAnswer, Mine
  <2>2. \A i \in 1 .. Len(s.in) : s.in[i].id <= q.id
    BY <1>6 DEF Mine
  <2>3. troubles' \in Nat /\ troubles <= troubles' /\ s.kind = sock.kind /\ s.peer = sock.peer /\ s \in Sockets
    BY <1>1, <1>2, <1>5
  <2>4. /\ pc \in {"select", "read"} /\ UNCHANGED <<options, records>> /\ m \in Answer /\ Taken(m, s)
        /\ (pc = "select" => ~s.err) /\ pc # "read"
    BY <1>1, <1>4, <1>5, <1>9
  <2> QED BY <2>1, <2>2, <2>3, <2>4, TakenKept
<1> QED BY <1>7, <1>8, <1>9 DEF Recv, m, s

\* A question goes out by a virtual circuit, or the circuit is closed.
LEMMA AskCircuitStep == ASSUME ResolverIInv, AskCircuit PROVE ResolverIInv'
<1>1. /\ pc = "ask" /\ q.vc /\ UNCHANGED <<options, records>> /\ q \in Asking /\ sock \in Sockets
      /\ log \in Logs /\ log.asked \in Counts /\ troubles \in Nat /\ q.ns \in Servers
      /\ Typed /\ Matched /\ Circuit /\ Suits /\ Searched /\ EveryServerAsked
  BY DEF ResolverIInv, AskCircuit, Typed, Counted, Asking, Logs
<1>2. out = {} /\ sock.in = <<>> /\ (sock.kind = "none" \/ (sock.kind = "stream" /\ sock.peer = q.ns))
  BY <1>1, ClosedIs DEF Suits, Matched, Circuit
<1>3. CASE /\ Fine /\ ~sock.err /\ pc' = "read"
           /\ sock' = IF sock.kind = "none" THEN Open("stream", q.ns) ELSE sock
           /\ out' = Sent("stream") /\ log' = Asked /\ UNCHANGED <<search, q, errno, h_errno>>
  <2>1. /\ log' \in Logs /\ log'.gaveup = log.gaveup /\ log'.verdicts = log.verdicts
    <3>1. [log.asked EXCEPT ![q.ns] = @ + 1] \in Counts
      BY <1>1 DEF Counts
    <3>2. Asked = [log EXCEPT !.asked = [log.asked EXCEPT ![q.ns] = @ + 1]]
      BY <1>1 DEF Logs, Asked
    <3> QED BY <1>1, <1>3, <3>1, <3>2 DEF Logs
  <2>2. sock' \in Sockets /\ sock'.kind = "stream" /\ sock'.peer = q.ns /\ sock'.in = <<>> /\ ~sock'.err
    <3>1. CASE sock.kind = "none"
      <4>1. sock' = [Closed EXCEPT !.kind = "stream", !.peer = q.ns]
        BY <1>3, <3>1 DEF Open
      <4> QED BY <1>1, <4>1, ClosedIs DEF Sockets
    <3>2. CASE sock.kind # "none"
      BY <1>1, <1>2, <1>3, <3>2
    <3> QED BY <3>1, <3>2
  <2> DEFINE new == [srv |-> q.ns, id |-> q.id, cand |-> search.cand, kind |-> "stream"]
  <2>3. /\ out' \subseteq [srv : Servers, id : Nat, cand : Candidates, kind : {"dgram", "stream"}]
        /\ \A m \in out' : Mine(m) /\ m = new
    BY <1>1, <1>2, <1>3, SentIs
  <2>4. pc' = "read" /\ UNCHANGED <<search, q, errno, troubles>>
    BY <1>3 DEF Fine
  <2>5. Typed'
    BY <1>1, <2>1, <2>2, <2>3, <2>4 DEF Typed
  <2>6. new.id = q.id /\ new.kind = "stream"
    OBVIOUS
  <2> HIDE DEF new
  <2>7. Matched'
    <3>1. \A m \in out' : Mine(m)' /\ m.kind = "stream"
      BY <1>1, <2>3, <2>4, <2>6 DEF Mine
    <3> QED BY <2>2, <3>1 DEF Matched
  <2>8. Circuit'
    BY <2>2, <2>3, <2>4, <2>6 DEF Circuit
  <2>9. Suits' /\ Connected'
    BY <1>1, <2>2, <2>4 DEF Suits, SocketKept, Connected
  <2>10. Counted'
    BY <1>1, <2>1, <2>4, LaterAsked DEF Counted
  <2>11. Searched'
    BY <1>1, <2>1, <2>4, SearchedStays
  <2> QED BY <2>5, <2>7, <2>8, <2>9, <2>10, <2>11 DEF ResolverIInv
<1>4. CASE /\ IF sock.err THEN Fine ELSE Trouble
           /\ Continue([q EXCEPT !.terrno = "EPIPE"], Closed, "EPIPE", {})
  <2> DEFINE r == [q EXCEPT !.terrno = "EPIPE"]
  <2>1. r \in Asking /\ r.id = q.id /\ r.ns = q.ns /\ r.vc /\ "EPIPE" \in Errnos
    BY <1>1 DEF Asking, Errnos
  <2>2. sock.err => troubles > 0
    BY <1>1, <1>2, ClosedIs DEF Circuit, Matched
  <2>3. troubles' \in Nat /\ troubles <= troubles' /\ troubles' > 0
    BY <1>1, <1>4, <2>2 DEF Fine, Trouble
  <2>4. Continue(r, Closed, "EPIPE", {})
    BY <1>4
  <2> HIDE DEF r
  <2>5. pc # "idle"
    BY <1>1
  <2> QED BY <1>1, <2>1, <2>3, <2>4, <2>5, ContinueCircuit
<1> QED BY <1>1, <1>3, <1>4 DEF AskCircuit

\* The circuit brings the answer, or ends.
LEMMA ReadStep == ASSUME ResolverIInv, Read PROVE ResolverIInv'
<1>1. /\ pc = "read" /\ UNCHANGED <<options, records>> /\ troubles \in Nat /\ errno \in Errnos
      /\ q \in Asking /\ q.vc /\ sock \in Sockets /\ sock.kind = "stream" /\ sock.in \in Seq(Answer)
      /\ Typed /\ Matched /\ Circuit /\ Suits /\ Searched /\ EveryServerAsked
  BY DEF ResolverIInv, Read, Typed, Counted, Suits, Sockets
<1>2. (out = {} \/ sock.in = <<>>) /\ (sock.err => troubles > 0) /\ Len(sock.in) <= 1
  BY <1>1 DEF Circuit
<1>3. ASSUME sock.in # <<>>
      PROVE  /\ out = {} /\ Tail(sock.in) = <<>> /\ Head(sock.in) \in Answer
             /\ Head(sock.in).cand = search.cand
  <2>1. /\ Head(sock.in) = sock.in[1] /\ Head(sock.in) \in Answer
        /\ Tail(sock.in) \in Seq(Answer) /\ Len(Tail(sock.in)) = Len(sock.in) - 1
        /\ Len(sock.in) \in Nat /\ Len(sock.in) # 0
    BY <1>1, <1>3, HeadTailProperties, EmptySeq, LenProperties
  <2>2. Len(sock.in) = 1 /\ Tail(sock.in) = <<>>
    <3>1. Len(sock.in) = 1
      <4> DEFINE L == Len(sock.in)
      <4>1. L \in Nat /\ L # 0 /\ L <= 1
        BY <1>2, <2>1
      <4> HIDE DEF L
      <4>2. L = 1
        BY <4>1
      <4> QED BY <4>2 DEF L
    <3>2. Len(Tail(sock.in)) = 0
      BY <2>1, <3>1
    <3> QED BY <2>1, <3>1, <3>2, EmptySeq
  <2>3. Mine(sock.in[1]) /\ sock.in[1].id = q.id
    BY <1>1, <2>2 DEF Matched, Circuit
  <2> QED BY <1>1, <1>2, <1>3, <2>1, <2>2, <2>3 DEF Mine
<1>4. CASE /\ sock.in # <<>> /\ Fine /\ Taken(Head(sock.in), [sock EXCEPT !.in = Tail(@)])
  <2> DEFINE m == Head(sock.in)
             s == [sock EXCEPT !.in = Tail(@)]
  <2>1. /\ s \in Sockets /\ s.kind = sock.kind /\ s.peer = sock.peer /\ s.in = <<>> /\ s.err = sock.err
    BY <1>1, <1>3, <1>4 DEF Sockets
  <2>2. /\ troubles' \in Nat /\ troubles <= troubles' /\ (s.err => troubles' > 0)
    BY <1>1, <1>2, <1>4, <2>1 DEF Fine
  <2>3. m \in Answer /\ m.cand = search.cand /\ out = {} /\ Taken(m, s) /\ pc \in {"select", "read"} /\ pc # "select"
    BY <1>1, <1>3, <1>4
  <2> HIDE DEF m, s
  <2>4. \A i \in 1 .. Len(s.in) : s.in[i].id <= q.id
    BY <2>1
  <2> QED BY <1>1, <2>1, <2>2, <2>3, <2>4, TakenKept
<1>5. CASE /\ sock.in # <<>> /\ Trouble /\ Taken(Head(sock.in), [sock EXCEPT !.in = <<>>, !.err = TRUE])
  <2> DEFINE m == Head(sock.in)
             s == [sock EXCEPT !.in = <<>>, !.err = TRUE]
  <2>1. /\ s \in Sockets /\ s.kind = sock.kind /\ s.peer = sock.peer /\ s.in = <<>>
    BY <1>1, EmptySeq DEF Sockets
  <2>2. /\ troubles' \in Nat /\ troubles <= troubles' /\ troubles' > 0
    BY <1>1, <1>5 DEF Trouble
  <2>3. m \in Answer /\ m.cand = search.cand /\ out = {} /\ Taken(m, s) /\ pc \in {"select", "read"} /\ pc # "select"
    BY <1>1, <1>3, <1>5
  <2> HIDE DEF m, s
  <2>4. \A i \in 1 .. Len(s.in) : s.in[i].id <= q.id
    BY <2>1
  <2> QED BY <1>1, <2>1, <2>2, <2>3, <2>4, TakenKept
<1>6. ASSUME NEW e \in {errno, "ECONNRESET"}, Trouble,
             IF e = "ECONNRESET" /\ ~q.connreset
             THEN /\ pc' = "ask" /\ q' = [q EXCEPT !.terrno = e, !.connreset = TRUE]
                  /\ sock' = Closed /\ errno' = e /\ out' = {} /\ UNCHANGED <<search, h_errno, log>>
             ELSE Continue([q EXCEPT !.terrno = e], Closed, e, {})
      PROVE  ResolverIInv'
  <2>1. e \in Errnos /\ troubles' \in Nat /\ troubles <= troubles' /\ troubles' > 0
    BY <1>1, <1>6 DEF Errnos, Trouble
  <2>2. CASE /\ pc' = "ask" /\ q' = [q EXCEPT !.terrno = e, !.connreset = TRUE]
             /\ sock' = Closed /\ errno' = e /\ out' = {} /\ UNCHANGED <<search, h_errno, log>>
    <3>1. q' \in Asking /\ q'.vc
      BY <1>1, <2>1, <2>2 DEF Asking
    <3>2. sock' \in Sockets /\ sock'.kind = "none" /\ sock'.in = <<>> /\ ~sock'.err
      BY <2>2, ClosedIs
    <3>3. Typed'
      BY <1>1, <2>1, <2>2, <3>1, <3>2 DEF Typed
    <3>4. Matched' /\ Circuit' /\ Suits' /\ Connected'
      BY <2>2, <3>1, <3>2 DEF Matched, Circuit, Suits, SocketKept, Connected
    <3>5. Counted'
      BY <1>1, <2>1, <2>2, <3>1, LaterAsked DEF Counted
    <3>6. Searched'
      BY <1>1, <2>2, SearchedStays
    <3> QED BY <3>3, <3>4, <3>5, <3>6 DEF ResolverIInv
  <2>3. CASE Continue([q EXCEPT !.terrno = e], Closed, e, {})
    <3> DEFINE r == [q EXCEPT !.terrno = e]
    <3>1. r \in Asking /\ r.id = q.id /\ r.ns = q.ns /\ r.vc /\ pc # "idle"
      BY <1>1, <2>1 DEF Asking
    <3>2. Continue(r, Closed, e, {})
      BY <2>3
    <3> HIDE DEF r
    <3> QED BY <1>1, <2>1, <3>1, <3>2, ContinueCircuit
  <2> QED BY <1>6, <2>2, <2>3
<1>7. CASE \E e \in {errno, "ECONNRESET"} :
             LET r == [q EXCEPT !.terrno = e]
             IN  /\ Trouble
                 /\ IF e = "ECONNRESET" /\ ~q.connreset
                    THEN /\ pc' = "ask"
                         /\ q' = [r EXCEPT !.connreset = TRUE]
                         /\ sock' = Closed /\ errno' = e /\ out' = {}
                         /\ UNCHANGED <<search, h_errno, log>>
                    ELSE Continue(r, Closed, e, {})
  <2>1. PICK e \in {errno, "ECONNRESET"} :
             /\ Trouble
             /\ IF e = "ECONNRESET" /\ ~q.connreset
                THEN /\ pc' = "ask"
                     /\ q' = [[q EXCEPT !.terrno = e] EXCEPT !.connreset = TRUE]
                     /\ sock' = Closed /\ errno' = e /\ out' = {}
                     /\ UNCHANGED <<search, h_errno, log>>
                ELSE Continue([q EXCEPT !.terrno = e], Closed, e, {})
    BY <1>7
  <2>2. [[q EXCEPT !.terrno = e] EXCEPT !.connreset = TRUE] = [q EXCEPT !.terrno = e, !.connreset = TRUE]
    BY <1>1 DEF Asking
  <2> QED BY <1>6, <2>1, <2>2
<1> QED BY <1>4, <1>5, <1>7 DEF Read

\* The application changes its options between two lookups.
LEMMA OptionsStep == ASSUME ResolverIInv, sethostent \/ endhostent PROVE ResolverIInv'
<1>1. /\ pc = "idle" /\ UNCHANGED <<pc, search, q, errno, h_errno, records, log, troubles>>
      /\ options' \in {{}, {"STAYOPEN", "USEVC"}} /\ sock'.kind = "none" /\ sock' = Closed /\ out' = {}
  <2>1. Suits /\ Matched
    BY DEF ResolverIInv
  <2>2. CASE sethostent
    BY <2>1, <2>2 DEF Suits, SocketKept, sethostent, Matched
  <2>3. CASE endhostent
    BY <2>3, ClosedIs DEF endhostent
  <2> QED BY <2>2, <2>3
<1>2. Typed /\ Searched /\ EveryServerAsked
  BY DEF ResolverIInv, Counted
<1>3. sock' \in Sockets /\ sock'.in = <<>> /\ ~sock'.err
  BY <1>1, ClosedIs
<1>4. Typed'
  BY <1>1, <1>2, <1>3 DEF Typed
<1>5. Matched' /\ Circuit' /\ Suits' /\ Connected'
  BY <1>1, <1>3 DEF Matched, Circuit, Suits, SocketKept, Connected
<1>6. Counted'
  BY <1>1, <1>2 DEF Counted, EveryServerAsked
<1>7. Searched'
  BY <1>1, <1>2, SearchedStays
<1> QED BY <1>4, <1>5, <1>6, <1>7 DEF ResolverIInv

\* What the network does changes only what is under way and what has come.
LEMMA NetworkKeeps ==
    ASSUME ResolverIInv, UNCHANGED <<pc, search, q, options, errno, h_errno, records, log, troubles>>,
           sock' \in Sockets, sock'.kind = sock.kind, sock'.peer = sock.peer,
           out' \subseteq out, Matched', Circuit',
           sock'.kind = "dgram" /\ sock'.err => sock'.peer # None
    PROVE  ResolverIInv'
<1>1. Typed /\ Suits /\ Connected /\ Counted /\ Searched
  BY DEF ResolverIInv
<1>2. Typed'
  BY <1>1 DEF Typed
<1>3. Suits'
  BY <1>1 DEF Suits, SocketKept
<1>4. Connected'
  BY <1>1 DEF Connected, First
<1>5. Counted'
  BY <1>1 DEF Counted, Turns, EveryServerAsked
<1>6. Searched'
  BY <1>1, SearchedStays
<1> QED BY <1>2, <1>3, <1>4, <1>5, <1>6 DEF ResolverIInv

\* A server answers.
LEMMA ReplyStep == ASSUME ResolverIInv, NEW o \in out, Reply(o) PROVE ResolverIInv'
<1>1. /\ Typed /\ Matched /\ Circuit /\ Connected /\ sock \in Sockets /\ sock.in \in Seq(Answer)
      /\ o \in [srv : Servers, id : Nat, cand : Candidates, kind : {"dgram", "stream"}]
      /\ UNCHANGED <<pc, search, q, options, errno, h_errno, records, log, troubles>>
      /\ out' = out \ {o}
  BY DEF ResolverIInv, Typed, Reply, Sockets
<1>2. Mine(o) /\ sock.kind # "none" /\ o.kind = sock.kind
  BY <1>1 DEF Matched
<1> DEFINE new == [id |-> o.id, cand |-> o.cand]
           heard == sock.peer \in {None, o.srv} /\ ~(o.kind = "stream" /\ sock.err)
<1>3. new \in Answer /\ new.id = o.id /\ new.cand = o.cand
  BY <1>1 DEF Answer
<1>4. sock' = IF heard THEN [sock EXCEPT !.in = Append(@, new)] ELSE sock
  BY DEF Reply
<1> HIDE DEF new, heard
<1>5. Mine(new)
  BY <1>2, <1>3 DEF Mine
<1>6. /\ Append(sock.in, new) \in Seq(Answer) /\ Len(Append(sock.in, new)) = Len(sock.in) + 1 /\ Len(sock.in) \in Nat
      /\ \A i \in 1 .. Len(sock.in) + 1 : Append(sock.in, new)[i] = IF i <= Len(sock.in) THEN sock.in[i] ELSE new
  BY <1>1, <1>3
<1>7. /\ sock' \in Sockets /\ sock'.kind = sock.kind /\ sock'.peer = sock.peer /\ sock'.err = sock.err
      /\ sock'.in = (IF heard THEN Append(sock.in, new) ELSE sock.in)
  BY <1>1, <1>4, <1>6 DEF Sockets
<1>8. Matched'
  <2>1. \A m \in out' : Mine(m)' /\ m.kind = sock'.kind
    BY <1>1, <1>7 DEF Matched, Mine
  <2>2. ASSUME NEW i \in 1 .. Len(sock'.in) PROVE Mine(sock.in[i])'
    <3>1. CASE ~heard \/ i <= Len(sock.in)
      <4>1. i \in 1 .. Len(sock.in) /\ sock'.in[i] = sock.in[i]
        BY <1>6, <1>7, <3>1
      <4>2. Mine(sock.in[i])
        BY <1>1, <4>1 DEF Matched
      <4> QED BY <1>1, <4>1, <4>2 DEF Mine
    <3>2. CASE heard /\ ~(i <= Len(sock.in))
      <4>1. i = Len(sock.in) + 1 /\ sock'.in[i] = new
        BY <1>6, <1>7, <3>2
      <4> QED BY <1>1, <1>5, <4>1 DEF Mine
    <3> QED BY <3>1, <3>2
  <2> QED BY <1>2, <1>7, <2>1, <2>2 DEF Matched
<1>9. Circuit'
  <2>1. SUFFICES ASSUME sock.kind = "stream" PROVE Circuit'
    BY <1>7 DEF Circuit
  <2>2. pc = "read" /\ o.id = q.id /\ sock.in = <<>> /\ out' = {} /\ (sock.err => troubles > 0)
    BY <1>1, <2>1 DEF Circuit
  <2>3. /\ Len(sock'.in) \in Nat /\ Len(sock'.in) <= 1
        /\ \A i \in 1 .. Len(sock'.in) : sock'.in[i].id = q.id
    <3>1. Len(sock.in) = 0
      BY <2>2
    <3>2. CASE heard
      BY <1>3, <1>6, <1>7, <2>2, <3>1, <3>2
    <3>3. CASE ~heard
      BY <1>7, <3>1, <3>3
    <3> QED BY <3>2, <3>3
  <2> QED BY <1>1, <1>7, <2>2, <2>3 DEF Circuit
<1>10. sock'.kind = "dgram" /\ sock'.err => sock'.peer # None
  BY <1>1, <1>7 DEF Connected
<1> QED BY <1>1, <1>7, <1>8, <1>9, <1>10, NetworkKeeps

\* A host says that no server is there.
LEMMA RefusalStep == ASSUME ResolverIInv, Refusal PROVE ResolverIInv'
<1>1. PICK o \in out :
        /\ o.kind = "dgram" /\ o.srv \in Refusing
        /\ out' = out \ {o}
        /\ sock' = IF sock.peer = o.srv THEN [sock EXCEPT !.err = TRUE] ELSE sock
        /\ UNCHANGED <<pc, search, q, options, errno, h_errno, records, log, troubles>>
  BY DEF Refusal
<1>2. Typed /\ Matched /\ Connected /\ sock \in Sockets /\ o.srv \in Servers /\ sock.kind = "dgram"
  BY <1>1 DEF ResolverIInv, Typed, Matched
<1>3. None \notin Servers
  BY ResolverAssumption
<1>4. /\ sock' \in Sockets /\ sock'.kind = "dgram" /\ sock'.peer = sock.peer /\ sock'.in = sock.in
      /\ sock'.err => sock.err \/ sock.peer = o.srv
  BY <1>1, <1>2 DEF Sockets
<1>5. Matched'
  BY <1>1, <1>2, <1>4 DEF Matched, Mine
<1>6. Circuit'
  BY <1>4 DEF Circuit
<1>7. sock'.err => sock'.peer # None
  BY <1>2, <1>3, <1>4 DEF Connected
<1> QED BY <1>1, <1>2, <1>4, <1>5, <1>6, <1>7, NetworkKeeps

\* The resolver begins with a closed socket and nothing asked.
LEMMA ResolverInitially == ResolverInit => ResolverIInv
<1> SUFFICES ASSUME ResolverInit PROVE ResolverIInv
  OBVIOUS
<1>1. /\ q \in Asking /\ q.id = 0 /\ ~q.vc
  BY QuestionIs DEF ResolverInit
<1>2. /\ sock = Closed /\ sock \in Sockets /\ sock.kind = "none" /\ sock.in = <<>> /\ ~sock.err
  BY ClosedIs DEF ResolverInit
<1>3. search \in Searches /\ ~search.nodata /\ search.result = None
  BY ResolverAssumption DEF ResolverInit, Searches, Candidates, Itself
<1>4. log \in Logs /\ log.gaveup = None /\ \A c \in Candidates : log.verdicts[c] = None
  BY DEF ResolverInit, Logs, Nobody, NoVerdicts, Counts
<1>5. options \in {{}, {"STAYOPEN"}}
  BY ResolverAssumption DEF ResolverInit
<1>6. records \in [Candidates -> Verdicts]
  BY ResolverAssumption DEF ResolverInit
<1>7. Typed
  BY <1>1, <1>2, <1>3, <1>4, <1>5, <1>6 DEF ResolverInit, Typed, Errnos
<1>8. Matched /\ Circuit /\ Suits /\ Connected
  BY <1>2 DEF ResolverInit, Matched, Circuit, Suits, SocketKept, Connected
<1>9. Counted
  BY <1>4 DEF ResolverInit, Counted, EveryServerAsked
<1>10. Searched
  BY <1>3, <1>4, ResolverAssumption DEF ResolverInit, Searched, RightAnswers, ResultFounded, Verdicts
<1> QED BY <1>7, <1>8, <1>9, <1>10 DEF ResolverIInv

\* Every step keeps the invariant.
LEMMA ResolverInductive == ResolverIInv /\ [ResolverNext]_rvars => ResolverIInv'
<1> SUFFICES ASSUME ResolverIInv, [ResolverNext]_rvars PROVE ResolverIInv'
  OBVIOUS
<1>1. CASE Lookup
  BY <1>1, LookupStep
<1>2. CASE Step
  BY <1>2, AskDatagramStep, SelectStep, RecvStep, AskCircuitStep, ReadStep DEF Step
<1>3. CASE sethostent \/ endhostent
  BY <1>3, OptionsStep
<1>4. CASE DatagramReply \/ CircuitReply
  BY <1>4, ReplyStep DEF DatagramReply, CircuitReply
<1>5. CASE Refusal
  BY <1>5, RefusalStep
<1>6. CASE UNCHANGED rvars
  <2>1. /\ UNCHANGED <<pc, search, q, options, errno, h_errno, records, log, troubles>>
        /\ UNCHANGED <<sock, out>>
    BY <1>6 DEF rvars
  <2>2. Typed /\ Matched /\ Circuit /\ Connected
    BY DEF ResolverIInv
  <2>3. Matched' /\ Circuit'
    BY <2>1, <2>2 DEF Matched, Mine, Circuit
  <2>4. sock' \in Sockets /\ (sock'.kind = "dgram" /\ sock'.err => sock'.peer # None)
    BY <2>1, <2>2 DEF Typed, Connected
  <2> QED BY <2>1, <2>3, <2>4, NetworkKeeps
<1> QED BY <1>1, <1>2, <1>3, <1>4, <1>5, <1>6 DEF ResolverNext

\* The inductive invariant gives what is said of the resolver.
LEMMA ResolverImplied == ResolverIInv => ResolverInv
<1> SUFFICES ASSUME ResolverIInv PROVE ResolverInv
  OBVIOUS
<1>1. Typed /\ Suits /\ Connected /\ Counted /\ Searched
  BY DEF ResolverIInv
<1>2. TypeOK
  <2>1. search \in Searches /\ q \in Asking /\ sock \in Sockets
    BY <1>1 DEF Typed
  <2>2. /\ sock.kind \in {"none", "dgram", "stream"} /\ sock.peer \in Servers \cup {None}
        /\ sock.in \in Seq(Answer) /\ sock.err \in BOOLEAN
    BY <2>1 DEF Sockets
  <2>3. q.ns \in Servers /\ q.try \in 0 .. retry - 1
    BY <2>1 DEF Asking
  <2>4. /\ pc \in {"idle", "ask", "select", "read"} /\ options \in SUBSET {"STAYOPEN", "USEVC"}
    BY <1>1 DEF Typed
  <2>5. /\ pc = "select" => sock.kind = "dgram"
        /\ pc = "read" => sock.kind = "stream" /\ sock.peer = q.ns
    BY <1>1 DEF Suits
  <2> QED BY <2>1, <2>2, <2>3, <2>4, <2>5 DEF TypeOK, Searches
<1>3. EveryoneHeard
  <2>1. SUFFICES ASSUME pc = "select", NEW n \in Servers, log.asked[n] > 0 PROVE sock.peer \in {None, n}
    BY DEF EveryoneHeard
  <2>2. n \in 1 .. nscount /\ nscount \in Nat \ {0}
    BY ResolverAssumption DEF Servers
  <2>3. CASE nscount = 1
    BY <1>1, <2>1, <2>2, <2>3 DEF Connected
  <2>4. CASE nscount > 1 /\ First
    <3>1. sock.peer = 1 /\ \A k \in Servers \ {1} : log.asked[k] = 0
      BY <1>1, <2>1, <2>4 DEF Connected
    <3> QED BY <2>1, <2>2, <3>1
  <2>5. CASE nscount > 1 /\ ~First
    BY <1>1, <2>1, <2>5 DEF Connected
  <2> QED BY <2>2, <2>3, <2>4, <2>5
<1>4. RightAnswers /\ ResultFounded /\ SocketKept /\ EveryServerAsked
  BY <1>1 DEF Searched, Suits, Counted
<1> QED BY <1>2, <1>3, <1>4 DEF ResolverInv

\* Whatever is lost, late, refused or broken, and whatever is left in the kept socket:
\* what is taken for an answer answers the question, every server asked can be heard,
\* the verdict on a name follows from answers, and res_send gives up only after it has
\* asked every server (res_search, res_query, res_send).
THEOREM ResolverInvariant == ResolverSpec => []ResolverInv
<1>1. ResolverInit => ResolverIInv
  BY ResolverInitially
<1>2. ResolverIInv /\ [ResolverNext]_rvars => ResolverIInv'
  BY ResolverInductive
<1>3. ResolverIInv => ResolverInv
  BY ResolverImplied
<1> QED BY <1>1, <1>2, <1>3, PTL DEF ResolverSpec
=============================================================================
