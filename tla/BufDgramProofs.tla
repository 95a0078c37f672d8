--------------------------- MODULE BufDgramProofs ---------------------------
(***************************************************************************)
(* Proofs about packet buffers and about the sockets whose queues hold     *)
(* them.                                                                   *)
(*                                                                         *)
(* The allocator (BufPool), for every block size, every table of size      *)
(* classes and every placement of blocks by kmalloc.                       *)
(*                                                                         *)
(* Datagram sockets (Dgram), for all sets of sockets, ports and peers and  *)
(* all lengths.  What happens to the data of one socket keeps it good      *)
(* (GoodData) and apart from the names of the others, and the lists follow *)
(* sockets that come and go.                                               *)
(***************************************************************************)
EXTENDS BufPool, Dgram, SequenceTheorems, FiniteSetTheorems, WellFoundedInduction, TLAPS

(***************************************************************************)
(* The allocator: BufPool                                                  *)
(***************************************************************************)
\* Size classes: every length from the smallest class up has a class, and it is
\* the one the loop at the end of buf_free stops at.
LEMMA FreeClassIs ==
    ASSUME NEW len \in Nat, len >= MinSize
    PROVE  /\ FreeClass(len) \in Classes
           /\ BufSize[FreeClass(len)] <= len
           /\ \A j \in Classes : j < FreeClass(len) => len < BufSize[j]
<1> DEFINE T == {i \in Classes : BufSize[i] <= len}
<1>1. T \subseteq Nat /\ T # {}
    BY SizesAssumption DEF Classes, MinSize
<1>2. PICK m \in T : \A y \in T : ~(<<y, m>> \in OpToRel(<, Nat))
    BY <1>1, NatLessThanWellFounded, WFMin
<1>3. \A y \in T : ~(y < m)
    BY <1>1, <1>2 DEF OpToRel
<1>4. m \in Classes /\ BufSize[m] <= len /\ \A j \in Classes : j < m => len < BufSize[j]
    BY <1>3, SizesAssumption DEF Classes
<1> QED
    BY <1>4 DEF FreeClass

\* A whole block is of class 0.
LEMMA BlockClass == FreeClass(BlockSize) = 0
<1>1. BlockSize \in Nat /\ BlockSize >= MinSize
    BY SizesAssumption DEF MinSize, Classes
<1>2. /\ FreeClass(BlockSize) \in Classes
      /\ \A j \in Classes : j < FreeClass(BlockSize) => BlockSize < BufSize[j]
    BY <1>1, FreeClassIs
<1> QED BY <1>2, SizesAssumption DEF Classes

\* A class whose members are at least s long holds no shorter buffer.
LEMMA FitsIs ==
    ASSUME NEW s \in Nat, NEW i \in Classes, i \in Fits(s), NEW len \in Nat,
           len >= MinSize, FreeClass(len) = i
    PROVE  s <= len
BY FreeClassIs, SizesAssumption DEF Fits, Classes

-----------------------------------------------------------------------------
(***************************************************************************)
(* The shape of memory: the buffers tile the blocks.                       *)
(***************************************************************************)
ShapeType ==
    /\ bufs \subseteq Nat
    /\ buflen \in [bufs -> Nat]
    /\ nxt \in [bufs -> bufs \cup {NULL}]
    /\ prv \in [bufs -> bufs \cup {NULL}]

Shape == ShapeType /\ NoOverlap /\ NoGaps /\ Lengths

LEMMA MinSizeIs == MinSize \in Nat /\ MinSize >= 1 /\ MinSize <= BlockSize
BY SizesAssumption DEF MinSize, Classes

\* Splitting a buffer keeps the tiling.
LEMMA TakeShape ==
    ASSUME Shape, NEW b \in bufs, NEW i \in Classes, NEW s \in Nat,
           s >= MinSize, s <= buflen[b], Take(b, i, s)
    PROVE  Shape'
<1> USE MinSizeIs, SizesAssumption
<1> DEFINE r == b + s
           rest == buflen[b] - s
<1>1. CASE ~(rest >= MinSize)
    <2>1. UNCHANGED chain
        BY <1>1 DEF Take, Rest
    <2> QED
        BY <2>1 DEF chain, Shape, ShapeType, NoOverlap, NoGaps, Lengths, Blocks, InBlock
<1>2. CASE rest >= MinSize
    <2>1. /\ bufs' = bufs \cup {r}
          /\ buflen' = [x \in bufs' |-> IF x = b THEN s
                                        ELSE IF x = r THEN rest ELSE buflen[x]]
          /\ nxt' = [x \in bufs' |-> IF x = b THEN r
                                     ELSE IF x = r THEN nxt[b] ELSE nxt[x]]
          /\ prv' = [x \in bufs' |-> IF x = r THEN b
                                     ELSE IF x = nxt[b] THEN r ELSE prv[x]]
        BY <1>2 DEF Take, Rest, LinkLeft
    <2>2. r \notin bufs /\ r \in Nat /\ rest \in Nat /\ rest >= MinSize /\ b # r
        BY <1>2 DEF Shape, ShapeType, NoOverlap, Lengths
    <2>3. ShapeType'
        BY <2>1, <2>2 DEF Shape, ShapeType, NULL
    <2>4. Lengths'
        BY <2>1, <2>2 DEF Shape, ShapeType, Lengths
    <2>5. Blocks' = Blocks
        BY <2>1, <2>2 DEF Shape, ShapeType, NoGaps, Blocks, NULL
    <2>6. NoOverlap'
        <3>1. ASSUME NEW x \in bufs', NEW y \in bufs', x # y
              PROVE  x + buflen'[x] <= y \/ y + buflen'[y] <= x
            BY <2>1, <2>2, <3>1 DEF Shape, ShapeType, NoOverlap, Lengths
        <3>2. ASSUME NEW x \in bufs'
              PROVE  \E k \in Blocks' : InBlock(x, k)'
            <4>1. PICK k \in Blocks : InBlock(IF x = r THEN b ELSE x, k)
                BY <2>1 DEF Shape, NoOverlap
            <4>2. k \in Nat
                BY DEF Shape, ShapeType, Blocks
            <4>3. InBlock(x, k)'
                BY <2>1, <2>2, <4>1, <4>2 DEF Shape, ShapeType, InBlock
            <4> QED
                BY <2>5, <4>3
        <3> QED
            BY <3>1, <3>2 DEF NoOverlap
    <2>7. NoGaps'
        <3> SUFFICES ASSUME NEW x \in bufs'
                     PROVE  /\ nxt'[x] # NULL => nxt'[x] = x + buflen'[x] /\ prv'[nxt'[x]] = x
                            /\ nxt'[x] = NULL => \E k \in Blocks' : x + buflen'[x] = k + BlockSize
                            /\ prv'[x] # NULL => nxt'[prv'[x]] = x
            BY DEF NoGaps
        <3>1. nxt'[x] # NULL => nxt'[x] = x + buflen'[x] /\ prv'[nxt'[x]] = x
            BY <2>1, <2>2, <2>3 DEF Shape, ShapeType, NoGaps, NULL
        <3>2. nxt'[x] = NULL => \E k \in Blocks' : x + buflen'[x] = k + BlockSize
            <4>1. SUFFICES ASSUME nxt'[x] = NULL
                           PROVE  \E k \in Blocks : x + buflen'[x] = k + BlockSize
                BY <2>5
            <4>2. x # b /\ nxt[IF x = r THEN b ELSE x] = NULL
                BY <2>1, <2>2, <4>1 DEF Shape, ShapeType, NULL
            <4>3. PICK k \in Blocks :
                      LET y == IF x = r THEN b ELSE x IN y + buflen[y] = k + BlockSize
                BY <2>1, <4>2 DEF Shape, NoGaps
            <4> QED
                BY <2>1, <2>2, <4>2, <4>3 DEF Shape, ShapeType
        <3>3. prv'[x] # NULL => nxt'[prv'[x]] = x
            BY <2>1, <2>2, <2>3 DEF Shape, ShapeType, NoGaps, NULL
        <3> QED BY <3>1, <3>2, <3>3
    <2> QED
        BY <2>3, <2>4, <2>6, <2>7 DEF Shape
<1> QED
    BY <1>1, <1>2

\* Merging a buffer with its free neighbours keeps the tiling.
LEMMA FreeShape ==
    ASSUME Shape, links \in [bufs -> Nat], NEW b \in bufs, Free(b), ~wild'
    PROVE  Shape'
<1> USE MinSizeIs, SizesAssumption
<1> DEFINE p == prv[b]
           n == nxt[b]
           mp == Merges(p)
           mn == Merges(n)
           head == IF mp THEN p ELSE b
           tail == IF mn THEN nxt[n] ELSE n
           len == (IF mp THEN buflen[p] ELSE 0) + buflen[b] + (IF mn THEN buflen[n] ELSE 0)
           gone == (IF mp THEN {b} ELSE {}) \cup (IF mn THEN {n} ELSE {})
           last == IF mn THEN n ELSE b
<1>1. /\ mp \in BOOLEAN /\ mn \in BOOLEAN
      /\ p \in bufs \cup {NULL} /\ n \in bufs \cup {NULL}
      /\ mp => p \in bufs /\ nxt[p] = b /\ p + buflen[p] = b /\ p < b
      /\ mn => n \in bufs /\ prv[n] = b /\ b + buflen[b] = n /\ b < n
    <2>1. mp \in BOOLEAN /\ mn \in BOOLEAN
        BY DEF Merges
    <2>2. p \in bufs \cup {NULL} /\ n \in bufs \cup {NULL} /\ b \in Nat
        BY DEF Shape, ShapeType
    <2>3. mp => p \in bufs /\ nxt[p] = b /\ p + buflen[p] = b /\ p < b
        <3>1. SUFFICES ASSUME p # NULL, p \in bufs
                       PROVE  nxt[p] = b /\ p + buflen[p] = b /\ p < b
            BY <2>2 DEF Merges
        <3>2. nxt[p] = b
            BY <3>1 DEF Shape, NoGaps
        <3>3. b # NULL
            BY <2>2 DEF NULL
        <3>4. p + buflen[p] = b /\ buflen[p] >= MinSize /\ buflen[p] \in Nat /\ p \in Nat
            BY <3>1, <3>2, <3>3 DEF Shape, ShapeType, NoGaps, Lengths
        <3> QED BY <3>2, <3>4
    <2>4. mn => n \in bufs /\ prv[n] = b /\ b + buflen[b] = n /\ b < n
        <3>1. SUFFICES ASSUME n # NULL, n \in bufs
                       PROVE  prv[n] = b /\ b + buflen[b] = n /\ b < n
            BY <2>2 DEF Merges
        <3>2. prv[n] = b /\ b + buflen[b] = n
            BY <3>1 DEF Shape, NoGaps
        <3>3. buflen[b] >= MinSize /\ buflen[b] \in Nat
            BY DEF Shape, ShapeType, Lengths
        <3> QED BY <2>2, <3>2, <3>3
    <2> QED BY <2>1, <2>2, <2>3, <2>4
<1>2. /\ bufs' = bufs \ gone
      /\ buflen' = [x \in bufs' |-> IF x = head THEN len ELSE buflen[x]]
      /\ nxt' = [x \in bufs' |-> IF x = head THEN tail ELSE nxt[x]]
      /\ prv' = [x \in bufs' |-> IF x = tail THEN head ELSE prv[x]]
    <2>1. bufs' = (bufs \ ({c \in {p, n} : Merges(c)} \cup {b})) \cup {head}
        BY DEF Free
    <2>1a. {c \in {p, n} : Merges(c)} = (IF mp THEN {p} ELSE {}) \cup (IF mn THEN {n} ELSE {})
        OBVIOUS
    <2>2. bufs' = bufs \ gone
        <3> HIDE DEF mp, mn, p, n
        <3>1. b \in Nat
            BY DEF Shape, ShapeType
        <3> QED BY <1>1, <2>1, <2>1a, <3>1
    <2> QED
        BY <2>2 DEF Free
<1>2a. /\ b \in Nat /\ buflen[b] \in Nat /\ buflen[b] >= MinSize
       /\ mp => p \in Nat /\ buflen[p] \in Nat /\ buflen[p] >= MinSize
       /\ mn => n \in Nat /\ buflen[n] \in Nat /\ buflen[n] >= MinSize
    BY <1>1 DEF Shape, ShapeType, Lengths
<1>2b. mn => nxt[n] \in bufs \cup {NULL}
    BY <1>1 DEF Shape, ShapeType
<1> HIDE DEF mp, mn, p, n
<1>3. /\ head \in bufs' /\ head \notin gone /\ len \in Nat /\ len >= MinSize
      /\ head <= b /\ b + buflen[b] <= head + len
    BY <1>1, <1>2, <1>2a
<1>4. ASSUME NEW x \in bufs', x # head
      PROVE  x + buflen[x] <= head \/ head + len <= x
    <2>1. x \in bufs /\ x \in Nat /\ buflen[x] \in Nat /\ buflen[x] >= MinSize
        BY <1>2 DEF Shape, ShapeType, Lengths
    <2>2. \A c \in bufs : x # c => x + buflen[x] <= c \/ c + buflen[c] <= x
        BY <2>1 DEF Shape, NoOverlap
    <2>3. CASE mp /\ mn
        BY <1>1, <1>2, <1>2a, <1>4, <2>1, <2>2, <2>3
    <2>4. CASE mp /\ ~mn
        BY <1>1, <1>2, <1>2a, <1>4, <2>1, <2>2, <2>4
    <2>5. CASE ~mp /\ mn
        BY <1>1, <1>2, <1>2a, <1>4, <2>1, <2>2, <2>5
    <2>6. CASE ~mp /\ ~mn
        BY <1>1, <1>2, <1>2a, <1>4, <2>1, <2>2, <2>6
    <2> QED BY <1>1, <2>3, <2>4, <2>5, <2>6
<1>5. tail # NULL => tail \in bufs' /\ tail = head + len /\ tail # head
    <2>1. CASE mn
        <3>1. nxt[n] # NULL => /\ nxt[n] \in bufs /\ nxt[n] = n + buflen[n]
            BY <1>1, <2>1, <1>2b DEF Shape, NoGaps
        <3> QED BY <1>1, <1>2, <1>2a, <1>3, <2>1, <3>1
    <2>2. CASE ~mn
        <3>1. n # NULL => n \in bufs /\ n = b + buflen[b]
            BY <1>1 DEF n, Shape, NoGaps
        <3> QED BY <1>1, <1>2, <1>2a, <1>3, <2>2, <3>1
    <2> QED BY <1>1, <2>1, <2>2
<1>6. ASSUME NEW x \in bufs', x # head
      PROVE  nxt[x] \notin gone /\ (prv[x] \in gone => x = tail)
    BY <1>1, <1>2, <1>6 DEF Shape, ShapeType, NoGaps, NULL, p, n
<1>7. prv[head] \notin gone
    <2>1. prv[head] # NULL => nxt[prv[head]] = head
        BY <1>2, <1>3 DEF Shape, NoGaps
    <2>2. prv[head] # NULL => prv[head] \in bufs /\ prv[head] < head
        <3>1. SUFFICES ASSUME prv[head] # NULL
                       PROVE  prv[head] \in bufs /\ prv[head] < head
            OBVIOUS
        <3>2. prv[head] \in bufs /\ head \in Nat
            BY <1>2, <1>3, <3>1 DEF Shape, ShapeType
        <3>3. prv[head] + buflen[prv[head]] = head
            BY <2>1, <3>1, <3>2 DEF Shape, NoGaps, NULL
        <3>4. /\ prv[head] \in Nat /\ buflen[prv[head]] \in Nat
              /\ buflen[prv[head]] >= MinSize
            BY <3>2 DEF Shape, ShapeType, Lengths
        <3> QED BY <3>2, <3>3, <3>4
    <2>3. NULL \notin gone
        BY <1>1, <1>2a DEF NULL
    <2> QED BY <1>1, <1>2a, <1>3, <2>2, <2>3
<1>7a. /\ last \in bufs /\ last \in gone \cup {head} /\ nxt[last] = tail
       /\ last + buflen[last] = head + len
       /\ last # head => nxt[head] \in gone
       /\ tail # NULL => prv[tail] = last
    <2>1. last \in bufs /\ last \in gone \cup {head} /\ nxt[last] = tail
        BY <1>1 DEF n
    <2>2. last + buflen[last] = head + len
        BY <1>1, <1>2a
    <2>3. last # head => nxt[head] \in gone
        BY <1>1 DEF n
    <2>4. tail # NULL => prv[tail] = last
        BY <2>1 DEF Shape, NoGaps
    <2> QED BY <2>1, <2>2, <2>3, <2>4
<1>7b. \A x \in gone : x \in bufs /\ prv[x] # NULL
    BY <1>1, <1>2a DEF p, NULL
<1>8. ShapeType'
    <2>1. bufs' \subseteq Nat /\ buflen' \in [bufs' -> Nat]
        BY <1>2, <1>3 DEF Shape, ShapeType
    <2>2. ASSUME NEW x \in bufs' PROVE nxt'[x] \in bufs' \cup {NULL}
        BY <1>2, <1>3, <1>5, <1>6 DEF Shape, ShapeType
    <2>3. ASSUME NEW x \in bufs' PROVE prv'[x] \in bufs' \cup {NULL}
        BY <1>2, <1>3, <1>6, <1>7 DEF Shape, ShapeType
    <2> QED BY <1>2, <2>1, <2>2, <2>3 DEF ShapeType
<1>9. Lengths'
    BY <1>2, <1>3 DEF Shape, ShapeType, Lengths
<1>10. Blocks' = Blocks
    <2>2. ASSUME NEW x \in bufs' PROVE prv'[x] = NULL <=> prv[x] = NULL
        <3>1. CASE x = tail
            <4>1. prv[x] # NULL
                BY <1>2, <1>7a, <3>1 DEF Shape, ShapeType, NULL
            <4> QED BY <1>2, <1>3, <3>1, <4>1 DEF Shape, ShapeType, NULL
        <3>2. CASE x # tail
            BY <1>2, <3>2
        <3> QED BY <3>1, <3>2
    <2> QED
        BY <1>2, <1>7b, <2>2 DEF Blocks
<1>11. NoOverlap'
    <2>1. ASSUME NEW x \in bufs', NEW y \in bufs', x # y
          PROVE  x + buflen'[x] <= y \/ y + buflen'[y] <= x
        BY <1>2, <1>4, <2>1 DEF Shape, ShapeType, NoOverlap
    <2>2. ASSUME NEW x \in bufs'
          PROVE  \E k \in Blocks' : InBlock(x, k)'
        <3>1. CASE x # head
            <4>1. PICK k \in Blocks : InBlock(x, k)
                BY <1>2 DEF Shape, NoOverlap
            <4>2. InBlock(x, k)'
                BY <1>2, <3>1, <4>1 DEF InBlock
            <4> QED BY <4>2, <1>10
        <3>2. CASE x = head
            <4>1. PICK k \in Blocks : InBlock(last, k)
                BY <1>7a DEF Shape, NoOverlap
            <4>2. k \in bufs /\ prv[k] = NULL /\ k \in Nat /\ buflen[k] \in Nat
                BY DEF Blocks, Shape, ShapeType
            <4>3. k <= last /\ head + len <= k + BlockSize
                BY <1>7a, <4>1, <4>2 DEF InBlock, Shape, ShapeType
            <4>4. k \in bufs' /\ (k = head \/ k + buflen[k] <= head \/ head + len <= k)
                BY <1>2, <1>4, <1>7b, <4>2
            <4>5. k <= head
                BY <1>1, <1>2a, <1>3, <4>2, <4>3, <4>4
            <4> QED
                BY <1>2, <1>3, <1>10, <3>2, <4>3, <4>5 DEF InBlock
        <3> QED BY <3>1, <3>2
    <2> QED
        BY <2>1, <2>2 DEF NoOverlap
<1>12. NoGaps'
    <2> SUFFICES ASSUME NEW x \in bufs'
                 PROVE  /\ nxt'[x] # NULL => nxt'[x] = x + buflen'[x] /\ prv'[nxt'[x]] = x
                        /\ nxt'[x] = NULL => \E k \in Blocks' : x + buflen'[x] = k + BlockSize
                        /\ prv'[x] # NULL => nxt'[prv'[x]] = x
        BY DEF NoGaps
    <2>1. nxt'[x] # NULL => nxt'[x] = x + buflen'[x] /\ prv'[nxt'[x]] = x
        <3>1. CASE x = head
            BY <1>2, <1>3, <1>5, <3>1
        <3>2. CASE x # head
            <4>1. nxt[x] # NULL => nxt[x] = x + buflen[x] /\ prv[nxt[x]] = x
                BY <1>2 DEF Shape, NoGaps
            <4>2. nxt[x] # NULL => nxt[x] \in bufs'
                BY <1>2, <1>6, <3>2 DEF Shape, ShapeType
            <4>3. nxt[x] # NULL => nxt[x] # tail
                BY <1>2, <1>7a, <3>2, <4>1
            <4> QED BY <1>2, <3>2, <4>1, <4>2, <4>3
        <3> QED BY <3>1, <3>2
    <2>2. nxt'[x] = NULL => \E k \in Blocks' : x + buflen'[x] = k + BlockSize
        <3>1. SUFFICES ASSUME nxt'[x] = NULL
                       PROVE  \E k \in Blocks : x + buflen'[x] = k + BlockSize
            BY <1>10
        <3> DEFINE y == IF x # head THEN x ELSE last
        <3>2. y \in bufs /\ nxt[y] = NULL /\ y + buflen[y] = x + buflen'[x]
            BY <1>2, <1>3, <1>7a, <3>1
        <3> HIDE DEF y
        <3> QED
            BY <3>2 DEF Shape, NoGaps
    <2>3. prv'[x] # NULL => nxt'[prv'[x]] = x
        <3>1. CASE x = tail
            BY <1>2, <1>3, <3>1
        <3>2. CASE x # tail
            <4>1. SUFFICES ASSUME prv[x] # NULL PROVE prv[x] \in bufs' /\ nxt'[prv[x]] = x
                BY <1>2, <3>2
            <4>2. nxt[prv[x]] = x
                BY <1>2, <4>1 DEF Shape, NoGaps
            <4>3. prv[x] \in bufs'
                BY <1>2, <1>6, <1>7, <3>2, <4>1 DEF Shape, ShapeType
            <4>4. prv[x] # head
                BY <1>2, <1>7a, <3>2, <4>2
            <4> QED BY <1>2, <4>2, <4>3, <4>4
        <3> QED BY <3>1, <3>2
    <2> QED BY <2>1, <2>2, <2>3
<1> QED
    BY <1>8, <1>9, <1>11, <1>12 DEF Shape

\* A new block is a tile of its own.
LEMMA AddBlockShape ==
    ASSUME Shape, NEW base \in Bases, AddBlock(base)
    PROVE  Shape'
<1> USE MinSizeIs, SizesAssumption, ClientsAssumption
<1>1. /\ bufs' = bufs \cup {base}
      /\ buflen' = [x \in bufs' |-> IF x = base THEN BlockSize ELSE buflen[x]]
      /\ nxt' = [x \in bufs' |-> IF x = base THEN NULL ELSE nxt[x]]
      /\ prv' = [x \in bufs' |-> IF x = base THEN NULL ELSE prv[x]]
      /\ \A b \in bufs : base + BlockSize <= b \/ b + buflen[b] <= base
    BY DEF AddBlock
<1>2. base \in Nat /\ base \notin bufs
    BY <1>1 DEF Shape, ShapeType, Lengths
<1>3. ShapeType'
    BY <1>1, <1>2 DEF Shape, ShapeType
<1>4. Lengths'
    BY <1>1, <1>2 DEF Shape, ShapeType, Lengths
<1>5. Blocks' = Blocks \cup {base}
    BY <1>1, <1>2 DEF Blocks
<1>6. NoOverlap'
    <2>1. ASSUME NEW x \in bufs', NEW y \in bufs', x # y
          PROVE  x + buflen'[x] <= y \/ y + buflen'[y] <= x
        BY <1>1, <1>2, <2>1 DEF Shape, ShapeType, NoOverlap
    <2>2. ASSUME NEW x \in bufs'
          PROVE  \E k \in Blocks' : InBlock(x, k)'
        <3>1. CASE x = base
            BY <1>1, <1>2, <1>5, <3>1 DEF InBlock
        <3>2. CASE x # base
            BY <1>1, <1>5, <3>2 DEF InBlock, Shape, NoOverlap
        <3> QED BY <3>1, <3>2
    <2> QED BY <2>1, <2>2 DEF NoOverlap
<1>7. NoGaps'
    <2> SUFFICES ASSUME NEW x \in bufs'
                 PROVE  /\ nxt'[x] # NULL => nxt'[x] = x + buflen'[x] /\ prv'[nxt'[x]] = x
                        /\ nxt'[x] = NULL => \E k \in Blocks' : x + buflen'[x] = k + BlockSize
                        /\ prv'[x] # NULL => nxt'[prv'[x]] = x
        BY DEF NoGaps
    <2>1. CASE x = base
        BY <1>1, <1>2, <1>5, <2>1
    <2>2. CASE x # base
        BY <1>1, <1>2, <1>5, <2>2 DEF Shape, ShapeType, NoGaps
    <2> QED BY <2>1, <2>2
<1> QED
    BY <1>3, <1>4, <1>6, <1>7 DEF Shape

\* A buffer as long as a block is the whole block.
LEMMA WholeBlock ==
    ASSUME Shape, NEW b \in bufs, buflen[b] >= BlockSize
    PROVE  b \in Blocks /\ nxt[b] = NULL /\ prv[b] = NULL /\ buflen[b] = BlockSize
<1> USE MinSizeIs, SizesAssumption
<1>1. b \in Nat /\ buflen[b] \in Nat
    BY DEF Shape, ShapeType
<1>2. PICK k \in Blocks : InBlock(b, k)
    BY DEF Shape, NoOverlap
<1>3. k \in bufs /\ k \in Nat /\ prv[k] = NULL
    BY DEF Blocks, Shape, ShapeType
<1>4. k = b /\ buflen[b] = BlockSize
    BY <1>1, <1>2, <1>3 DEF InBlock
<1>5. nxt[b] = NULL
    <2> DEFINE c == nxt[b]
    <2>1. SUFFICES ASSUME c # NULL PROVE FALSE
        OBVIOUS
    <2>2. c \in bufs /\ c = b + BlockSize /\ prv[c] = b
        BY <1>4, <2>1 DEF Shape, ShapeType, NoGaps
    <2> HIDE DEF c
    <2>3. c \in Nat /\ buflen[c] \in Nat /\ buflen[c] >= 1
        BY <2>2 DEF Shape, ShapeType, Lengths
    <2>4. PICK j \in Blocks : InBlock(c, j)
        BY <2>2 DEF Shape, NoOverlap
    <2>5. j \in bufs /\ j \in Nat /\ prv[j] = NULL /\ buflen[j] \in Nat
        BY DEF Blocks, Shape, ShapeType
    <2>6. j # c
        BY <1>1, <2>2, <2>5 DEF NULL
    <2>7. j <= c /\ c + buflen[c] <= j + BlockSize
        BY <2>4 DEF InBlock
    <2>8. j # b => j + buflen[j] <= b \/ b + BlockSize <= j
        BY <1>4, <2>5 DEF Shape, NoOverlap
    <2> QED BY <1>1, <2>2, <2>3, <2>5, <2>6, <2>7, <2>8
<1> QED
    BY <1>3, <1>4, <1>5

\* Giving a whole block back leaves the tiling of the others.
LEMMA UnlinkShape ==
    ASSUME Shape, NEW b \in bufs, buflen[b] >= BlockSize, Unlink(b)
    PROVE  Shape'
<1> USE MinSizeIs, SizesAssumption
<1>1. /\ bufs' = bufs \ {b}
      /\ buflen' = [x \in bufs' |-> buflen[x]]
      /\ nxt' = [x \in bufs' |-> nxt[x]]
      /\ prv' = [x \in bufs' |-> prv[x]]
    BY DEF Unlink
<1>2. b \in Blocks /\ nxt[b] = NULL /\ prv[b] = NULL /\ buflen[b] = BlockSize
    BY WholeBlock
<1>3. \A x \in bufs' : nxt[x] # b /\ prv[x] # b
    <2>1. b # NULL
        BY DEF Shape, ShapeType, NULL
    <2>2. \A x \in bufs : x # NULL
        BY DEF Shape, ShapeType, NULL
    <2> QED BY <1>1, <1>2, <2>1, <2>2 DEF Shape, NoGaps
<1>4. ShapeType'
    BY <1>1, <1>3 DEF Shape, ShapeType
<1>5. Lengths'
    BY <1>1 DEF Shape, Lengths
<1>6. Blocks' = Blocks \ {b}
    BY <1>1 DEF Blocks
<1>7. ASSUME NEW x \in bufs', NEW k \in Blocks, InBlock(x, k)
      PROVE  k # b
    BY <1>1, <1>2, <1>7 DEF InBlock, Shape, ShapeType, NoOverlap, Lengths
<1>8. NoOverlap'
    <2>1. ASSUME NEW x \in bufs', NEW y \in bufs', x # y
          PROVE  x + buflen'[x] <= y \/ y + buflen'[y] <= x
        BY <1>1, <2>1 DEF Shape, NoOverlap
    <2>2. ASSUME NEW x \in bufs'
          PROVE  \E k \in Blocks' : InBlock(x, k)'
        <3>1. PICK k \in Blocks : InBlock(x, k)
            BY <1>1 DEF Shape, NoOverlap
        <3> QED BY <1>1, <1>6, <1>7, <3>1 DEF InBlock
    <2> QED BY <2>1, <2>2 DEF NoOverlap
<1>9. NoGaps'
    <2> SUFFICES ASSUME NEW x \in bufs'
                 PROVE  /\ nxt'[x] # NULL => nxt'[x] = x + buflen'[x] /\ prv'[nxt'[x]] = x
                        /\ nxt'[x] = NULL => \E k \in Blocks' : x + buflen'[x] = k + BlockSize
                        /\ prv'[x] # NULL => nxt'[prv'[x]] = x
        BY DEF NoGaps
    <2>1. nxt'[x] # NULL => nxt'[x] = x + buflen'[x] /\ prv'[nxt'[x]] = x
        BY <1>1, <1>3 DEF Shape, ShapeType, NoGaps
    <2>2. nxt'[x] = NULL => \E k \in Blocks' : x + buflen'[x] = k + BlockSize
        <3>1. SUFFICES ASSUME nxt[x] = NULL
                       PROVE  \E k \in Blocks' : x + buflen[x] = k + BlockSize
            BY <1>1
        <3>2. PICK k \in Blocks : x + buflen[x] = k + BlockSize
            BY <1>1, <3>1 DEF Shape, NoGaps
        <3>3. k # b
            BY <1>1, <1>2, <3>2 DEF Shape, ShapeType, NoOverlap, Lengths
        <3> QED BY <1>6, <3>2, <3>3
    <2>3. prv'[x] # NULL => nxt'[prv'[x]] = x
        BY <1>1, <1>3 DEF Shape, ShapeType, NoGaps
    <2> QED BY <2>1, <2>2, <2>3
<1> QED
    BY <1>4, <1>5, <1>8, <1>9 DEF Shape

(***************************************************************************)
(* The free lists                                                          *)
(***************************************************************************)
ListType == links \in [bufs -> Nat] /\ pool \in [Classes -> SUBSET bufs]

\* What was in the window of buf_deref stays there.
SameWindow == \A x : InWindow(x)' <=> InWindow(x)

\* First fit takes a free buffer that is long enough, and the lists stay exact.
LEMMA TakeLists ==
    ASSUME Shape, ListType, FreeListsExact, ThreadOK, SameWindow, NEW i \in Classes,
           NEW b \in pool[i], NEW s \in Nat, s >= MinSize, i \in Fits(s), Take(b, i, s)
    PROVE  /\ ListType' /\ FreeListsExact'
           /\ b \in bufs /\ links[b] = 0 /\ s <= buflen[b] /\ links'[b] = 1
           /\ b \in bufs' /\ buflen'[b] >= s
           /\ \A x \in bufs : x # b => x \in bufs' /\ links'[x] = links[x]
                                            /\ buflen'[x] = buflen[x]
<1> USE MinSizeIs, SizesAssumption
<1>1. b \in bufs /\ links[b] = 0 /\ ~InWindow(b) /\ FreeClass(buflen[b]) = i
    BY DEF ListType, FreeListsExact
<1>2. buflen[b] \in Nat /\ buflen[b] >= MinSize /\ b \in Nat
    BY <1>1 DEF Shape, ShapeType, Lengths
<1>3. s <= buflen[b]
    BY <1>1, <1>2, FitsIs
<1> DEFINE r == b + s
           rest == buflen[b] - s
<1>4. CASE ~(rest >= MinSize)
    <2>1. /\ links' = [links EXCEPT ![b] = 1]
          /\ pool' = [pool EXCEPT ![i] = @ \ {b}]
          /\ bufs' = bufs /\ buflen' = buflen
        BY <1>4 DEF Take, Rest, chain
    <2>2. ListType'
        BY <2>1 DEF ListType
    <2>3. \A j \in Classes : b \in pool[j] => j = i
        BY <1>1 DEF FreeListsExact
    <2>4. FreeListsExact'
        <3> SUFFICES ASSUME NEW x \in bufs', NEW j \in Classes
                     PROVE  x \in pool'[j] <=> links'[x] = 0 /\ ~InWindow(x)'
                                                /\ FreeClass(buflen'[x]) = j
            BY DEF FreeListsExact, FreeClass
        <3>1. CASE x = b
            BY <1>1, <2>1, <2>3, <3>1 DEF ListType
        <3>2. CASE x # b
            <4>1. x \in pool'[j] <=> x \in pool[j]
                BY <2>1, <3>2 DEF ListType
            <4> QED BY <2>1, <3>2, <4>1 DEF ListType, FreeListsExact, SameWindow
        <3> QED BY <3>1, <3>2
    <2> QED BY <1>1, <1>2, <1>3, <2>1, <2>2, <2>4 DEF ListType
<1>5. CASE rest >= MinSize
    <2>1. /\ bufs' = bufs \cup {r}
          /\ buflen' = [x \in bufs' |-> IF x = b THEN s
                                        ELSE IF x = r THEN rest ELSE buflen[x]]
          /\ links' = [x \in bufs' |-> IF x = b THEN 1
                                       ELSE IF x = r THEN 0 ELSE links[x]]
          /\ pool' = [j \in Classes |-> (pool[j] \ {b}) \cup
                                (IF j = FreeClass(rest) THEN {r} ELSE {})]
        BY <1>5 DEF Take, Rest, RestClass
    <2>2. r \notin bufs /\ r # b /\ rest \in Nat
        BY <1>1, <1>2, <1>3, <1>5 DEF Shape, ShapeType, NoOverlap, Lengths
    <2>3. ListType'
        BY <2>1, <2>2 DEF ListType
    <2>4. ~InWindow(r)
        BY <2>2 DEF InWindow, ThreadOK
    <2>5. FreeListsExact'
        <3> SUFFICES ASSUME NEW x \in bufs', NEW j \in Classes
                     PROVE  x \in pool'[j] <=> links'[x] = 0 /\ ~InWindow(x)'
                                                /\ FreeClass(buflen'[x]) = j
            BY DEF FreeListsExact, FreeClass
        <3>1. CASE x = b
            BY <2>1, <2>2, <3>1
        <3>2. CASE x = r
            <4>1. x \notin pool[j]
                BY <2>2, <3>2 DEF ListType
            <4>2. x \in pool'[j] <=> j = FreeClass(rest)
                BY <2>1, <2>2, <3>2, <4>1
            <4> QED BY <2>1, <2>2, <2>4, <3>2, <4>2 DEF SameWindow
        <3>3. CASE x # b /\ x # r
            <4>1. x \in bufs /\ links'[x] = links[x] /\ buflen'[x] = buflen[x]
                BY <2>1, <3>3
            <4>2. x \in pool'[j] <=> x \in pool[j]
                BY <2>1, <3>3
            <4> QED BY <4>1, <4>2 DEF FreeListsExact, SameWindow
        <3> QED BY <3>1, <3>2, <3>3
    <2> QED BY <1>1, <1>2, <1>3, <2>1, <2>2, <2>3, <2>5
<1> QED BY <1>4, <1>5

\* Freeing b, which is on no list, keeps the lists exact.  After the step b is
\* no longer in the window.
LEMMA FreeLists ==
    ASSUME Shape, ListType, FreeListsExact, NEW b \in bufs, Free(b), ~wild',
           \A i \in Classes : b \notin pool[i],
           \A x \in bufs \ {b} : InWindow(x)' <=> InWindow(x),
           ~InWindow(b)', Shape'
    PROVE  /\ ListType' /\ FreeListsExact'
           /\ \A x \in bufs : x # b /\ ~Listed(x) => x \in bufs' /\ links'[x] = links[x]
                                                       /\ buflen'[x] = buflen[x]
<1> DEFINE p == prv[b]
           n == nxt[b]
           merged == {c \in {p, n} : Merges(c)}
           head == IF Merges(p) THEN p ELSE b
           len == (IF Merges(p) THEN buflen[p] ELSE 0) + buflen[b]
                      + (IF Merges(n) THEN buflen[n] ELSE 0)
<1>1. /\ bufs' = (bufs \ (merged \cup {b})) \cup {head}
      /\ buflen' = [x \in bufs' |-> IF x = head THEN len ELSE buflen[x]]
      /\ links' = [x \in bufs' |-> IF x = head THEN 0 ELSE links[x]]
      /\ pool' = [i \in Classes |-> (pool[i] \ merged) \cup
                                (IF i = FreeClass(len) THEN {head} ELSE {})]
      /\ \A c \in merged : Listed(c)
    BY DEF Free
<1>2. /\ merged \subseteq bufs
      /\ head \in merged \cup {b} /\ head \in bufs
      /\ \A c \in merged : links[c] = 0 /\ ~InWindow(c)
    <2>1. p \in bufs \cup {NULL} /\ n \in bufs \cup {NULL}
        BY DEF Shape, ShapeType
    <2>2. merged \subseteq bufs
        BY <2>1 DEF Merges
    <2>3. \A c \in merged : links[c] = 0 /\ ~InWindow(c)
        BY <1>1, <2>2 DEF Listed, FreeListsExact
    <2> QED BY <2>2, <2>3
<1> HIDE DEF merged, head, len
<1>3. ListType'
    BY <1>1, <1>2 DEF ListType
<1>4. ASSUME NEW x \in bufs, x = head PROVE ~InWindow(x)'
    BY <1>2, <1>4
<1>5. FreeListsExact'
    <2> SUFFICES ASSUME NEW x \in bufs', NEW j \in Classes
                 PROVE  x \in pool'[j] <=> links'[x] = 0 /\ ~InWindow(x)'
                                            /\ FreeClass(buflen'[x]) = j
        BY DEF FreeListsExact, FreeClass
    <2>1. CASE x = head
        <3>1. x \notin pool[j] \ merged
            BY <1>2, <2>1
        <3>2. x \in pool'[j] <=> j = FreeClass(len)
            BY <1>1, <2>1, <3>1
        <3>3. ~InWindow(x)'
            BY <1>2, <1>4, <2>1
        <3> QED BY <1>1, <2>1, <3>2, <3>3
    <2>2. CASE x # head
        <3>1. x \in bufs \ {b} /\ x \notin merged /\ links'[x] = links[x] /\ buflen'[x] = buflen[x]
            BY <1>1, <2>2
        <3>2. x \in pool'[j] <=> x \in pool[j]
            BY <1>1, <2>2, <3>1
        <3> QED BY <3>1, <3>2 DEF FreeListsExact
    <2> QED BY <2>1, <2>2
<1>6. ASSUME NEW x \in bufs, x # b, ~Listed(x)
      PROVE  x \in bufs' /\ links'[x] = links[x] /\ buflen'[x] = buflen[x]
    BY <1>1, <1>2, <1>6
<1> QED BY <1>3, <1>5, <1>6

-----------------------------------------------------------------------------
(***************************************************************************)
(* The inductive invariant                                                 *)
(***************************************************************************)
LEMMA InvParts == BufInv => Shape /\ ListType /\ FreeListsExact /\ ThreadOK
BY DEF BufInv, TypeOK, Shape, ShapeType, ListType

LEMMA InitInv == Init => BufInv
<1> SUFFICES ASSUME NEW base \in Bases,
                    bufs = {base},
                    buflen = [x \in bufs |-> BlockSize],
                    links = [x \in bufs |-> 0],
                    nxt = [x \in bufs |-> NULL],
                    prv = [x \in bufs |-> NULL],
                    pool = [i \in Classes |-> IF i = 0 THEN {base} ELSE {}],
                    mem_used = BlockSize,
                    buf_tmout = FALSE, pc = "idle", size = 0, victim = NULL, wild = FALSE
             PROVE  BufInv
    BY DEF Init
<1> USE SizesAssumption, ClientsAssumption, MinSizeIs
<1>1. base \in Nat
    OBVIOUS
<1>2. TypeOK
    <2>1. buf_tmout \in BOOLEAN /\ wild \in BOOLEAN
        BY Zenon
    <2> QED BY <1>1, <2>1 DEF TypeOK, PCs, NULL
<1>3. Blocks = {base}
    BY DEF Blocks
<1>4. NoOverlap
    BY <1>1, <1>3 DEF NoOverlap, InBlock
<1>5. NoGaps
    BY <1>1, <1>3 DEF NoGaps
<1>6. Lengths
    BY DEF Lengths
<1>7. FreeClass(BlockSize) = 0
    BY BlockClass
<1>8. FreeListsExact
    BY <1>1, <1>7 DEF FreeListsExact, InWindow, Classes
<1>9. ThreadOK
    BY DEF ThreadOK
<1> QED
    BY <1>2, <1>4, <1>5, <1>6, <1>8, <1>9 DEF BufInv

\* The request buf_alloc works on.
LEMMA RoundUpIs ==
    ASSUME NEW s \in Nat PROVE RoundUp(s) \in Nat /\ RoundUp(s) >= MinSize
BY MinSizeIs DEF RoundUp

\* A successful allocation keeps the invariant.
LEMMA AllocInv ==
    ASSUME BufInv, NEW s \in Nat, s >= MinSize, Alloc(s), SameWindow
    PROVE  /\ Shape' /\ ListType' /\ FreeListsExact'
           /\ \E b \in bufs : /\ links[b] = 0 /\ b \in bufs' /\ links'[b] = 1 /\ buflen'[b] >= s
                              /\ \A x \in bufs : x # b => x \in bufs' /\ links'[x] = links[x]
                                                            /\ buflen'[x] = buflen[x]
<1>1. PICK i \in Classes : FirstFit(s, i) /\ \E b \in pool[i] : Take(b, i, s)
    BY DEF Alloc
<1>2. PICK b \in pool[i] : Take(b, i, s)
    BY <1>1
<1>3. i \in Fits(s)
    BY <1>1 DEF FirstFit
<1>4. /\ ListType' /\ FreeListsExact'
      /\ b \in bufs /\ links[b] = 0 /\ s <= buflen[b] /\ links'[b] = 1
      /\ b \in bufs' /\ buflen'[b] >= s
      /\ \A x \in bufs : x # b => x \in bufs' /\ links'[x] = links[x] /\ buflen'[x] = buflen[x]
    BY <1>2, <1>3, InvParts, TakeLists
<1>5. Shape'
    BY <1>2, <1>4, InvParts, TakeShape
<1> QED BY <1>4, <1>5

\* Freeing a buffer that is on no list keeps the invariant.
LEMMA FreeInv ==
    ASSUME BufInv, NEW b \in bufs, Free(b), ~wild',
           \A i \in Classes : b \notin pool[i],
           \A x \in bufs \ {b} : InWindow(x)' <=> InWindow(x),
           ~InWindow(b)'
    PROVE  /\ Shape' /\ ListType' /\ FreeListsExact'
           /\ \A x \in bufs : x # b /\ ~Listed(x) => x \in bufs' /\ links'[x] = links[x]
                                                       /\ buflen'[x] = buflen[x]
<1>1. Shape'
    BY InvParts, FreeShape DEF ListType
<1> QED BY <1>1, InvParts, FreeLists

\* The conjuncts of TypeOK that do not belong to Shape and ListType.
ThreadType ==
    /\ mem_used \in Int
    /\ buf_tmout \in BOOLEAN
    /\ pc \in PCs
    /\ size \in Nat
    /\ victim \in bufs \cup {NULL}
    /\ wild \in BOOLEAN

LEMMA InvIsParts ==
    Shape /\ ListType /\ ThreadType /\ FreeListsExact /\ ThreadOK <=> BufInv
BY DEF BufInv, TypeOK, Shape, ShapeType, ListType, ThreadType

\* Freeing is safe as long as nothing else is in the window of buf_deref.
LEMMA FreeListed ==
    ASSUME BufInv, ~wild, NEW b \in bufs, Free(b), \A x \in bufs \ {b} : ~InWindow(x)
    PROVE  ~wild'
<1> DEFINE p == prv[b]
           n == nxt[b]
<1>1. p \in (bufs \ {b}) \cup {NULL} /\ n \in (bufs \ {b}) \cup {NULL}
    <2>1. /\ p \in bufs \cup {NULL} /\ n \in bufs \cup {NULL} /\ b \in Nat
          /\ buflen[b] \in Nat /\ buflen[b] >= 1
        BY InvParts, MinSizeIs DEF Shape, ShapeType, Lengths
    <2>2. n # b
        BY <2>1, InvParts DEF Shape, NoGaps, NULL
    <2>3. p # b
        BY <2>1, <2>2, InvParts DEF Shape, NoGaps, NULL
    <2> QED BY <2>1, <2>2, <2>3
<1>2. \A c \in {p, n} : Merges(c) => Listed(c)
    <2> SUFFICES ASSUME NEW c \in bufs \ {b}, links[c] = 0 PROVE Listed(c)
        BY <1>1 DEF Merges
    <2>1. buflen[c] \in Nat /\ buflen[c] >= MinSize
        BY InvParts DEF Shape, ShapeType, Lengths
    <2>2. FreeClass(buflen[c]) \in Classes
        BY <2>1, FreeClassIs
    <2>3. c \in pool[FreeClass(buflen[c])]
        BY <2>2, InvParts DEF FreeListsExact
    <2> QED BY <2>2, <2>3 DEF Listed
<1>3. ~(\E c \in {x \in {p, n} : Merges(x)} : ~Listed(c))
    BY <1>2
<1>4. wild' = wild
    BY <1>3 DEF Free
<1> QED BY <1>4

LEMMA StepInv ==
    ASSUME BufInv, Next
    PROVE  BufInv'
<1> USE InvIsParts, MinSizeIs
<1>0. Shape /\ ListType /\ ThreadType /\ FreeListsExact /\ ThreadOK
    OBVIOUS
<1>w. ~wild
    BY DEF Next
<1>p. Shape' /\ ListType' /\ ThreadType' /\ FreeListsExact' /\ ThreadOK' => BufInv'
    BY DEF BufInv, TypeOK, Shape, ShapeType, ListType, ThreadType
<1>same. ASSUME UNCHANGED chain, UNCHANGED <<links, pool>>, SameWindow
         PROVE  Shape' /\ ListType' /\ FreeListsExact'
    <2>1. Shape'
        BY <1>0, <1>same DEF chain, Shape, ShapeType, NoOverlap, NoGaps, Lengths, Blocks, InBlock
    <2>2. ListType'
        BY <1>0, <1>same DEF chain, ListType
    <2>3. FreeListsExact'
        BY <1>0, <1>same DEF chain, FreeListsExact, SameWindow, FreeClass
    <2> QED BY <2>1, <2>2, <2>3
<1>1. ASSUME NEW s \in Requests, BufAlloc(s) PROVE BufInv'
    <2>1. SameWindow /\ Shape' /\ ListType' /\ FreeListsExact'
        BY <1>1, <1>same DEF BufAlloc, SameWindow, InWindow
    <2>2. s \in Nat
        BY ClientsAssumption
    <2>3. ThreadType' /\ ThreadOK'
        BY <1>0, <1>1, <2>2, RoundUpIs, SizesAssumption
           DEF BufAlloc, ThreadType, ThreadOK, PCs, chain
    <2> QED BY <1>p, <2>1, <2>3
<1>2. CASE AllocTake
    <2>1. SameWindow
        BY <1>2 DEF AllocTake, SameWindow, InWindow
    <2>2. size \in Nat /\ size >= MinSize /\ Alloc(size)
        BY <1>0, <1>2 DEF AllocTake, ThreadOK, ThreadType
    <2>3. /\ Shape' /\ ListType' /\ FreeListsExact'
          /\ \A x \in bufs : x \in bufs'
        BY <2>1, <2>2, AllocInv
    <2>4. ThreadType' /\ ThreadOK'
        BY <1>0, <1>2, <2>3 DEF AllocTake, ThreadType, ThreadOK, PCs
    <2> QED BY <1>p, <2>3, <2>4
<1>3. CASE AllocGrow
    <2>1. SameWindow /\ Shape' /\ ListType' /\ FreeListsExact'
        BY <1>3, <1>same DEF AllocGrow, SameWindow, InWindow
    <2>2. ThreadType' /\ ThreadOK'
        BY <1>0, <1>3 DEF AllocGrow, ThreadType, ThreadOK, PCs, chain
    <2> QED BY <1>p, <2>1, <2>2
<1>4. ASSUME NEW base \in Bases, AddBlock(base) PROVE BufInv'
    <2>1. Shape'
        BY <1>0, <1>4, AddBlockShape
    <2>2. /\ bufs' = bufs \cup {base}
          /\ buflen' = [x \in bufs' |-> IF x = base THEN BlockSize ELSE buflen[x]]
          /\ links' = [x \in bufs' |-> IF x = base THEN 0 ELSE links[x]]
          /\ pool' = [pool EXCEPT ![0] = @ \cup {base}]
          /\ pc = "grow" /\ pc' = "cancel" /\ base \in Bases
          /\ UNCHANGED <<buf_tmout, size, victim, wild>>
        BY <1>4 DEF AddBlock
    <2>3. base \notin bufs
        BY <1>0, <1>4, SizesAssumption, ClientsAssumption
           DEF AddBlock, Shape, ShapeType, Lengths
    <2>4. ListType'
        BY <1>0, <2>2, SizesAssumption DEF ListType, Classes
    <2>5. FreeClass(BlockSize) = 0
        BY BlockClass
    <2>6. FreeListsExact'
        <3> SUFFICES ASSUME NEW x \in bufs', NEW j \in Classes
                     PROVE  x \in pool'[j] <=> links'[x] = 0 /\ ~InWindow(x)'
                                                /\ FreeClass(buflen'[x]) = j
            BY DEF FreeListsExact, FreeClass
        <3>1. ~InWindow(x)' /\ ~InWindow(x)
            BY <2>2 DEF InWindow
        <3>2. CASE x = base
            <4>1. x \notin pool[j]
                BY <1>0, <2>3, <3>2 DEF ListType
            <4>2. x \in pool'[j] <=> j = 0
                BY <1>0, <2>2, <3>2, <4>1, SizesAssumption DEF ListType, Classes
            <4> QED BY <2>2, <2>5, <3>1, <3>2, <4>2
        <3>3. CASE x # base
            <4>1. x \in bufs /\ links'[x] = links[x] /\ buflen'[x] = buflen[x]
                BY <2>2, <3>3
            <4>2. x \in pool'[j] <=> x \in pool[j]
                BY <1>0, <2>2, <3>3 DEF ListType
            <4> QED BY <1>0, <3>1, <4>1, <4>2 DEF FreeListsExact
        <3> QED BY <3>2, <3>3
    <2>7. ThreadType' /\ ThreadOK'
        <3>1. buf_tmout' \in BOOLEAN /\ wild' \in BOOLEAN
            BY <1>0, <2>2, Zenon DEF ThreadType
        <3>2. mem_used' \in Int
            BY <1>0, <1>4, SizesAssumption DEF AddBlock, ThreadType
        <3> QED BY <1>0, <2>2, <3>1, <3>2 DEF ThreadType, ThreadOK, PCs
    <2> QED BY <1>p, <2>1, <2>4, <2>6, <2>7
<1>5. CASE NoKernelMemory
    <2>1. SameWindow /\ Shape' /\ ListType' /\ FreeListsExact'
        BY <1>5, <1>same DEF NoKernelMemory, SameWindow, InWindow
    <2>2. ThreadType' /\ ThreadOK'
        BY <1>0, <1>5 DEF NoKernelMemory, ThreadType, ThreadOK, PCs, chain
    <2> QED BY <1>p, <2>1, <2>2
<1>6. CASE CancelAddmem
    <2>1. SameWindow /\ Shape' /\ ListType' /\ FreeListsExact'
        BY <1>6, <1>same DEF CancelAddmem, SameWindow, InWindow
    <2>2. ThreadType' /\ ThreadOK'
        BY <1>0, <1>6 DEF CancelAddmem, ThreadType, ThreadOK, PCs, chain
    <2> QED BY <1>p, <2>1, <2>2
<1>7. CASE Addmem
    <2>1. SameWindow /\ Shape' /\ ListType' /\ FreeListsExact'
        BY <1>7, <1>same DEF Addmem, SameWindow, InWindow
    <2>2. ThreadType' /\ ThreadOK'
        BY <1>0, <1>7 DEF Addmem, ThreadType, ThreadOK, PCs, chain
    <2> QED BY <1>p, <2>1, <2>2
<1>8. ASSUME NEW b \in bufs, BufRef(b) PROVE BufInv'
    <2>1. /\ UNCHANGED chain /\ UNCHANGED <<pool, mem_used, buf_tmout, pc, size, victim, wild>>
          /\ links[b] # 0 /\ links' \in [bufs -> Nat] /\ links'[b] # 0
          /\ \A x \in bufs : x # b => links'[x] = links[x]
        BY <1>0, <1>8, ClientsAssumption DEF BufRef, ListType
    <2>2. Shape' /\ ListType' /\ ThreadType'
        BY <1>0, <2>1
           DEF chain, Shape, ShapeType, NoOverlap, NoGaps, Lengths, Blocks, InBlock, ListType,
               ThreadType
    <2>3. ThreadOK'
        BY <1>0, <2>1 DEF chain, ThreadOK
    <2>4. FreeListsExact'
        BY <1>0, <2>1 DEF chain, FreeListsExact, InWindow, FreeClass
    <2> QED BY <1>p, <2>2, <2>3, <2>4
<1>9. ASSUME NEW b \in bufs, BufDeref(b) PROVE BufInv'
    <2>1. /\ UNCHANGED chain /\ UNCHANGED <<pool, mem_used, buf_tmout, pc, size, victim, wild>>
          /\ links[b] # 0 /\ links' \in [bufs -> Nat] /\ links'[b] # 0
          /\ \A x \in bufs : x # b => links'[x] = links[x]
        BY <1>0, <1>9, ClientsAssumption DEF BufDeref, ListType
    <2>2. Shape' /\ ListType' /\ ThreadType'
        BY <1>0, <2>1
           DEF chain, Shape, ShapeType, NoOverlap, NoGaps, Lengths, Blocks, InBlock, ListType,
               ThreadType
    <2>3. ThreadOK'
        BY <1>0, <2>1 DEF chain, ThreadOK
    <2>4. FreeListsExact'
        BY <1>0, <2>1 DEF chain, FreeListsExact, InWindow, FreeClass
    <2> QED BY <1>p, <2>2, <2>3, <2>4
<1>10. ASSUME NEW b \in bufs, BufDerefLast(b) PROVE BufInv'
    <2>1. /\ UNCHANGED chain /\ UNCHANGED <<pool, mem_used, buf_tmout, size, wild>>
          /\ pc = "idle" /\ pc' = "free" /\ victim' = b /\ links[b] # 0 /\ ~NotYet
          /\ links' = [links EXCEPT ![b] = 0]
        BY <1>10 DEF BufDerefLast
    <2>2. Shape' /\ ListType' /\ ThreadType'
        BY <1>0, <2>1
           DEF chain, Shape, ShapeType, NoOverlap, NoGaps, Lengths, Blocks, InBlock, ListType,
               ThreadType, PCs
    <2>3. ThreadOK'
        BY <1>0, <2>1 DEF chain, ThreadOK, ListType
    <2>4. FreeListsExact'
        <3> SUFFICES ASSUME NEW x \in bufs, NEW j \in Classes
                     PROVE  x \in pool[j] <=> links'[x] = 0 /\ ~InWindow(x)'
                                                /\ FreeClass(buflen[x]) = j
            BY <2>1 DEF chain, FreeListsExact, FreeClass
        <3>1. CASE x = b
            BY <1>0, <2>1, <3>1 DEF FreeListsExact, InWindow
        <3>2. CASE x # b
            BY <1>0, <2>1, <3>2 DEF FreeListsExact, InWindow, ListType
        <3> QED BY <3>1, <3>2
    <2> QED BY <1>p, <2>2, <2>3, <2>4
<1>11. CASE DerefFree
    <2>1. /\ pc = "free" /\ pc' = "idle" /\ victim' = NULL /\ Free(victim)
          /\ UNCHANGED <<mem_used, buf_tmout, size>>
          /\ victim \in bufs /\ links[victim] = 0
        BY <1>0, <1>11 DEF DerefFree, ThreadOK
    <2>2. PICK b \in bufs : b = victim
        BY <2>1
    <2>3. InWindow(b) /\ \A i \in Classes : b \notin pool[i]
        BY <1>0, <2>1, <2>2 DEF InWindow, FreeListsExact
    <2>4. \A x \in bufs : ~InWindow(x)' /\ (x # b => ~InWindow(x))
        BY <2>1, <2>2 DEF InWindow
    <2>5. ~wild'
        BY <1>w, <2>1, <2>2, <2>4, FreeListed
    <2>6. Shape' /\ ListType' /\ FreeListsExact'
        BY <2>1, <2>2, <2>3, <2>4, <2>5, FreeInv
    <2>7. ThreadType' /\ ThreadOK'
        <3>1. buf_tmout' \in BOOLEAN /\ wild' \in BOOLEAN
            BY <1>0, <2>1, <2>5, Zenon DEF ThreadType, Free
        <3> QED BY <1>0, <2>1, <3>1 DEF ThreadType, ThreadOK, PCs
    <2> QED BY <1>p, <2>6, <2>7
<1>12. CASE Gc
    <2>1. SameWindow /\ Shape' /\ ListType' /\ FreeListsExact'
        BY <1>12, <1>same DEF Gc, SameWindow, InWindow
    <2>2. ThreadType' /\ ThreadOK'
        BY <1>0, <1>12 DEF Gc, ThreadType, ThreadOK, PCs, chain
    <2> QED BY <1>p, <2>1, <2>2
<1>13. ASSUME NEW b \in bufs, FreeBlock(b) PROVE BufInv'
    <2>1. /\ pc = "gc" /\ b \in pool[0] /\ Unlink(b) /\ mem_used' = mem_used - buflen[b]
          /\ UNCHANGED <<buf_tmout, pc, size, victim, wild>>
        BY <1>13 DEF FreeBlock
    <2>2. 0 \in Classes
        BY SizesAssumption DEF Classes
    <2>3. buflen[b] >= BlockSize /\ buflen[b] \in Nat
        <3>1. FreeClass(buflen[b]) = 0
            BY <1>0, <2>1, <2>2 DEF FreeListsExact
        <3>2. buflen[b] \in Nat /\ buflen[b] >= MinSize
            BY <1>0 DEF Shape, ShapeType, Lengths
        <3> QED BY <3>1, <3>2, FreeClassIs, SizesAssumption
    <2>4. Shape'
        BY <1>0, <2>1, <2>3, UnlinkShape
    <2>5. /\ bufs' = bufs \ {b}
          /\ buflen' = [x \in bufs' |-> buflen[x]]
          /\ links' = [x \in bufs' |-> links[x]]
          /\ pool' = [pool EXCEPT ![0] = @ \ {b}]
        BY <2>1 DEF Unlink
    <2>6. \A j \in Classes : b \in pool[j] => j = 0
        BY <1>0, <2>1, <2>2 DEF FreeListsExact
    <2>7. ListType'
        BY <1>0, <2>2, <2>5, <2>6 DEF ListType
    <2>8. FreeListsExact'
        <3> SUFFICES ASSUME NEW x \in bufs', NEW j \in Classes
                     PROVE  x \in pool'[j] <=> links'[x] = 0 /\ ~InWindow(x)'
                                                /\ FreeClass(buflen'[x]) = j
            BY DEF FreeListsExact, FreeClass
        <3>1. x \in bufs /\ x # b /\ links'[x] = links[x] /\ buflen'[x] = buflen[x]
            BY <2>5
        <3>2. x \in pool'[j] <=> x \in pool[j]
            BY <1>0, <2>2, <2>5, <3>1 DEF ListType
        <3> QED BY <1>0, <2>1, <3>1, <3>2 DEF FreeListsExact, InWindow
    <2>9. ThreadType' /\ ThreadOK'
        BY <1>0, <2>1, <2>3, <2>5 DEF ThreadType, ThreadOK, NULL
    <2> QED BY <1>p, <2>4, <2>7, <2>8, <2>9
<1>14. CASE GcDone
    <2>1. SameWindow /\ Shape' /\ ListType' /\ FreeListsExact'
        BY <1>14, <1>same DEF GcDone, SameWindow, InWindow
    <2>2. ThreadType' /\ ThreadOK'
        BY <1>0, <1>14 DEF GcDone, ThreadType, ThreadOK, PCs, chain
    <2> QED BY <1>p, <2>1, <2>2
<1>15. ASSUME NEW s \in Requests, AtomicAlloc(s) PROVE BufInv'
    <2>1. SameWindow /\ Alloc(RoundUp(s)) /\ s \in Nat
        BY <1>15, ClientsAssumption DEF AtomicAlloc, SameWindow, InWindow
    <2>2. /\ Shape' /\ ListType' /\ FreeListsExact'
          /\ \E b \in bufs : /\ links[b] = 0 /\ b \in bufs' /\ links'[b] = 1
                             /\ \A x \in bufs : x # b => x \in bufs' /\ links'[x] = links[x]
        BY <2>1, RoundUpIs, AllocInv
    <2>3. UNCHANGED <<mem_used, buf_tmout, pc, size, victim, wild>>
        BY <1>15 DEF AtomicAlloc
    <2>4. pc = "free" => victim \in bufs' /\ links'[victim] = 0
        <3>1. PICK i \in Classes : \E b \in pool[i] : FirstFit(RoundUp(s), i) /\ Take(b, i, RoundUp(s))
            BY <2>1 DEF Alloc
        <3>2. PICK b \in pool[i] : FirstFit(RoundUp(s), i) /\ Take(b, i, RoundUp(s))
            BY <3>1
        <3>3. /\ \A x \in bufs : x # b => x \in bufs' /\ links'[x] = links[x]
              /\ b \in bufs
            BY <1>0, <2>1, <3>2, RoundUpIs, TakeLists DEF FirstFit
        <3>4. pc = "free" => victim # b
            BY <1>0, <3>3 DEF FreeListsExact, InWindow
        <3> QED BY <1>0, <3>3, <3>4 DEF ThreadOK
    <2>5. ThreadType' /\ ThreadOK'
        BY <1>0, <2>2, <2>3, <2>4 DEF ThreadType, ThreadOK
    <2> QED BY <1>p, <2>2, <2>5
<1>16. ASSUME NEW s \in Requests, AtomicAllocFails(s) PROVE BufInv'
    <2>1. SameWindow /\ Shape' /\ ListType' /\ FreeListsExact'
        BY <1>16, <1>same DEF AtomicAllocFails, SameWindow, InWindow
    <2>2. ThreadType' /\ ThreadOK'
        BY <1>0, <1>16 DEF AtomicAllocFails, ThreadType, ThreadOK, PCs, chain
    <2> QED BY <1>p, <2>1, <2>2
<1>17. ASSUME NEW b \in bufs, MaskedDeref(b) PROVE BufInv'
    <2>1. /\ links[b] = 1 /\ Free(b) /\ UNCHANGED <<mem_used, buf_tmout, pc, size, victim>>
        BY <1>17 DEF MaskedDeref
    <2>2. SameWindow
        BY <2>1 DEF SameWindow, InWindow
    <2>3. CASE wild'
        <3>1. UNCHANGED <<chain, links, pool>> /\ wild' = TRUE
            BY <1>w, <2>1, <2>3 DEF Free
        <3>2. Shape' /\ ListType' /\ FreeListsExact'
            BY <2>2, <3>1, <1>same
        <3>3. wild' \in BOOLEAN /\ buf_tmout' \in BOOLEAN
            BY <1>0, <2>1, <3>1, Zenon DEF ThreadType
        <3>4. ThreadType' /\ ThreadOK'
            BY <1>0, <2>1, <3>1, <3>3 DEF ThreadType, ThreadOK, chain
        <3> QED BY <1>p, <3>2, <3>4
    <2>4. CASE ~wild'
        <3>1. \A i \in Classes : b \notin pool[i]
            BY <1>0, <2>1 DEF FreeListsExact
        <3>2. ~InWindow(b)
            BY <1>0, <2>1 DEF InWindow, ThreadOK
        <3>3. /\ Shape' /\ ListType' /\ FreeListsExact'
              /\ \A x \in bufs : x # b /\ ~Listed(x) => x \in bufs' /\ links'[x] = links[x]
            BY <2>1, <2>2, <2>4, <3>1, <3>2, FreeInv DEF SameWindow
        <3>4. ~wild' /\ wild' \in BOOLEAN
            <4>1. wild' = TRUE \/ wild' = wild
                BY <2>1, Zenon DEF Free
            <4> QED BY <1>0, <1>w, <2>4, <4>1, Zenon DEF ThreadType
        <3>5. pc = "free" => victim \in bufs' /\ links'[victim] = 0
            <4>1. pc = "free" => victim \in bufs /\ victim # b /\ ~Listed(victim)
                BY <1>0, <2>1 DEF ThreadOK, Listed, FreeListsExact, InWindow
            <4> QED BY <1>0, <3>3, <4>1 DEF ThreadOK
        <3>6. ThreadType' /\ ThreadOK'
            BY <1>0, <2>1, <3>4, <3>5 DEF ThreadType, ThreadOK
        <3> QED BY <1>p, <3>3, <3>6
    <2> QED BY <2>3, <2>4
<1> QED
    BY <1>1, <1>2, <1>3, <1>4, <1>5, <1>6, <1>7, <1>8, <1>9, <1>10, <1>11, <1>12, <1>13, <1>14,
       <1>15, <1>16, <1>17 DEF Next, Thread, Interrupt

-----------------------------------------------------------------------------
(***************************************************************************)
(* Theorems                                                                *)
(***************************************************************************)

\* The inductive invariant is an invariant, whatever drivers do at interrupt
\* level: up to a wild unlink the buffers tile the blocks and the free lists are
\* exact.
THEOREM Invariance == Spec => []BufInv
<1>1. BufInv /\ [Next]_vars => BufInv'
    <2>1. ASSUME BufInv, UNCHANGED vars PROVE BufInv'
        BY <2>1 DEF vars, BufInv, TypeOK, NoOverlap, NoGaps, Lengths, FreeListsExact, ThreadOK,
                    Blocks, InBlock, InWindow, FreeClass
    <2> QED BY <2>1, StepInv
<1> QED
    BY <1>1, InitInv, PTL DEF Spec

\* The type invariant holds for every instance.
THEOREM TypeCorrect == Spec => []TypeOK
<1>1. BufInv => TypeOK
    BY DEF BufInv
<1> QED BY <1>1, Invariance, PTL

\* No two buffers overlap, every buffer lies inside a block.
THEOREM NoOverlapInvariant == Spec => []NoOverlap
<1>1. BufInv => NoOverlap
    BY DEF BufInv
<1> QED BY <1>1, Invariance, PTL

\* The chain of neighbours covers every block without gaps.
THEOREM NoGapsInvariant == Spec => []NoGaps
<1>1. BufInv => NoGaps
    BY DEF BufInv
<1> QED BY <1>1, Invariance, PTL

\* The free lists hold exactly the free buffers of their class.
THEOREM FreeListsInvariant == Spec => []FreeListsExact
<1>1. BufInv => FreeListsExact
    BY DEF BufInv
<1> QED BY <1>1, Invariance, PTL

\* An unlink never meets a buffer that is on no list, provided that drivers do
\* not call buf_deref at interrupt level or that buf_deref masks interrupts
\* before it touches links.
THEOREM NoWildUnlinkInvariant ==
    ASSUME IntrDerefs => NotYet
    PROVE  Spec => []NoWildUnlink
<1>1. Init => NoWildUnlink
    BY DEF Init, NoWildUnlink
<1>2. BufInv /\ NoWildUnlink /\ [Next]_vars => NoWildUnlink'
    <2> SUFFICES ASSUME BufInv, ~wild, [Next]_vars PROVE ~wild'
        BY DEF NoWildUnlink
    <2>1. CASE DerefFree
        <3>1. victim \in bufs /\ pc = "free" /\ Free(victim)
            BY <2>1 DEF DerefFree, BufInv, ThreadOK
        <3>2. \A x \in bufs \ {victim} : ~InWindow(x)
            BY DEF InWindow
        <3> QED BY <3>1, <3>2, FreeListed
    <2>2. ASSUME NEW b \in bufs, MaskedDeref(b) PROVE ~wild'
        <3>1. pc # "free"
            BY <2>2 DEF MaskedDeref, BufInv, ThreadOK
        <3>2. \A x \in bufs \ {b} : ~InWindow(x)
            BY <3>1 DEF InWindow
        <3> QED BY <2>2, <3>2, FreeListed DEF MaskedDeref
    <2>3. CASE UNCHANGED wild
        BY <2>3
    <2> QED
        BY <2>1, <2>2, <2>3
           DEF Next, Thread, Interrupt, vars, BufAlloc, AllocTake, AllocGrow, AddBlock,
               NoKernelMemory, CancelAddmem, Addmem, BufRef, BufDeref, BufDerefLast, Gc,
               FreeBlock, GcDone, AtomicAlloc, AtomicAllocFails
<1> QED
    BY <1>1, <1>2, Invariance, PTL DEF Spec

\* A step never moves, resizes or takes away a buffer that has an owner, unless
\* it is the last owner's own buf_deref.
THEOREM OwnersUntouched == Spec => OwnedUntouched
<1> DEFINE Untouched == \A b \in bufs : links[b] > 0 => Kept(b) \/ MaskedDeref(b)
<1>1. BufInv /\ Next => Untouched
    <2> SUFFICES ASSUME BufInv, Next PROVE Untouched
        OBVIOUS
    <2>0. Shape /\ ListType /\ FreeListsExact /\ ThreadOK /\ ~wild
        BY InvParts DEF Next
    <2>1. CASE UNCHANGED chain
        BY <2>1 DEF chain, Kept
    <2>2. CASE AllocTake
        <3>1. SameWindow
            BY <2>2 DEF AllocTake, SameWindow, InWindow
        <3>2. size \in Nat /\ size >= MinSize /\ Alloc(size)
            BY <2>0, <2>2, MinSizeIs, SizesAssumption DEF AllocTake, ThreadOK
        <3> QED BY <3>1, <3>2, AllocInv DEF Kept
    <2>3. ASSUME NEW s \in Requests, AtomicAlloc(s) PROVE Untouched
        <3>1. SameWindow /\ Alloc(RoundUp(s)) /\ s \in Nat
            BY <2>3, ClientsAssumption DEF AtomicAlloc, SameWindow, InWindow
        <3> QED BY <3>1, RoundUpIs, AllocInv DEF Kept
    <2>4. ASSUME NEW base \in Bases, AddBlock(base) PROVE Untouched
        <3>1. base \notin bufs
            BY <2>0, <2>4, SizesAssumption, ClientsAssumption, MinSizeIs
               DEF AddBlock, Shape, ShapeType, Lengths
        <3> QED BY <2>4, <3>1 DEF AddBlock, Kept
    <2>5. CASE DerefFree
        <3>1. /\ pc = "free" /\ pc' = "idle" /\ Free(victim)
              /\ victim \in bufs /\ links[victim] = 0
            BY <2>0, <2>5 DEF DerefFree, ThreadOK
        <3>2. PICK b \in bufs : b = victim
            BY <3>1
        <3>3. \A i \in Classes : b \notin pool[i]
            BY <2>0, <3>1, <3>2 DEF InWindow, FreeListsExact
        <3>4. \A x \in bufs : ~InWindow(x)' /\ (x # b => ~InWindow(x))
            BY <3>1, <3>2 DEF InWindow
        <3>5. ~wild'
            BY <2>0, <3>1, <3>2, <3>4, FreeListed
        <3>6. \A x \in bufs : x # b /\ ~Listed(x) => Kept(x)
            BY <3>1, <3>2, <3>3, <3>4, <3>5, FreeInv DEF Kept
        <3>7. \A x \in bufs : links[x] > 0 => x # b /\ ~Listed(x)
            BY <2>0, <3>1, <3>2 DEF Listed, FreeListsExact
        <3> QED BY <3>6, <3>7
    <2>6. ASSUME NEW b \in bufs, MaskedDeref(b) PROVE Untouched
        <3>1. Free(b) /\ links[b] = 1 /\ SameWindow
            BY <2>6 DEF MaskedDeref, SameWindow, InWindow
        <3>2. CASE UNCHANGED chain
            BY <2>1, <3>2
        <3>3. CASE ~wild'
            <4>1. \A i \in Classes : b \notin pool[i]
                BY <2>0, <3>1 DEF FreeListsExact
            <4>2. ~InWindow(b)
                BY <2>0, <3>1 DEF InWindow, ThreadOK
            <4>3. \A x \in bufs : x # b /\ ~Listed(x) => Kept(x)
                BY <3>1, <3>3, <4>1, <4>2, FreeInv DEF SameWindow, Kept
            <4>4. \A x \in bufs : links[x] > 0 => ~Listed(x)
                BY <2>0 DEF Listed, FreeListsExact
            <4> QED BY <2>6, <4>3, <4>4
        <3>4. wild' => UNCHANGED chain
            BY <2>0, <3>1, Zenon DEF Free
        <3> QED BY <3>2, <3>3, <3>4
    <2>7. ASSUME NEW b \in bufs, FreeBlock(b) PROVE Untouched
        <3>1. 0 \in Classes
            BY SizesAssumption DEF Classes
        <3>2. links[b] = 0
            BY <2>0, <2>7, <3>1 DEF FreeBlock, FreeListsExact
        <3> QED BY <2>7, <3>2 DEF FreeBlock, Unlink, Kept
    <2> QED
        BY <2>1, <2>2, <2>3, <2>4, <2>5, <2>6, <2>7
           DEF Next, Thread, Interrupt, BufAlloc, AllocGrow, NoKernelMemory, CancelAddmem, Addmem,
               BufRef, BufDeref, BufDerefLast, Gc, GcDone, AtomicAllocFails
<1>2. BufInv /\ [Next]_vars => [Untouched]_vars
    BY <1>1
<1> QED
    BY <1>2, Invariance, PTL DEF Spec, OwnedUntouched

-----------------------------------------------------------------------------
(***************************************************************************)
(* Datagram sockets: Dgram                                                 *)
(*                                                                         *)
(* Sums of lengths                                                         *)
(***************************************************************************)
\* A set of numbers has a least one.
LEMMA LeastIs ==
    ASSUME NEW S, S \subseteq Nat, S # {}
    PROVE  \E x \in S : \A y \in S : x <= y
<1>1. PICK x \in S : \A y \in S : ~(<<y, x>> \in OpToRel(<, Nat))
  BY NatLessThanWellFounded, WFMin
<1>2. \A y \in S : ~(y < x)
  BY <1>1 DEF OpToRel
<1>3. \A y \in S : x <= y
  BY <1>2
<1> QED BY <1>3

\* The queue of a socket
Queued == [port : Ports \cup {0}, len : Nat]

\* f sums the lengths of the first n datagrams of q.
SumsTo(q, n, f) ==
    /\ f \in [0 .. n -> Nat] /\ f[0] = 0
    /\ \A i \in 1 .. n : f[i] = f[i - 1] + q[i].len

\* The lengths have sums: those of one more follow from those of fewer.
LEMMA SumsExist ==
    ASSUME NEW q \in Seq(Queued)
    PROVE  \E f : SumsTo(q, Len(q), f)
<1> DEFINE Bad == {n \in 0 .. Len(q) : ~\E f : SumsTo(q, n, f)}
<1>0. Len(q) \in 0 .. Len(q)
  OBVIOUS
<1>1. SUFFICES ASSUME Bad # {} PROVE FALSE
  BY <1>0
<1>2. PICK n \in Bad : \A m \in Bad : n <= m
  <2>1. Bad \subseteq Nat
    OBVIOUS
  <2> HIDE DEF Bad
  <2> QED BY <1>1, <2>1, LeastIs
<1>3. n \in 0 .. Len(q) /\ ~(\E f : SumsTo(q, n, f)) /\ Len(q) \in Nat
  BY <1>2
<1>4. n # 0
  <2>1. SumsTo(q, 0, [i \in 0 .. 0 |-> 0])
    BY DEF SumsTo
  <2> QED BY <1>3, <2>1
<1>5. n - 1 \in 0 .. Len(q) /\ n - 1 \notin Bad
  BY <1>2, <1>3, <1>4
<1>6. PICK f : SumsTo(q, n - 1, f)
  BY <1>5
<1>7. SumsTo(q, n, [i \in 0 .. n |-> IF i = n THEN f[n - 1] + q[n].len ELSE f[i]])
  <2> DEFINE g == [i \in 0 .. n |-> IF i = n THEN f[n - 1] + q[n].len ELSE f[i]]
  <2>1. q[n].len \in Nat /\ n - 1 \in 0 .. n - 1 /\ f[n - 1] \in Nat
    <3>1. n \in 1 .. Len(q)
      BY <1>3, <1>4
    <3>2. q[n] \in Queued
      BY <3>1
    <3> QED BY <1>3, <1>4, <1>6, <3>2 DEF SumsTo, Queued
  <2>2. \A i \in 0 .. n : i # n => i \in 0 .. n - 1
    BY <1>3
  <2>3. g \in [0 .. n -> Nat]
    BY <1>6, <2>1, <2>2 DEF SumsTo
  <2>4. g[0] = 0
    BY <1>3, <1>4, <1>6 DEF SumsTo
  <2>5. ASSUME NEW i \in 1 .. n PROVE g[i] = g[i - 1] + q[i].len
    <3>1. i - 1 \in 0 .. n /\ i \in 0 .. n /\ i - 1 # n
      BY <1>3
    <3>2. i # n => i \in 1 .. n - 1
      BY <1>3
    <3> QED BY <1>6, <3>1, <3>2 DEF SumsTo
  <2> QED BY <2>3, <2>4, <2>5 DEF SumsTo
<1> QED BY <1>3, <1>7

\* There is one such function only, and the recursive one in Sum is it.
LEMMA SumIs ==
    ASSUME NEW q \in Seq(Queued), NEW f, SumsTo(q, Len(q), f)
    PROVE  Sum(q) = f[Len(q)]
<1> DEFINE Eq(g) == g = [i \in 0 .. Len(q) |-> IF i = 0 THEN 0 ELSE g[i - 1] + q[i].len]
<1>1. Sum(q) = (CHOOSE g : Eq(g))[Len(q)]
  BY DEF Sum
<1>2. Eq(f)
  <2>1. f = [i \in 0 .. Len(q) |-> f[i]]
    BY DEF SumsTo
  <2>2. \A i \in 0 .. Len(q) : f[i] = IF i = 0 THEN 0 ELSE f[i - 1] + q[i].len
    <3>1. \A i \in 0 .. Len(q) : i # 0 => i \in 1 .. Len(q)
      OBVIOUS
    <3> QED BY <3>1 DEF SumsTo
  <2> QED BY <2>1, <2>2
<1>3. ASSUME NEW g, Eq(g) PROVE g = f
  <2> DEFINE Bad == {n \in 0 .. Len(q) : g[n] # f[n]}
  <2>1. g = [i \in 0 .. Len(q) |-> g[i]] /\ \A i \in 0 .. Len(q) : g[i] = IF i = 0 THEN 0 ELSE g[i - 1] + q[i].len
    BY <1>3
  <2>2. CASE Bad # {}
    <3>1. PICK n \in Bad : \A m \in Bad : n <= m
      <4>1. Bad \subseteq Nat
        OBVIOUS
      <4> HIDE DEF Bad
      <4> QED BY <2>2, <4>1, LeastIs
    <3>2. n \in 0 .. Len(q) /\ g[n] # f[n] /\ Len(q) \in Nat
      BY <3>1
    <3>3. n # 0
      BY <2>1, <3>2 DEF SumsTo
    <3>4. n - 1 \in 0 .. Len(q) /\ n - 1 \notin Bad /\ n \in 1 .. Len(q)
      BY <3>1, <3>2, <3>3
    <3>5. g[n - 1] = f[n - 1]
      BY <3>4
    <3>6. g[n] = g[n - 1] + q[n].len
      BY <2>1, <3>2, <3>3
    <3>7. f[n] = f[n - 1] + q[n].len
      BY <3>4 DEF SumsTo
    <3> QED BY <3>2, <3>5, <3>6, <3>7
  <2>3. CASE Bad = {}
    <3>1. \A i \in 0 .. Len(q) : g[i] = f[i]
      BY <2>3
    <3>2. f = [i \in 0 .. Len(q) |-> f[i]]
      BY DEF SumsTo
    <3>3. g = [i \in 0 .. Len(q) |-> g[i]]
      BY <2>1
    <3> HIDE DEF Bad, Eq
    <3> QED BY <3>1, <3>2, <3>3
  <2> QED BY <2>2, <2>3
<1>4. (CHOOSE g : Eq(g)) = f
  <2> HIDE DEF Eq
  <2> QED BY <1>2, <1>3
<1> QED BY <1>1, <1>4

LEMMA SumEmpty == Sum(<<>>) = 0
<1>1. <<>> \in Seq(Queued) /\ Len(<<>>) = 0
  OBVIOUS
<1>2. SumsTo(<<>>, 0, [i \in 0 .. 0 |-> 0])
  BY DEF SumsTo
<1>3. Sum(<<>>) = [i \in 0 .. 0 |-> 0][0]
  BY <1>1, <1>2, SumIs
<1> QED BY <1>3

\* One datagram more adds its length.
LEMMA SumAppend ==
    ASSUME NEW q \in Seq(Queued), NEW e \in Queued
    PROVE  Sum(Append(q, e)) = Sum(q) + e.len
<1> DEFINE n == Len(q)
           r == Append(q, e)
<1>1. PICK f : SumsTo(q, n, f)
  BY SumsExist
<1>2. n \in Nat /\ e.len \in Nat /\ r \in Seq(Queued) /\ Len(r) = n + 1
      /\ r[n + 1] = e /\ \A i \in 1 .. n : r[i] = q[i]
  BY DEF Queued
<1> DEFINE g == [i \in 0 .. n + 1 |-> IF i = n + 1 THEN f[n] + e.len ELSE f[i]]
<1> HIDE DEF n, r
<1>3. SumsTo(r, n + 1, g)
  <2>1. \A i \in 0 .. n + 1 : i # n + 1 => i \in 0 .. n
    BY <1>2
  <2>2. n \in 0 .. n /\ f \in [0 .. n -> Nat]
    BY <1>1, <1>2 DEF SumsTo
  <2>3. g \in [0 .. n + 1 -> Nat]
    BY <1>2, <2>1, <2>2
  <2>4. g[0] = 0
    BY <1>1, <1>2 DEF SumsTo
  <2>5. ASSUME NEW i \in 1 .. n + 1 PROVE g[i] = g[i - 1] + r[i].len
    <3>1. i - 1 \in 0 .. n + 1 /\ i - 1 # n + 1 /\ i \in 0 .. n + 1
      BY <1>2
    <3>2. CASE i = n + 1
      <4>1. i - 1 = n
        BY <1>2, <3>2
      <4> QED BY <1>2, <3>1, <3>2, <4>1
    <3>3. CASE i # n + 1
      <4>1. i \in 1 .. n
        BY <1>2, <3>3
      <4> QED BY <1>1, <1>2, <3>1, <3>3, <4>1 DEF SumsTo
    <3> QED BY <3>2, <3>3
  <2> HIDE DEF g
  <2> QED BY <2>3, <2>4, <2>5 DEF SumsTo
<1>4. Sum(r) = g[n + 1] /\ Sum(q) = f[n]
  <2> HIDE DEF g
  <2>1. Sum(r) = g[n + 1]
    BY <1>2, <1>3, SumIs
  <2>2. Sum(q) = f[n]
    BY <1>1, SumIs DEF n
  <2> QED BY <2>1, <2>2
<1>5. g[n + 1] = f[n] + e.len
  BY <1>2
<1> QED BY <1>4, <1>5 DEF r

\* Taking the first one subtracts its length.
LEMMA SumTail ==
    ASSUME NEW q \in Seq(Queued), q # <<>>
    PROVE  /\ Tail(q) \in Seq(Queued) /\ Len(Tail(q)) = Len(q) - 1
           /\ \A i \in 1 .. Len(q) - 1 : Tail(q)[i] = q[i + 1]
           /\ q[1] \in Queued
           /\ Sum(Tail(q)) = Sum(q) - q[1].len
<1> DEFINE n == Len(q)
           r == Tail(q)
<1>2. n \in Nat \ {0} /\ q[1] \in Queued /\ r \in Seq(Queued) /\ Len(r) = n - 1
      /\ \A i \in 1 .. n - 1 : r[i] = q[i + 1]
  <2>1. n \in Nat /\ n # 0
    BY EmptySeq
  <2>2. r \in Seq(Queued) /\ Len(r) = n - 1 /\ \A i \in 1 .. n - 1 : r[i] = q[i + 1]
    BY HeadTailProperties
  <2>3. 1 \in 1 .. n
    BY <2>1
  <2> QED BY <2>1, <2>2, <2>3, ElementOfSeq
<1>1. PICK f : SumsTo(r, n - 1, f)
  <2> HIDE DEF n, r
  <2> QED BY <1>2, SumsExist
<1>3. q[1].len \in Nat
  BY <1>2 DEF Queued
<1> DEFINE g == [i \in 0 .. n |-> IF i = 0 THEN 0 ELSE f[i - 1] + q[1].len]
<1> HIDE DEF n, r
<1>4. SumsTo(q, n, g)
  <2>1. \A i \in 1 .. n : i - 1 \in 0 .. n - 1 /\ i - 1 \in 0 .. n /\ i \in 0 .. n /\ i # 0
    BY <1>2
  <2>2. f \in [0 .. n - 1 -> Nat] /\ f[0] = 0
    BY <1>1 DEF SumsTo
  <2>3. g \in [0 .. n -> Nat]
    <3>1. \A i \in 0 .. n : i # 0 => i \in 1 .. n
      BY <1>2
    <3> QED BY <1>3, <2>1, <2>2, <3>1
  <2>4. g[0] = 0
    BY <1>2
  <2>5. ASSUME NEW i \in 1 .. n PROVE g[i] = g[i - 1] + q[i].len
    <3>1. g[i] = f[i - 1] + q[1].len
      BY <2>1
    <3>2. CASE i = 1
      <4>1. g[i - 1] = 0 /\ i - 1 = 0
        BY <2>4, <3>2
      <4> HIDE DEF g
      <4> QED BY <1>3, <2>2, <3>1, <3>2, <4>1
    <3>3. CASE i # 1
      <4>1. i - 1 \in 1 .. n - 1 /\ i - 1 \in 1 .. n /\ i - 2 \in 0 .. n - 1 /\ i - 1 - 1 = i - 2 /\ i - 1 + 1 = i
        BY <1>2, <3>3
      <4>2. g[i - 1] = f[i - 2] + q[1].len
        BY <2>1, <4>1
      <4>3. f[i - 1] = f[i - 2] + r[i - 1].len
        BY <1>1, <4>1 DEF SumsTo
      <4>4. r[i - 1] = q[i]
        BY <1>2, <4>1
      <4>5. f[i - 2] \in Nat /\ q[i].len \in Nat
        <5>1. q[i] \in Queued
          BY ElementOfSeq DEF n
        <5> QED BY <2>2, <4>1, <5>1 DEF Queued
      <4> HIDE DEF g
      <4> QED BY <1>3, <3>1, <4>2, <4>3, <4>4, <4>5
    <3> QED BY <3>2, <3>3
  <2> HIDE DEF g
  <2> QED BY <2>3, <2>4, <2>5 DEF SumsTo
<1>5. Sum(r) = f[n - 1] /\ Sum(q) = g[n]
  <2> HIDE DEF g
  <2>1. Sum(q) = g[n]
    BY <1>4, SumIs DEF n
  <2>2. Sum(r) = f[n - 1]
    BY <1>1, <1>2, SumIs
  <2> QED BY <2>1, <2>2
<1>6. g[n] = f[n - 1] + q[1].len /\ f[n - 1] \in Nat
  <2>1. n \in 0 .. n /\ n # 0 /\ n - 1 \in 0 .. n - 1
    BY <1>2
  <2> QED BY <1>1, <2>1 DEF SumsTo
<1>7. Sum(r) = Sum(q) - q[1].len
  <2> HIDE DEF g
  <2> QED BY <1>3, <1>5, <1>6
<1> QED BY <1>2, <1>7 DEF r, n

\* Sums of lengths are numbers.
LEMMA SumNat ==
    ASSUME NEW q \in Seq(Queued)
    PROVE  Sum(q) \in Nat
<1>1. PICK f : SumsTo(q, Len(q), f)
  BY SumsExist
<1>2. Len(q) \in 0 .. Len(q)
  OBVIOUS
<1>3. f[Len(q)] \in Nat
  BY <1>1, <1>2 DEF SumsTo
<1> QED BY <1>1, <1>3, SumIs

-----------------------------------------------------------------------------
(***************************************************************************)
(* The inductive invariant                                                 *)
(***************************************************************************)
InData == [bound : BOOLEAN, addr : Addrs, port : Ports \cup {0}, dst : Peers \cup {None},
           err : BOOLEAN, q : Seq(Queued), curlen : Nat, live : BOOLEAN]

Sock == [state : {"VIRGIN", "UNCONNECTED", "DISCONNECTED"}, type : Types \cup {None},
         rcv : BOOLEAN, snd : BOOLEAN, reader : {"out", "asleep"}]

\* Data that a socket of this type may have in this state: it is there as long
\* as the socket is usable, and only a bound one has a queue.
GoodData(d, type, state) ==
    /\ d \in InData
    /\ d.live <=> state = "UNCONNECTED"
    /\ d.bound => d.live
    /\ d.q # <<>> => d.bound
    /\ d.curlen = Sum(d.q) /\ d.curlen <= MaxData
    /\ type = "udp" => \A i \in DOMAIN d.q : d.q[i].port = d.port

GoodSock(k) ==
    /\ k \in Sock
    /\ k.state # "VIRGIN" => k.type \in Types

\* The list l holds the members of S, each once.
Holds(l, S) ==
    /\ l \in Seq(Socks)
    /\ Elements(l) = S
    /\ \A i, j \in DOMAIN l : l[i] = l[j] => i = j

Alive(t) == {s \in Socks : data[s].live /\ so[s].type = t}

Lists ==
    /\ datas \in [Types -> Seq(Socks)]
    /\ \A t \in Types : Holds(datas[t], Alive(t))

DgramInv ==
    /\ so \in [Socks -> Sock]
    /\ \A s \in Socks : GoodSock(so[s])
    /\ data \in [Socks -> InData]
    /\ \A s \in Socks : GoodData(data[s], so[s].type, so[s].state)
    /\ Lists
    /\ lastport \in Ports
    /\ PortsUnique
    /\ owners = 1

\* The invariant is what the socket layer promises, and more.
LEMMA DgramInvIs == DgramInv => SocketInv
<1> SUFFICES ASSUME DgramInv PROVE SocketInv
  OBVIOUS
<1>1. QueuesExact
  BY DEF DgramInv, Lists, Holds, Alive, GoodData, QueuesExact
<1>2. ReaderSafe
  BY DEF DgramInv, Sock, ReaderSafe
<1> QED BY <1>1, <1>2 DEF DgramInv, SocketInv, BufferOnce

-----------------------------------------------------------------------------
(***************************************************************************)
(* What becomes of the data of one socket                                  *)
(***************************************************************************)
LEMMA NoDataGood ==
    ASSUME DgramAssumption, NEW type, NEW state, state # "UNCONNECTED"
    PROVE  GoodData(NoData, type, state)
<1>1. NoData \in InData
  <2>1. <<>> \in Seq(Queued)
    OBVIOUS
  <2> QED BY <2>1 DEF NoData, InData, Addrs
<1>2. Sum(<<>>) = 0 /\ MaxData \in Nat
  BY SumEmpty DEF DgramAssumption
<1> QED BY <1>1, <1>2 DEF NoData, GoodData

LEMMA NewDataGood ==
    ASSUME DgramAssumption, NEW type
    PROVE  GoodData(NewData, type, "UNCONNECTED")
<1>1. NewData \in InData
  <2>1. <<>> \in Seq(Queued)
    OBVIOUS
  <2> QED BY <2>1 DEF NoData, NewData, InData, Addrs
<1>2. Sum(<<>>) = 0 /\ MaxData \in Nat
  BY SumEmpty DEF DgramAssumption
<1> QED BY <1>1, <1>2 DEF NoData, NewData, GoodData

\* An error is noted or reported, a peer is remembered or forgotten.
LEMMA ErrGood ==
    ASSUME NEW type, NEW state, NEW d, GoodData(d, type, state), NEW e \in BOOLEAN
    PROVE  /\ GoodData([d EXCEPT !.err = e], type, state)
           /\ [d EXCEPT !.err = e].bound = d.bound
           /\ [d EXCEPT !.err = e].port = d.port /\ [d EXCEPT !.err = e].addr = d.addr
BY DEF GoodData, InData

LEMMA DstGood ==
    ASSUME NEW type, NEW state, NEW d, GoodData(d, type, state), NEW p \in Peers \cup {None}
    PROVE  /\ GoodData([d EXCEPT !.dst = p], type, state)
           /\ [d EXCEPT !.dst = p].bound = d.bound
           /\ [d EXCEPT !.dst = p].port = d.port /\ [d EXCEPT !.dst = p].addr = d.addr
BY DEF GoodData, InData

\* A socket that is not bound has nothing in its queue for another port.
LEMMA BoundGood ==
    ASSUME NEW type, NEW d, GoodData(d, type, "UNCONNECTED"), ~d.bound,
           NEW a \in Addrs, NEW p \in Ports \cup {0}
    PROVE  GoodData([d EXCEPT !.bound = TRUE, !.addr = a, !.port = p], type, "UNCONNECTED")
<1> DEFINE e == [d EXCEPT !.bound = TRUE, !.addr = a, !.port = p]
<1>1. d \in InData /\ d.q = <<>> /\ d.live
  BY DEF GoodData
<1>2. /\ e \in InData /\ e.q = d.q /\ e.live = d.live /\ e.bound = TRUE
      /\ e.curlen = d.curlen
  BY <1>1 DEF InData
<1>3. DOMAIN d.q = {}
  BY <1>1
<1> HIDE DEF e
<1>4. GoodData(e, type, "UNCONNECTED")
  BY <1>1, <1>2, <1>3 DEF GoodData
<1> QED BY <1>4 DEF e

\* The head of a queue is taken out.
LEMMA TakenGood ==
    ASSUME NEW type, NEW state, NEW d, GoodData(d, type, state), d.q # <<>>, DgramAssumption
    PROVE  /\ GoodData(Taken(d), type, state)
           /\ Taken(d).bound = d.bound /\ Taken(d).port = d.port /\ Taken(d).addr = d.addr
<1> DEFINE r == Tail(d.q)
           c == IF Len(d.q) = 1 THEN 0 ELSE d.curlen - Head(d.q).len
           e == Taken(d)
<1>1. d \in InData /\ d.q \in Seq(Queued) /\ d.curlen \in Nat
  BY DEF GoodData, InData
<1>2. /\ r \in Seq(Queued) /\ Len(r) = Len(d.q) - 1
      /\ \A i \in 1 .. Len(d.q) - 1 : r[i] = d.q[i + 1]
      /\ d.q[1] \in Queued
      /\ Sum(r) = Sum(d.q) - d.q[1].len
  BY <1>1, SumTail
<1>3. Head(d.q) = d.q[1] /\ d.q[1].len \in Nat
  BY <1>2 DEF Queued
<1>4. c = Sum(r)
  <2>1. CASE Len(d.q) = 1
    <3>1. r = <<>>
      <4>1. r \in Seq(Queued) /\ Len(r) = 0
        BY <1>2, <2>1
      <4> HIDE DEF r
      <4> QED BY <4>1, EmptySeq
    <3> QED BY <2>1, <3>1, SumEmpty
  <2>2. CASE Len(d.q) # 1
    BY <1>2, <1>3, <2>2 DEF GoodData
  <2> QED BY <2>1, <2>2
<1>5. e = [d EXCEPT !.q = r, !.curlen = c]
  BY DEF Taken
<1>6. c \in Nat /\ c <= d.curlen
  <2>1. CASE Len(d.q) = 1
    BY <1>1, <2>1
  <2>2. CASE Len(d.q) # 1
    <3>1. Sum(r) \in Nat
      BY <1>2, SumNat
    <3>2. c = d.curlen - d.q[1].len
      BY <1>3, <2>2
    <3> HIDE DEF c
    <3> QED BY <1>1, <1>3, <1>4, <3>1, <3>2
  <2> QED BY <2>1, <2>2
<1> HIDE DEF r, c, e
<1>7. /\ e \in InData /\ e.q = r /\ e.curlen = c /\ e.bound = d.bound /\ e.live = d.live
      /\ e.port = d.port /\ e.addr = d.addr
  BY <1>1, <1>2, <1>5, <1>6 DEF InData
<1>8. type = "udp" => \A i \in DOMAIN r : r[i].port = d.port
  <2> SUFFICES ASSUME type = "udp", NEW i \in DOMAIN r PROVE r[i].port = d.port
    OBVIOUS
  <2>1. i \in 1 .. Len(d.q) - 1 /\ i + 1 \in 1 .. Len(d.q) /\ DOMAIN d.q = 1 .. Len(d.q)
    BY <1>1, <1>2
  <2> QED BY <1>2, <2>1 DEF GoodData
<1>9. e.curlen <= MaxData
  BY <1>1, <1>6, <1>7 DEF GoodData, DgramAssumption
<1> QED BY <1>4, <1>7, <1>8, <1>9 DEF GoodData, e

\* The data d with the datagram e at the end of the queue
IsQueued(d, e, f) == f = [d EXCEPT !.q = Append(@, e), !.curlen = @ + e.len]

\* The datagram e may be put there: it fits, and is for the socket.
MayQueue(d, type, state, e) ==
    /\ GoodData(d, type, state) /\ d.bound
    /\ e \in Queued /\ e.len + d.curlen <= MaxData
    /\ type = "udp" => e.port = d.port

\* A datagram is put at the end of a queue with room for it.
LEMMA QueueGood ==
    ASSUME DgramAssumption, NEW type, NEW state, NEW d, NEW e, NEW f,
           MayQueue(d, type, state, e), IsQueued(d, e, f)
    PROVE  /\ GoodData(f, type, state)
           /\ f.bound = d.bound /\ f.port = d.port /\ f.addr = d.addr /\ f.live = d.live
<1>0. /\ GoodData(d, type, state) /\ d.bound /\ e \in Queued
      /\ e.len + d.curlen <= MaxData /\ (type = "udp" => e.port = d.port)
  BY DEF MayQueue
<1> DEFINE r == Append(d.q, e)
<1>1. d \in InData /\ d.q \in Seq(Queued) /\ d.curlen \in Nat /\ e.len \in Nat /\ d.curlen = Sum(d.q)
  BY <1>0 DEF GoodData, InData, Queued
<1>2. /\ r \in Seq(Queued) /\ Len(r) = Len(d.q) + 1 /\ r[Len(d.q) + 1] = e
      /\ \A i \in 1 .. Len(d.q) : r[i] = d.q[i]
  BY <1>0, <1>1
<1>3. Sum(r) = d.curlen + e.len
  BY <1>0, <1>1, SumAppend
<1>4. f = [d EXCEPT !.q = r, !.curlen = d.curlen + e.len] /\ d.curlen + e.len \in Nat
  BY <1>1 DEF IsQueued
<1> HIDE DEF r
<1>5. /\ f \in InData /\ f.q = r /\ f.curlen = d.curlen + e.len /\ f.bound = d.bound
      /\ f.live = d.live /\ f.port = d.port /\ f.addr = d.addr
  BY <1>1, <1>2, <1>4 DEF InData
<1>6. type = "udp" => \A i \in DOMAIN r : r[i].port = d.port
  <2> SUFFICES ASSUME type = "udp", NEW i \in DOMAIN r PROVE r[i].port = d.port
    OBVIOUS
  <2>1. i = Len(d.q) + 1 \/ (i \in 1 .. Len(d.q) /\ i \in DOMAIN d.q)
    BY <1>1, <1>2
  <2>2. e.port = d.port /\ \A j \in DOMAIN d.q : d.q[j].port = d.port
    BY <1>0 DEF GoodData
  <2> QED BY <1>2, <2>1, <2>2
<1>7. f.curlen <= MaxData
  BY <1>0, <1>1, <1>5 DEF DgramAssumption
<1>8. f.live <=> state = "UNCONNECTED"
  BY <1>0, <1>5 DEF GoodData
<1>9. f.bound => f.live
  BY <1>0, <1>5 DEF GoodData
<1> QED BY <1>0, <1>3, <1>5, <1>6, <1>7, <1>8, <1>9 DEF GoodData

-----------------------------------------------------------------------------
(***************************************************************************)
(* Ports                                                                   *)
(***************************************************************************)
\* There are ports for all sockets, so one that has none yet finds a port that
\* is free.
LEMMA PortAllocIs ==
    ASSUME DgramAssumption, DgramInv, NEW s \in Socks, ~data[s].bound, NEW t
    PROVE  port_alloc(t) \in Ports /\ ~PortUsed(t, port_alloc(t))
<1> DEFINE free == {p \in Ports : ~PortUsed(t, p)}
           up   == {p \in free : p > lastport}
           from == IF up # {} THEN up ELSE free
<1>1. free # {}
  <2> SUFFICES ASSUME free = {} PROVE FALSE
    OBVIOUS
  <2> DEFINE S == Socks \ {s}
             f == [p \in Ports |-> CHOOSE r \in S : data[r].bound /\ data[r].port = p]
  <2>1. \A p \in Ports : \E r \in S : data[r].bound /\ data[r].port = p
    BY DEF PortUsed
  <2>2. f \in [Ports -> S] /\ \A p \in Ports : data[f[p]].port = p
    BY <2>1
  <2>3. IsFiniteSet(S) /\ Cardinality(S) < Cardinality(Ports) /\ IsFiniteSet(Ports)
    <3>1. IsFiniteSet(Socks) /\ IsFiniteSet(Ports) /\ Cardinality(Socks) <= Cardinality(Ports)
      BY DEF DgramAssumption
    <3>2. IsFiniteSet(S) /\ Cardinality(S) = Cardinality(Socks) - 1
      BY <3>1, FS_RemoveElement
    <3>3. Cardinality(Socks) \in Nat /\ Cardinality(Ports) \in Nat
      BY <3>1, FS_CardinalityType
    <3> QED BY <3>1, <3>2, <3>3
  <2> HIDE DEF f, S
  <2>4. \E p, r \in Ports : p # r /\ f[p] = f[r]
    <3>1. f \in [Ports -> S]
      BY <2>2
    <3> QED BY ONLY <2>3, <3>1, FS_PigeonHole
  <2> QED BY <2>2, <2>4
<1>2. from # {} /\ from \subseteq free /\ from \subseteq Nat
  BY <1>1 DEF DgramAssumption
<1>3. port_alloc(t) = CHOOSE p \in from : \A r \in from : p <= r
  BY DEF port_alloc
<1>4. port_alloc(t) \in from
  <2> HIDE DEF from
  <2>1. \E p \in from : \A r \in from : p <= r
    BY <1>2, LeastIs
  <2> QED BY <1>3, <2>1
<1>5. port_alloc(t) \in free
  <2> HIDE DEF from, free
  <2> QED BY <1>2, <1>4
<1> QED BY <1>5

\* No other UDP socket has the address and the port of d.
Apart(s, d) ==
    d.bound /\ so[s].type = "udp" =>
        \A r \in Socks \ {s} :
            so[r].type = "udp" /\ data[r].bound => ~(data[r].port = d.port /\ data[r].addr = d.addr)

LEMMA StaysApart ==
    ASSUME DgramInv, NEW s \in Socks, NEW d,
           d.bound = data[s].bound, d.port = data[s].port, d.addr = data[s].addr
    PROVE  Apart(s, d)
BY DEF DgramInv, PortsUnique, Apart

\* A port that port_alloc found is used by no socket, whatever its address.
LEMMA FreeApart ==
    ASSUME DgramInv, NEW s \in Socks, NEW d,
           so[s].type = "udp" => ~PortUsed("udp", d.port)
    PROVE  Apart(s, d)
<1> SUFFICES ASSUME so[s].type = "udp", NEW r \in Socks, so[r].type = "udp", data[r].bound,
                    data[r].port = d.port
             PROVE  FALSE
  BY DEF Apart
<1>1. data[r].live
  BY DEF DgramInv, GoodData
<1> QED BY <1>1 DEF PortUsed

\* What inet_autobind makes of a socket
LEMMA AutoboundIs ==
    ASSUME DgramAssumption, DgramInv, NEW s \in Socks, Usable(s)
    PROVE  /\ GoodData(Autobound(s), so[s].type, so[s].state)
           /\ Autobound(s).bound /\ Autobound(s).q = data[s].q
           /\ Apart(s, Autobound(s))
           /\ Lastport(s) \in Ports
<1>1. GoodData(data[s], so[s].type, "UNCONNECTED") /\ so[s].state = "UNCONNECTED" /\ so[s].type \in Types
  BY DEF DgramInv, GoodSock, Usable
<1>2. lastport \in Ports
  BY DEF DgramInv
<1>3. CASE data[s].bound
  BY <1>1, <1>2, <1>3, StaysApart DEF Autobound, Lastport
<1>4. CASE ~data[s].bound
  <2> DEFINE p == AutoPort(s)
             d == [data[s] EXCEPT !.bound = TRUE, !.addr = ANY, !.port = p]
  <2>1. p \in Ports \cup {0} /\ (so[s].type = "udp" => p \in Ports /\ ~PortUsed("udp", p))
    BY <1>1, <1>4, PortAllocIs DEF AutoPort, Types
  <2>2. Lastport(s) \in Ports
    BY <1>1, <1>2, <1>4, <2>1 DEF Lastport, Types
  <2>3. Autobound(s) = d
    BY <1>4 DEF Autobound
  <2>4. data[s] \in InData
    BY DEF DgramInv
  <2> HIDE DEF p
  <2>5. d.bound /\ d.q = data[s].q /\ d.port = p
    BY <2>4 DEF InData
  <2>6. GoodData(d, so[s].type, "UNCONNECTED")
    BY <1>1, <1>4, <2>1, BoundGood DEF Addrs
  <2>7. Apart(s, d)
    BY <2>1, <2>5, FreeApart
  <2> HIDE DEF d
  <2> QED BY <1>1, <2>2, <2>3, <2>5, <2>6, <2>7
<1> QED BY <1>3, <1>4

-----------------------------------------------------------------------------
(***************************************************************************)
(* The lists of the protocols                                              *)
(***************************************************************************)
LEMMA PutHolds ==
    ASSUME NEW l, NEW S, Holds(l, S), NEW s \in Socks, s \notin S
    PROVE  Holds(<<s>> \o l, S \cup {s})
<1> DEFINE r == <<s>> \o l
<1>1. l \in Seq(Socks) /\ DOMAIN l = 1 .. Len(l) /\ Len(l) \in Nat
  BY DEF Holds
<1>2. /\ r \in Seq(Socks) /\ DOMAIN r = 1 .. Len(l) + 1
      /\ r[1] = s /\ \A i \in 1 .. Len(l) : r[i + 1] = l[i]
  BY <1>1
<1> HIDE DEF r
<1>3. \A i \in 1 .. Len(l) + 1 : i = 1 \/ (i - 1 \in 1 .. Len(l) /\ r[i] = l[i - 1])
  <2> SUFFICES ASSUME NEW i \in 1 .. Len(l) + 1, i # 1
               PROVE  i - 1 \in 1 .. Len(l) /\ r[i] = l[i - 1]
    OBVIOUS
  <2>1. i - 1 \in 1 .. Len(l) /\ i - 1 + 1 = i
    BY <1>1
  <2> QED BY <1>2, <2>1
<1>4. Elements(r) = S \cup {s}
  <2>1. \A i \in DOMAIN r : r[i] \in S \cup {s}
    <3> SUFFICES ASSUME NEW i \in DOMAIN r PROVE r[i] \in S \cup {s}
      OBVIOUS
    <3>1. i \in 1 .. Len(l) + 1
      BY <1>2
    <3>2. CASE i = 1
      BY <1>2, <3>2
    <3>3. CASE i # 1
      <4>1. i - 1 \in DOMAIN l /\ r[i] = l[i - 1]
        BY <1>1, <1>3, <3>1, <3>3
      <4> QED BY <4>1 DEF Holds, Elements
    <3> QED BY <3>2, <3>3
  <2>2. s \in Elements(r)
    <3>1. 1 \in DOMAIN r
      BY <1>1, <1>2
    <3> QED BY <1>2, <3>1 DEF Elements
  <2>3. ASSUME NEW x \in S PROVE x \in Elements(r)
    <3>1. PICK i \in 1 .. Len(l) : l[i] = x
      BY <1>1 DEF Holds, Elements
    <3>2. i + 1 \in DOMAIN r
      BY <1>1, <1>2
    <3> QED BY <1>2, <3>1, <3>2 DEF Elements
  <2> QED BY <2>1, <2>2, <2>3 DEF Elements
<1>5. ASSUME NEW i \in DOMAIN r, NEW j \in DOMAIN r, r[i] = r[j] PROVE i = j
  <2>1. \A k \in 1 .. Len(l) : l[k] # s
    BY <1>1 DEF Holds, Elements
  <2>2. i \in 1 .. Len(l) + 1 /\ j \in 1 .. Len(l) + 1
    BY <1>2
  <2>3. CASE i = 1 \/ j = 1
    BY <1>2, <1>3, <1>5, <2>1, <2>2, <2>3
  <2>4. CASE i # 1 /\ j # 1
    <3>1. i - 1 \in DOMAIN l /\ j - 1 \in DOMAIN l /\ l[i - 1] = l[j - 1]
      BY <1>1, <1>3, <1>5, <2>2, <2>4
    <3>2. i - 1 = j - 1
      BY <3>1 DEF Holds
    <3> QED BY <2>2, <3>2
  <2> QED BY <2>3, <2>4
<1>6. Holds(r, S \cup {s})
  BY <1>2, <1>4, <1>5 DEF Holds
<1> QED BY <1>6 DEF r

LEMMA RemovedHolds ==
    ASSUME NEW l, NEW S, Holds(l, S), NEW s \in Socks
    PROVE  Holds(Removed(l, s), S \ {s})
<1>1. l \in Seq(Socks) /\ DOMAIN l = 1 .. Len(l) /\ Len(l) \in Nat
  BY DEF Holds
<1>2. CASE ~\E i \in DOMAIN l : l[i] = s
  <2>1. Removed(l, s) = l /\ S \ {s} = S
    BY <1>2 DEF Removed, Holds, Elements
  <2> QED BY <2>1
<1>3. CASE \E i \in DOMAIN l : l[i] = s
  <2> DEFINE n == Len(l)
             at == CHOOSE i \in DOMAIN l : l[i] = s
             r == [i \in 1 .. n - 1 |-> IF i < at THEN l[i] ELSE l[i + 1]]
  <2>1. at \in 1 .. n /\ l[at] = s
    BY <1>1, <1>3
  <2>2. Removed(l, s) = r
    BY <1>3 DEF Removed
  <2>3. \A i \in 1 .. n : l[i] = s => i = at
    BY <1>1, <2>1 DEF Holds
  <2> HIDE DEF at
  <2> DEFINE old(i) == IF i < at THEN i ELSE i + 1
  <2>4. ASSUME NEW i \in 1 .. n - 1
        PROVE  old(i) \in 1 .. n /\ old(i) # at /\ r[i] = l[old(i)]
    <3>1. i \in Nat /\ n \in Nat /\ at \in Nat /\ i >= 1 /\ i <= n - 1
      BY <1>1, <2>1
    <3>2. CASE i < at
      BY <2>1, <3>1, <3>2
    <3>3. CASE ~(i < at)
      BY <2>1, <3>1, <3>3
    <3> QED BY <3>2, <3>3
  <2>5. ASSUME NEW k \in 1 .. n, k # at
        PROVE  \E i \in 1 .. n - 1 : old(i) = k
    <3>1. k \in Nat /\ n \in Nat /\ at \in Nat /\ k >= 1 /\ k <= n /\ at >= 1 /\ at <= n
      BY <1>1, <2>1
    <3>2. CASE k < at
      <4>1. k \in 1 .. n - 1 /\ old(k) = k
        BY <3>1, <3>2
      <4> QED BY <4>1
    <3>3. CASE k > at
      <4>1. k - 1 \in 1 .. n - 1 /\ old(k - 1) = k
        BY <3>1, <3>3
      <4> QED BY <4>1
    <3> QED BY <2>5, <3>1, <3>2, <3>3
  <2>6. ASSUME NEW i \in 1 .. n - 1, NEW j \in 1 .. n - 1, old(i) = old(j) PROVE i = j
    <3>1. i \in Nat /\ j \in Nat /\ at \in Nat
      BY <1>1, <2>1
    <3> QED BY <2>6, <3>1
  <2>7. DOMAIN r = 1 .. n - 1
    OBVIOUS
  <2>8. r \in Seq(Socks) /\ n - 1 \in Nat
    <3>1. n - 1 \in Nat
      BY <1>1, <2>1
    <3>2. \A k \in 1 .. n : l[k] \in Socks
      BY <1>1
    <3>3. \A i \in 1 .. n - 1 : r[i] \in Socks
      BY <2>4, <3>2
    <3>4. r \in [1 .. n - 1 -> Socks]
      BY <3>3
    <3> HIDE DEF r, n
    <3> QED BY <3>1, <3>4, SeqDef
  <2> HIDE DEF r, old
  <2>9. Elements(r) = S \ {s}
    <3>1. ASSUME NEW i \in 1 .. n - 1 PROVE r[i] \in S \ {s}
      <4>1. l[old(i)] # s /\ r[i] = l[old(i)] /\ old(i) \in DOMAIN l
        BY <1>1, <2>3, <2>4
      <4> QED BY <4>1 DEF Holds, Elements
    <3>2. ASSUME NEW x \in S \ {s} PROVE \E i \in 1 .. n - 1 : r[i] = x
      <4>1. PICK k \in 1 .. n : l[k] = x
        BY <1>1 DEF Holds, Elements
      <4>2. k # at
        BY <2>1, <4>1
      <4>3. PICK i \in 1 .. n - 1 : old(i) = k
        BY <2>5, <4>2
      <4> QED BY <2>4, <4>1, <4>3
    <3> QED BY <2>7, <3>1, <3>2 DEF Elements
  <2>10. ASSUME NEW i \in 1 .. n - 1, NEW j \in 1 .. n - 1, r[i] = r[j] PROVE i = j
    <3>1. l[old(i)] = l[old(j)] /\ old(i) \in DOMAIN l /\ old(j) \in DOMAIN l
      BY <1>1, <2>4, <2>10
    <3>2. old(i) = old(j)
      BY <3>1 DEF Holds
    <3> QED BY <2>6, <3>2
  <2> QED BY <2>2, <2>7, <2>8, <2>9, <2>10 DEF Holds
<1> QED BY <1>2, <1>3

-----------------------------------------------------------------------------
(***************************************************************************)
(* What the handlers have in common                                        *)
(***************************************************************************)
\* The data of one socket changes, but not whether it is there.
OneData(s, d) ==
    /\ data' = [data EXCEPT ![s] = d]
    /\ so' \in [Socks -> Sock] /\ \A r \in Socks : so'[r].type = so[r].type /\ so'[r].state = so[r].state
    /\ GoodData(d, so[s].type, so[s].state)
    /\ Apart(s, d)
    /\ datas' = datas
    /\ lastport' \in Ports
    /\ owners' = 1

LEMMA OneDataInv ==
    ASSUME DgramInv, NEW s \in Socks, NEW d, OneData(s, d)
    PROVE  DgramInv'
<1>1. /\ so' \in [Socks -> Sock]
      /\ \A r \in Socks : so'[r].type = so[r].type /\ so'[r].state = so[r].state
  BY DEF OneData
<1>2. \A r \in Socks : GoodSock(so'[r])
  BY <1>1 DEF DgramInv, GoodSock
<1>3. d \in InData /\ data \in [Socks -> InData]
  BY DEF DgramInv, OneData, GoodData
<1>4. /\ data' \in [Socks -> InData] /\ data'[s] = d
      /\ \A r \in Socks \ {s} : data'[r] = data[r]
  BY <1>3 DEF OneData
<1>5. \A r \in Socks : GoodData(data'[r], so'[r].type, so'[r].state)
  BY <1>1, <1>4 DEF OneData, DgramInv
<1>6. \A r \in Socks : data'[r].live = data[r].live
  <2>1. \A r \in Socks : data'[r].live <=> data[r].live
    BY <1>1, <1>5 DEF DgramInv, GoodData
  <2>2. \A r \in Socks : data'[r].live \in BOOLEAN /\ data[r].live \in BOOLEAN
    BY <1>4 DEF DgramInv, InData
  <2> QED BY <2>1, <2>2
<1>7. \A t : Alive(t)' = Alive(t)
  BY <1>1, <1>6 DEF Alive
<1>8. Lists'
  BY <1>7 DEF DgramInv, Lists, OneData, Holds
<1>9. PortsUnique'
  <2> SUFFICES ASSUME NEW r \in Socks, NEW t \in Socks, so[r].type = "udp", so[t].type = "udp",
                      data'[r].bound, data'[t].bound,
                      data'[r].port = data'[t].port, data'[r].addr = data'[t].addr
               PROVE  r = t
    BY <1>1 DEF PortsUnique
  <2>1. CASE r # s /\ t # s
    BY <1>4, <2>1 DEF DgramInv, PortsUnique
  <2>2. CASE r = s /\ t # s
    BY <1>4, <2>2 DEF OneData, Apart
  <2>3. CASE r # s /\ t = s
    BY <1>4, <2>3 DEF OneData, Apart
  <2> QED BY <2>1, <2>2, <2>3
<1> QED BY <1>1, <1>2, <1>4, <1>5, <1>8, <1>9 DEF DgramInv, OneData

\* Only where readers are, or the flags of shutdown, changes.
LEMMA OnlySocks ==
    ASSUME DgramInv, so' \in [Socks -> Sock],
           \A r \in Socks : so'[r].type = so[r].type /\ so'[r].state = so[r].state,
           data' = data, datas' = datas, lastport' \in Ports, owners' = owners
    PROVE  DgramInv'
<1>1. \A r \in Socks : GoodSock(so'[r])
  BY DEF DgramInv, GoodSock
<1>2. \A t : Alive(t)' = Alive(t)
  BY DEF Alive
<1>3. Lists'
  BY <1>2 DEF DgramInv, Lists, Holds
<1>4. PortsUnique'
  BY DEF DgramInv, PortsUnique
<1> QED BY <1>1, <1>3, <1>4 DEF DgramInv

\* A socket k gets other data and a state that fits, and the lists follow.
ListsFollow(s, k, d) ==
    /\ so' = [so EXCEPT ![s] = k] /\ GoodSock(k)
    /\ data' = [data EXCEPT ![s] = d] /\ GoodData(d, k.type, k.state)
    /\ ~d.bound
    /\ datas' \in [Types -> Seq(Socks)]
    /\ \A t \in Types :
          Holds(datas'[t], IF d.live /\ k.type = t THEN Alive(t) \cup {s} ELSE Alive(t) \ {s})
    /\ lastport' \in Ports
    /\ owners' = owners

LEMMA ListsFollowInv ==
    ASSUME DgramInv, NEW s \in Socks, NEW k, NEW d, ListsFollow(s, k, d)
    PROVE  DgramInv'
<1>1. /\ so' \in [Socks -> Sock] /\ so'[s] = k
      /\ \A r \in Socks \ {s} : so'[r] = so[r]
  BY DEF DgramInv, ListsFollow, GoodSock
<1>2. /\ data' \in [Socks -> InData] /\ data'[s] = d
      /\ \A r \in Socks \ {s} : data'[r] = data[r]
  BY DEF DgramInv, ListsFollow, GoodData
<1>3. \A r \in Socks : GoodSock(so'[r]) /\ GoodData(data'[r], so'[r].type, so'[r].state)
  BY <1>1, <1>2 DEF DgramInv, ListsFollow
<1>4. \A t \in Types : Alive(t)' = IF d.live /\ k.type = t THEN Alive(t) \cup {s} ELSE Alive(t) \ {s}
  BY <1>1, <1>2 DEF Alive
<1>5. Lists'
  BY <1>4 DEF ListsFollow, Lists, Holds
<1>6. PortsUnique'
  <2> SUFFICES ASSUME NEW r \in Socks, NEW t \in Socks, so'[r].type = "udp", so'[t].type = "udp",
                      data'[r].bound, data'[t].bound,
                      data'[r].port = data'[t].port, data'[r].addr = data'[t].addr
               PROVE  r = t
    BY DEF PortsUnique
  <2>1. r # s /\ t # s
    BY <1>2 DEF ListsFollow
  <2> QED BY <1>1, <1>2, <2>1 DEF DgramInv, PortsUnique
<1> QED BY <1>1, <1>2, <1>3, <1>5, <1>6 DEF DgramInv, ListsFollow

-----------------------------------------------------------------------------
(***************************************************************************)
(* The calls                                                               *)
(***************************************************************************)
LEMMA SocketKeeps ==
    ASSUME DgramAssumption, DgramInv, NEW s \in Socks, NEW t \in Types, mgx_socket(s, t)
    PROVE  DgramInv'
<1> DEFINE k == [so[s] EXCEPT !.state = "UNCONNECTED", !.type = t]
<1>1. so[s] \in Sock /\ so[s].state = "VIRGIN"
  BY DEF DgramInv, mgx_socket
<1>2. GoodSock(k) /\ k.type = t /\ k.state = "UNCONNECTED"
  BY <1>1 DEF GoodSock, Sock
<1>3. so' = [so EXCEPT ![s] = k]
  BY DEF mgx_socket
<1>4. GoodData(NewData, t, "UNCONNECTED") /\ NewData.live /\ ~NewData.bound
  <2>1. GoodData(NewData, t, "UNCONNECTED")
    BY NewDataGood
  <2> QED BY <2>1 DEF NewData, NoData
<1>5. ~data[s].live
  BY <1>1 DEF DgramInv, GoodData
<1>6. \A u : s \notin Alive(u)
  BY <1>5 DEF Alive
<1>7. /\ datas \in [Types -> Seq(Socks)] /\ \A u \in Types : Holds(datas[u], Alive(u))
      /\ datas' = [datas EXCEPT ![t] = <<s>> \o @]
  BY DEF DgramInv, Lists, mgx_socket, inet_attach
<1>8. Holds(<<s>> \o datas[t], Alive(t) \cup {s})
  BY <1>6, <1>7, PutHolds
<1>9. /\ datas' \in [Types -> Seq(Socks)]
      /\ \A u \in Types : Holds(datas'[u], IF u = t THEN Alive(u) \cup {s} ELSE Alive(u) \ {s})
  <2>1. <<s>> \o datas[t] \in Seq(Socks)
    BY <1>8 DEF Holds
  <2>2. datas'[t] = <<s>> \o datas[t] /\ \A u \in Types : u # t => datas'[u] = datas[u]
    BY <1>7
  <2>3. datas' \in [Types -> Seq(Socks)]
    BY <1>7, <2>1
  <2>4. \A u \in Types : Alive(u) \ {s} = Alive(u)
    BY <1>6
  <2> QED BY <1>7, <1>8, <2>2, <2>3, <2>4
<1>10. data' = [data EXCEPT ![s] = NewData] /\ lastport' = lastport /\ lastport \in Ports /\ owners' = owners
  BY DEF mgx_socket, inet_attach, DgramInv
<1> HIDE DEF k
<1>11. ListsFollow(s, k, NewData)
  BY <1>2, <1>3, <1>4, <1>9, <1>10 DEF ListsFollow
<1> QED BY <1>11, ListsFollowInv

\* A socket loses its data, and its place in the list.
LEMMA ReleaseKeeps ==
    ASSUME DgramAssumption, DgramInv, NEW s \in Socks, so_release(s), NEW k, GoodSock(k),
           k.state # "UNCONNECTED", so' = [so EXCEPT ![s] = k], lastport' \in Ports, owners' = owners
    PROVE  DgramInv'
<1>1. so[s] \in Sock /\ GoodSock(so[s]) /\ GoodData(data[s], so[s].type, so[s].state) /\ data \in [Socks -> InData]
  BY DEF DgramInv
<1>2. datas \in [Types -> Seq(Socks)] /\ \A u \in Types : Holds(datas[u], Alive(u))
  BY DEF DgramInv, Lists
<1>3. CASE so[s].state \in {"VIRGIN", "DISCONNECTED"}
  <2>1. data' = data /\ datas' = datas
    BY <1>3 DEF so_release
  <2>2. ~data[s].live /\ ~data[s].bound /\ data[s].q = <<>>
    BY <1>1, <1>3 DEF GoodData
  <2>3. GoodData(data[s], k.type, k.state)
    BY <1>1, <2>2 DEF GoodData
  <2>4. data' = [data EXCEPT ![s] = data[s]]
    BY <1>1, <2>1
  <2>5. \A u \in Types : Alive(u) \ {s} = Alive(u)
    BY <2>2 DEF Alive
  <2>6. ListsFollow(s, k, data[s])
    BY <1>2, <2>1, <2>2, <2>3, <2>4, <2>5 DEF ListsFollow
  <2> QED BY <2>6, ListsFollowInv
<1>4. CASE so[s].state \notin {"VIRGIN", "DISCONNECTED"}
  <2> DEFINE t == so[s].type
  <2>1. so[s].state = "UNCONNECTED" /\ t \in Types
    BY <1>1, <1>4 DEF Sock, GoodSock
  <2>2. /\ data' = [data EXCEPT ![s] = NoData]
        /\ datas' = [datas EXCEPT ![t] = Removed(@, s)]
    BY <1>4 DEF so_release, in_data_destroy
  <2>3. GoodData(NoData, k.type, k.state) /\ ~NoData.live /\ ~NoData.bound
    <3>1. GoodData(NoData, k.type, k.state)
      BY NoDataGood
    <3> QED BY <3>1 DEF NoData
  <2>4. Holds(Removed(datas[t], s), Alive(t) \ {s})
    BY <1>2, <2>1, RemovedHolds
  <2>5. \A u \in Types : u # t => Alive(u) \ {s} = Alive(u)
    BY DEF Alive
  <2>6. /\ datas' \in [Types -> Seq(Socks)]
        /\ \A u \in Types : Holds(datas'[u], Alive(u) \ {s})
    <3>1. Removed(datas[t], s) \in Seq(Socks)
      BY <2>4 DEF Holds
    <3>2. datas'[t] = Removed(datas[t], s) /\ \A u \in Types : u # t => datas'[u] = datas[u]
      BY <1>2, <2>1, <2>2
    <3>3. datas' \in [Types -> Seq(Socks)]
      BY <1>2, <2>1, <2>2, <3>1
    <3> QED BY <1>2, <2>4, <2>5, <3>2, <3>3
  <2> HIDE DEF t
  <2>7. ListsFollow(s, k, NoData)
    BY <2>2, <2>3, <2>6 DEF ListsFollow
  <2> QED BY <2>7, ListsFollowInv
<1> QED BY <1>3, <1>4

LEMMA CloseKeeps ==
    ASSUME DgramAssumption, DgramInv, NEW s \in Socks, socket_close(s)
    PROVE  DgramInv'
<1>1. GoodSock(Virgin) /\ Virgin.state # "UNCONNECTED"
  BY DEF GoodSock, Sock, Virgin
<1>2. /\ so_release(s) /\ so' = [so EXCEPT ![s] = Virgin]
      /\ lastport' \in Ports /\ owners' = owners
  BY DEF socket_close, DgramInv
<1> HIDE DEF Virgin
<1> QED BY <1>1, <1>2, ReleaseKeeps

LEMMA ShutdownKeeps ==
    ASSUME DgramAssumption, DgramInv, NEW s \in Socks, NEW how, mgx_shutdown(s, how)
    PROVE  DgramInv'
<1> DEFINE rcv == so[s].rcv /\ how = 1
           snd == so[s].snd /\ how = 0
           k   == [so[s] EXCEPT !.rcv = rcv, !.snd = snd,
                                !.state = IF rcv \/ snd THEN @ ELSE "DISCONNECTED"]
<1>1. /\ Usable(s) /\ inet_shutdown(s, rcv, snd) /\ owners' = owners
      /\ so[s] \in Sock /\ GoodSock(so[s])
  BY DEF mgx_shutdown, DgramInv
<1>2. rcv \in BOOLEAN /\ snd \in BOOLEAN
  <2>1. so[s].rcv \in BOOLEAN /\ so[s].snd \in BOOLEAN
    BY <1>1 DEF Sock
  <2> QED BY <2>1
<1>3. so' = [so EXCEPT ![s] = k]
  BY <1>1, Zenon DEF inet_shutdown
<1>4. /\ GoodData(Autobound(s), so[s].type, so[s].state) /\ Apart(s, Autobound(s))
      /\ Lastport(s) \in Ports /\ so[s].state = "UNCONNECTED" /\ so[s].type \in Types
  BY <1>1, AutoboundIs DEF Usable, GoodSock
<1> HIDE DEF rcv, snd
<1>5. GoodSock(k) /\ k.type = so[s].type /\ k.state = IF rcv \/ snd THEN so[s].state ELSE "DISCONNECTED"
  BY <1>1, <1>2, <1>4 DEF GoodSock, Sock
<1> HIDE DEF k
<1>6. CASE rcv \/ snd
  <2>1. data' = [data EXCEPT ![s] = Autobound(s)] /\ lastport' = Lastport(s) /\ datas' = datas
    BY <1>1, <1>6 DEF inet_shutdown, inet_autobind
  <2>2. so' \in [Socks -> Sock] /\ \A r \in Socks : so'[r].type = so[r].type /\ so'[r].state = so[r].state
    BY <1>3, <1>5, <1>6 DEF DgramInv, GoodSock
  <2>3. OneData(s, Autobound(s))
    BY <1>1, <1>4, <2>1, <2>2 DEF OneData, DgramInv
  <2> QED BY <2>3, OneDataInv
<1>7. CASE ~(rcv \/ snd)
  <2>1. so_release(s) /\ lastport' \in Ports
    BY <1>1, <1>4, <1>7 DEF inet_shutdown
  <2>2. k.state # "UNCONNECTED"
    BY <1>5, <1>7
  <2> QED BY <1>1, <1>3, <1>5, <2>1, <2>2, ReleaseKeeps
<1> QED BY <1>6, <1>7

\* A socket is given an address and a port that no other one has.
LEMMA BindKeeps ==
    ASSUME DgramAssumption, DgramInv, NEW s \in Socks, NEW a \in Addrs, NEW p \in Ports \cup {0},
           inet_bind(s, a, p)
    PROVE  DgramInv'
<1> DEFINE port == IF so[s].type = "raw" THEN 0 ELSE IF p = 0 THEN port_alloc(so[s].type) ELSE p
           d    == [data[s] EXCEPT !.bound = TRUE, !.addr = a, !.port = port]
<1>1. /\ Usable(s) /\ ~data[s].bound
      /\ p # 0 => so[s].type = "raw" \/ port_find_with_addr(so[s].type, port, a) = {}
      /\ data' = [data EXCEPT ![s].bound = TRUE, ![s].addr = a, ![s].port = port]
      /\ lastport' = IF p = 0 /\ so[s].type # "raw" THEN port ELSE lastport
      /\ so' = so /\ datas' = datas /\ owners' = owners
  BY DEF inet_bind
<1>2. /\ GoodData(data[s], so[s].type, "UNCONNECTED") /\ so[s].state = "UNCONNECTED"
      /\ so[s].type \in Types /\ data[s] \in InData /\ data \in [Socks -> InData]
      /\ lastport \in Ports /\ owners = 1 /\ so \in [Socks -> Sock]
  BY <1>1 DEF DgramInv, GoodSock, Usable
<1>3. /\ port_alloc(so[s].type) \in Ports /\ ~PortUsed(so[s].type, port_alloc(so[s].type))
  BY <1>1, PortAllocIs
<1>4. /\ port \in Ports \cup {0}
      /\ so[s].type # "raw" => port \in Ports
      /\ so[s].type # "raw" /\ p = 0 => ~PortUsed(so[s].type, port)
  <2>1. p # 0 => p \in Ports
    OBVIOUS
  <2> QED BY <1>3, <2>1
<1> HIDE DEF port
<1>5. data' = [data EXCEPT ![s] = d]
  BY <1>1, <1>2
<1>6. d.bound /\ d.addr = a /\ d.port = port
  BY <1>2 DEF InData
<1>7. GoodData(d, so[s].type, so[s].state)
  <2>1. GoodData(d, so[s].type, "UNCONNECTED")
    BY <1>1, <1>2, <1>4, BoundGood
  <2> HIDE DEF d
  <2> QED BY <1>2, <2>1
<1>8. Apart(s, d)
  <2>1. CASE so[s].type # "udp"
    BY <2>1 DEF Apart
  <2>2. CASE so[s].type = "udp" /\ p = 0
    <3>1. ~PortUsed("udp", d.port)
      BY <1>4, <1>6, <2>2
    <3> HIDE DEF d
    <3> QED BY <3>1, FreeApart
  <2>3. CASE so[s].type = "udp" /\ p # 0
    <3>1. port_find_with_addr("udp", port, a) = {}
      BY <1>1, <2>3
    <3>2. \A r \in Socks : data[r].bound => data[r].live
      BY DEF DgramInv, GoodData
    <3>3. \A r \in Socks : so[r].type = "udp" /\ data[r].bound => ~(data[r].port = port /\ data[r].addr = a)
      BY <3>1, <3>2 DEF port_find_with_addr
    <3> HIDE DEF d
    <3> QED BY <1>6, <3>3 DEF Apart
  <2> QED BY <2>1, <2>2, <2>3
<1>9. lastport' \in Ports
  BY <1>1, <1>2, <1>4
<1> HIDE DEF d
<1>10. OneData(s, d)
  BY <1>1, <1>2, <1>5, <1>7, <1>8, <1>9 DEF OneData
<1> QED BY <1>10, OneDataInv

\* What a call that only binds its socket, and perhaps changes the data in
\* another way, comes to
LEMMA AutobindKeeps ==
    ASSUME DgramAssumption, DgramInv, NEW s \in Socks, Usable(s), NEW d, inet_autobind(s, d),
           GoodData(d, so[s].type, so[s].state), d.bound = Autobound(s).bound,
           d.port = Autobound(s).port, d.addr = Autobound(s).addr,
           so' \in [Socks -> Sock],
           \A r \in Socks : so'[r].type = so[r].type /\ so'[r].state = so[r].state,
           datas' = datas, owners' = owners
    PROVE  DgramInv'
<1>1. Apart(s, d) /\ Lastport(s) \in Ports
  BY AutoboundIs DEF Apart
<1>2. OneData(s, d)
  BY <1>1 DEF OneData, inet_autobind, DgramInv
<1> QED BY <1>2, OneDataInv

\* What a call comes to that changes neither the name of a socket nor the
\* reader or shutdown flags of others
LEMMA NameKeeps ==
    ASSUME DgramInv, NEW s \in Socks, NEW d, data' = [data EXCEPT ![s] = d],
           GoodData(d, so[s].type, so[s].state), d.bound = data[s].bound,
           d.port = data[s].port, d.addr = data[s].addr,
           so' \in [Socks -> Sock],
           \A r \in Socks : so'[r].type = so[r].type /\ so'[r].state = so[r].state,
           datas' = datas, lastport' = lastport, owners' = owners
    PROVE  DgramInv'
<1>1. Apart(s, d) /\ lastport \in Ports
  BY StaysApart DEF DgramInv
<1>2. OneData(s, d)
  BY <1>1 DEF OneData, DgramInv
<1> QED BY <1>2, OneDataInv

LEMMA SocksStay ==
    ASSUME DgramInv, so' = so
    PROVE  /\ so' \in [Socks -> Sock]
           /\ \A r \in Socks : so'[r].type = so[r].type /\ so'[r].state = so[r].state
BY DEF DgramInv

\* A reader goes to sleep or returns.
LEMMA ReaderMoves ==
    ASSUME DgramInv, NEW s \in Socks, NEW w \in {"out", "asleep"}, so' = [so EXCEPT ![s].reader = w]
    PROVE  /\ so' \in [Socks -> Sock]
           /\ \A r \in Socks : so'[r].type = so[r].type /\ so'[r].state = so[r].state
<1> DEFINE k == [so[s] EXCEPT !.reader = w]
<1>1. so \in [Socks -> Sock] /\ so[s] \in Sock /\ so' = [so EXCEPT ![s] = k]
  BY DEF DgramInv
<1>2. k \in Sock /\ k.type = so[s].type /\ k.state = so[s].state
  BY <1>1 DEF Sock
<1> HIDE DEF k
<1> QED BY <1>1, <1>2

LEMMA ConnectKeeps ==
    ASSUME DgramAssumption, DgramInv, NEW s \in Socks, NEW p \in Peers, inet_connect(s, p)
    PROVE  DgramInv'
<1> DEFINE d == udp_connect(Autobound(s), p)
<1>1. /\ Usable(s) /\ inet_autobind(s, d)
      /\ so' = so /\ datas' = datas /\ owners' = owners
  BY DEF inet_connect
<1>2. GoodData(Autobound(s), so[s].type, so[s].state)
  BY <1>1, AutoboundIs
<1>3. /\ GoodData(d, so[s].type, so[s].state) /\ d.bound = Autobound(s).bound
      /\ d.port = Autobound(s).port /\ d.addr = Autobound(s).addr
  BY <1>2, DstGood DEF udp_connect
<1> HIDE DEF d
<1> QED BY <1>1, <1>3, SocksStay, AutobindKeeps

LEMMA DisconnectKeeps ==
    ASSUME DgramAssumption, DgramInv, NEW s \in Socks, Disconnect(s)
    PROVE  DgramInv'
<1> DEFINE d == [data[s] EXCEPT !.dst = None]
<1>1. /\ data' = [data EXCEPT ![s] = d]
      /\ so' = so /\ datas' = datas /\ lastport' = lastport /\ owners' = owners
  BY DEF Disconnect
<1>2. GoodData(data[s], so[s].type, so[s].state)
  BY DEF DgramInv
<1>3. /\ GoodData(d, so[s].type, so[s].state) /\ d.bound = data[s].bound
      /\ d.port = data[s].port /\ d.addr = data[s].addr
  BY <1>2, DstGood
<1> HIDE DEF d
<1> QED BY <1>1, <1>3, SocksStay, NameKeeps

LEMMA GetnameKeeps ==
    ASSUME DgramAssumption, DgramInv, NEW s \in Socks, inet_getname(s)
    PROVE  DgramInv'
<1>1. /\ Usable(s) /\ inet_autobind(s, Autobound(s))
      /\ so' = so /\ datas' = datas /\ owners' = owners
  BY DEF inet_getname
<1>2. GoodData(Autobound(s), so[s].type, so[s].state)
  BY <1>1, AutoboundIs
<1> QED BY <1>1, <1>2, SocksStay, AutobindKeeps

\* An error is reported to a caller.
LEMMA ErrKeeps ==
    ASSUME DgramInv, NEW s \in Socks, NEW e \in BOOLEAN, data' = [data EXCEPT ![s].err = e],
           so' \in [Socks -> Sock],
           \A r \in Socks : so'[r].type = so[r].type /\ so'[r].state = so[r].state,
           datas' = datas, lastport' = lastport, owners' = owners
    PROVE  DgramInv'
<1> DEFINE d == [data[s] EXCEPT !.err = e]
<1>1. data' = [data EXCEPT ![s] = d] /\ GoodData(data[s], so[s].type, so[s].state)
  BY DEF DgramInv
<1>2. /\ GoodData(d, so[s].type, so[s].state) /\ d.bound = data[s].bound
      /\ d.port = data[s].port /\ d.addr = data[s].addr
  BY <1>1, ErrGood
<1> HIDE DEF d
<1> QED BY <1>1, <1>2, NameKeeps

LEMMA SendKeeps ==
    ASSUME DgramAssumption, DgramInv, NEW s \in Socks, inet_send(s)
    PROVE  DgramInv'
<1>1. Usable(s) /\ so' = so /\ datas' = datas /\ owners' = owners
  BY DEF inet_send
<1>2. CASE data[s].err
  <2>1. data' = [data EXCEPT ![s].err = FALSE] /\ lastport' = lastport
    BY <1>2 DEF inet_send
  <2> QED BY <1>1, <2>1, SocksStay, ErrKeeps
<1>3. CASE ~data[s].err
  <2>1. inet_autobind(s, Autobound(s))
    BY <1>3 DEF inet_send
  <2>2. GoodData(Autobound(s), so[s].type, so[s].state)
    BY <1>1, AutoboundIs
  <2> QED BY <1>1, <2>1, <2>2, SocksStay, AutobindKeeps
<1> QED BY <1>2, <1>3

LEMMA RecvKeeps ==
    ASSUME DgramAssumption, DgramInv, NEW s \in Socks, NEW nonblock \in BOOLEAN, NEW peek \in BOOLEAN,
           inet_recv(s, nonblock, peek)
    PROVE  DgramInv'
<1>1. Usable(s) /\ datas' = datas /\ owners' = owners
  BY DEF inet_recv
<1>2. CASE data[s].err
  <2>1. data' = [data EXCEPT ![s].err = FALSE] /\ so' = so /\ lastport' = lastport
    BY <1>2 DEF inet_recv
  <2> QED BY <1>1, <2>1, SocksStay, ErrKeeps
<1>3. CASE ~data[s].err
  <2> DEFINE d == Autobound(s)
             e == IF d.q # <<>> /\ ~peek THEN Taken(d) ELSE d
  <2>1. /\ inet_autobind(s, e)
        /\ so' = IF d.q = <<>> /\ ~nonblock /\ so[s].rcv
                 THEN [so EXCEPT ![s].reader = "asleep"] ELSE so
    BY <1>3, Zenon DEF inet_recv
  <2>2. GoodData(d, so[s].type, so[s].state)
    BY <1>1, AutoboundIs
  <2> HIDE DEF d
  <2>3. /\ GoodData(e, so[s].type, so[s].state) /\ e.bound = d.bound
        /\ e.port = d.port /\ e.addr = d.addr
    BY <2>2, TakenGood
  <2>4. /\ so' \in [Socks -> Sock]
        /\ \A r \in Socks : so'[r].type = so[r].type /\ so'[r].state = so[r].state
    <3>1. so' = so \/ so' = [so EXCEPT ![s].reader = "asleep"]
      BY <2>1
    <3> QED BY <3>1, SocksStay, ReaderMoves
  <2> HIDE DEF e
  <2> QED BY <1>1, <2>1, <2>3, <2>4, AutobindKeeps DEF d
<1> QED BY <1>2, <1>3

LEMMA ResumeKeeps ==
    ASSUME DgramAssumption, DgramInv, NEW s \in Socks, Resume(s)
    PROVE  DgramInv'
<1> DEFINE Moved == /\ so' \in [Socks -> Sock]
                    /\ \A r \in Socks : so'[r].type = so[r].type /\ so'[r].state = so[r].state
<1>1. datas' = datas /\ lastport' = lastport /\ owners' = owners
  BY DEF Resume
<1>2. lastport' \in Ports /\ GoodData(data[s], so[s].type, so[s].state)
  BY <1>1 DEF DgramInv
<1>3. ~(so[s].state = "UNCONNECTED" /\ ~data[s].live)
  BY <1>2 DEF GoodData
<1>4. so' = [so EXCEPT ![s].reader = "out"]
  BY <1>3 DEF Resume
<1>5. Moved
  BY <1>4, ReaderMoves
<1>6. \/ data' = data
      \/ data' = [data EXCEPT ![s].err = FALSE]
      \/ data[s].q # <<>> /\ data' = [data EXCEPT ![s] = Taken(@)]
  BY <1>3 DEF Resume
<1>7. CASE data' = data
  BY <1>1, <1>2, <1>5, <1>7, OnlySocks
<1>8. CASE data' = [data EXCEPT ![s].err = FALSE]
  BY <1>1, <1>5, <1>8, ErrKeeps
<1>9. CASE data[s].q # <<>> /\ data' = [data EXCEPT ![s] = Taken(@)]
  <2>1. data' = [data EXCEPT ![s] = Taken(data[s])]
    BY <1>9
  <2>2. /\ GoodData(Taken(data[s]), so[s].type, so[s].state) /\ Taken(data[s]).bound = data[s].bound
        /\ Taken(data[s]).port = data[s].port /\ Taken(data[s]).addr = data[s].addr
    BY <1>2, <1>9, TakenGood
  <2> QED BY <1>1, <1>5, <2>1, <2>2, NameKeeps
<1> QED BY <1>6, <1>7, <1>8, <1>9

-----------------------------------------------------------------------------
(***************************************************************************)
(* Input                                                                   *)
(***************************************************************************)
\* A set of places in a list has a first and a last one.
LEMMA FirstIs ==
    ASSUME NEW I, I \subseteq Nat, I # {}
    PROVE  First(I) \in I
<1>1. \E i \in I : \A j \in I : i <= j
  BY LeastIs
<1> QED BY <1>1 DEF First

LEMMA LastIs ==
    ASSUME NEW n \in Nat, NEW I, I \subseteq 1 .. n, I # {}
    PROVE  Last(I) \in I
<1> DEFINE J == {n - i : i \in I}
<1>1. J \subseteq Nat /\ J # {} /\ \A i \in I : i \in Nat /\ i <= n /\ n - i \in J
  <2>1. \A i \in I : i \in Nat /\ i <= n /\ n - i \in Nat
    OBVIOUS
  <2> QED BY <2>1
<1>2. PICK x \in J : \A y \in J : x <= y
  <2> HIDE DEF J
  <2> QED BY <1>1, LeastIs
<1>3. PICK i \in I : x = n - i
  BY <1>2
<1>4. ASSUME NEW j \in I PROVE j <= i
  <2>1. n - i <= n - j
    BY <1>1, <1>2, <1>3
  <2> HIDE DEF J
  <2> QED BY <1>1, <2>1
<1> QED BY <1>4 DEF Last

\* What a lookup finds is a UDP socket with the port and the address.
LEMMA LookupIs ==
    ASSUME DgramInv, NEW d, in_data_lookup(d) # None
    PROVE  /\ in_data_lookup(d) \in Socks
           /\ Match(in_data_lookup(d), d)
           /\ so[in_data_lookup(d)].type = "udp"
<1> DEFINE l     == datas["udp"]
           conn  == {i \in DOMAIN l : Match(l[i], d) /\ data[l[i]].dst = d.src}
           deflt == {i \in DOMAIN l : Match(l[i], d) /\ data[l[i]].dst = None}
           exact == {i \in deflt : data[l[i]].addr # ANY}
<1>1. l \in Seq(Socks) /\ DOMAIN l = 1 .. Len(l) /\ Len(l) \in Nat /\ Elements(l) = Alive("udp")
  BY DEF DgramInv, Lists, Holds, Types
<1>2. in_data_lookup(d) = IF conn # {} THEN l[First(conn)]
                          ELSE IF exact # {} THEN l[First(exact)]
                          ELSE IF deflt # {} THEN l[Last(deflt)]
                          ELSE None
  BY Zenon DEF in_data_lookup
<1>3. /\ conn \subseteq 1 .. Len(l) /\ deflt \subseteq 1 .. Len(l) /\ exact \subseteq deflt
      /\ 1 .. Len(l) \subseteq Nat
      /\ \A i \in conn \cup deflt : Match(l[i], d) /\ i \in DOMAIN l
  BY <1>1
<1> HIDE DEF conn, deflt, exact
<1>4. PICK i \in conn \cup deflt : in_data_lookup(d) = l[i]
  <2>1. conn # {} => First(conn) \in conn
    BY <1>3, FirstIs
  <2>2. exact # {} => First(exact) \in deflt
    BY <1>3, FirstIs
  <2>3. deflt # {} => Last(deflt) \in deflt
    BY <1>1, <1>3, LastIs
  <2> HIDE DEF l
  <2> QED BY <1>2, <2>1, <2>2, <2>3
<1>5. l[i] \in Elements(l) /\ Match(l[i], d)
  BY <1>3, <1>4 DEF Elements
<1> QED BY <1>1, <1>4, <1>5 DEF Alive

\* Some sockets that may have a datagram put it into their queues.
LEMMA EnqueuedKeeps ==
    ASSUME DgramAssumption, DgramInv, NEW d, d.port \in Ports \cup {0}, d.len \in Nat,
           NEW S \in SUBSET Socks,
           \A s \in S : data[s].bound /\ Room(s, d) /\ (so[s].type = "udp" => d.port = data[s].port),
           data' = Enqueued(S, d), so' = so, datas' = datas, lastport' = lastport, owners' = 1
    PROVE  DgramInv'
<1> DEFINE e(s) == [port |-> IF so[s].type = "udp" THEN d.port ELSE 0, len |-> d.len]
           f(s) == [data[s] EXCEPT !.q = Append(@, e(s)), !.curlen = @ + e(s).len]
<1>1. ASSUME NEW s \in S
      PROVE  /\ GoodData(f(s), so[s].type, so[s].state) /\ f(s).bound = data[s].bound
             /\ f(s).port = data[s].port /\ f(s).addr = data[s].addr /\ f(s).live = data[s].live
  <2>1. GoodData(data[s], so[s].type, so[s].state) /\ data[s].bound
    BY DEF DgramInv
  <2>2. e(s) \in Queued /\ e(s).len = d.len /\ (so[s].type = "udp" => e(s).port = data[s].port)
    BY DEF Queued
  <2>3. e(s).len + data[s].curlen <= MaxData
    BY <2>2 DEF Room
  <2> DEFINE x  == e(s)
             y  == f(s)
             d0 == data[s]
  <2>4. IsQueued(d0, x, y)
    BY DEF IsQueued
  <2>5. MayQueue(d0, so[s].type, so[s].state, x)
    BY <2>1, <2>2, <2>3 DEF MayQueue
  <2>6. /\ GoodData(y, so[s].type, so[s].state)
        /\ y.bound = d0.bound /\ y.port = d0.port /\ y.addr = d0.addr /\ y.live = d0.live
    <3> HIDE DEF x, y, d0
    <3> QED BY <2>4, <2>5, QueueGood
  <2> QED BY <2>6
<1>2. /\ DOMAIN data' = Socks /\ data' = [s \in Socks |-> data'[s]]
      /\ \A s \in Socks : data'[s] = IF s \in S THEN f(s) ELSE data[s]
  BY DEF Enqueued
<1>3. data \in [Socks -> InData] /\ \A s \in Socks : GoodData(data[s], so[s].type, so[s].state)
  BY DEF DgramInv
<1> HIDE DEF f
<1>4. /\ \A s \in Socks : GoodData(data'[s], so[s].type, so[s].state)
      /\ \A s \in Socks : /\ data'[s].bound = data[s].bound /\ data'[s].live = data[s].live
                          /\ data'[s].port = data[s].port /\ data'[s].addr = data[s].addr
  BY <1>1, <1>2, <1>3
<1>5. data' \in [Socks -> InData]
  BY <1>2, <1>4 DEF GoodData
<1>6. \A t : Alive(t)' = Alive(t)
  BY <1>4 DEF Alive
<1>7. Lists'
  BY <1>6 DEF DgramInv, Lists, Holds
<1>8. PortsUnique'
  BY <1>4 DEF DgramInv, PortsUnique
<1> QED BY <1>4, <1>5, <1>7, <1>8 DEF DgramInv

\* The buffer goes to the first socket that takes it, or to none.
LEMMA RipKeeps ==
    ASSUME DgramAssumption, DgramInv, NEW d, d.port \in Ports \cup {0}, d.len \in Nat,
           NEW k \in Nat, rip_input(d, k), so' = so, datas' = datas, lastport' = lastport
    PROVE  DgramInv'
<1> DEFINE l     == datas["raw"]
           found == {i \in DOMAIN l : /\ data[l[i]].bound /\ ip_same_addr(data[l[i]].addr, d.dst)
                                      /\ data[l[i]].dst \in {None, d.src}}
           takes == {i \in found : Room(l[i], d)}
           got   == {i \in takes : Cardinality({j \in takes : j < i}) <= k}
           S     == {l[i] : i \in got}
<1>1. l \in Seq(Socks) /\ DOMAIN l = 1 .. Len(l) /\ Len(l) \in Nat /\ Elements(l) = Alive("raw")
  BY DEF DgramInv, Lists, Holds, Types
<1>2. /\ data' = Enqueued(S, d)
      /\ owners' = Cardinality({i \in got : i = First(takes)}) + (IF got = {} THEN 1 ELSE 0)
  BY Zenon DEF rip_input
<1>3. takes \subseteq Nat /\ takes \subseteq DOMAIN l /\ got \subseteq takes
  BY <1>1
<1>4. owners' = 1
  <2>1. CASE got = {}
    <3>1. {i \in got : i = First(takes)} = {}
      BY <2>1
    <3> HIDE DEF got, takes
    <3> QED BY <1>2, <2>1, <3>1, FS_EmptySet
  <2>2. CASE got # {}
    <3>1. takes # {}
      BY <1>3, <2>2
    <3>2. First(takes) \in takes /\ \A j \in takes : First(takes) <= j
      <4> HIDE DEF takes
      <4>1. \E i \in takes : \A j \in takes : i <= j
        BY <1>3, <3>1, LeastIs
      <4> QED BY <4>1 DEF First
    <3>3. {j \in takes : j < First(takes)} = {}
      <4> HIDE DEF takes, got
      <4> SUFFICES ASSUME NEW j \in takes, j < First(takes) PROVE FALSE
        OBVIOUS
      <4>1. j \in Nat /\ First(takes) \in Nat /\ First(takes) <= j
        BY <1>3, <3>2
      <4> QED BY <4>1
    <3>4. First(takes) \in got
      <4>1. Cardinality({j \in takes : j < First(takes)}) = 0
        BY <3>3, FS_EmptySet
      <4>2. Cardinality({j \in takes : j < First(takes)}) <= k
        BY <4>1
      <4> HIDE DEF takes
      <4> QED BY <3>2, <4>2
    <3>5. {i \in got : i = First(takes)} = {First(takes)}
      BY <3>4
    <3>6. Cardinality({i \in got : i = First(takes)}) = 1
      BY <3>5, FS_Singleton
    <3> HIDE DEF got, takes
    <3> QED BY <1>2, <2>2, <3>6
  <2> QED BY <2>1, <2>2
<1>5. ASSUME NEW s \in S
      PROVE  s \in Socks /\ data[s].bound /\ Room(s, d) /\ so[s].type = "raw"
  <2>1. PICK i \in got : s = l[i]
    OBVIOUS
  <2>2. i \in DOMAIN l /\ data[l[i]].bound /\ Room(l[i], d)
    OBVIOUS
  <2>3. l[i] \in Alive("raw")
    BY <1>1, <2>2 DEF Elements
  <2> QED BY <2>1, <2>2, <2>3 DEF Alive
<1> HIDE DEF S
<1>6. S \in SUBSET Socks
  BY <1>5
<1> QED BY <1>2, <1>4, <1>5, <1>6, EnqueuedKeeps

LEMMA UdpKeeps ==
    ASSUME DgramAssumption, DgramInv, NEW d, d.port \in Ports \cup {0}, d.len \in Nat,
           NEW k \in Nat, udp_input(d, k), so' = so, datas' = datas, lastport' = lastport
    PROVE  DgramInv'
<1> DEFINE s == in_data_lookup(d)
<1>1. \/ owners' = 1 /\ data' = data
      \/ rip_input(d, k)
      \/ s # None /\ Room(s, d) /\ data' = Enqueued({s}, d) /\ owners' = 1
  BY DEF udp_input
<1>2. CASE owners' = 1 /\ data' = data
  <2>1. owners' = owners /\ lastport' \in Ports
    BY <1>2 DEF DgramInv
  <2> QED BY <1>2, <2>1, SocksStay, OnlySocks
<1>3. CASE rip_input(d, k)
  BY <1>3, RipKeeps
<1>4. CASE s # None /\ Room(s, d) /\ data' = Enqueued({s}, d) /\ owners' = 1
  <2>1. s \in Socks /\ Match(s, d) /\ so[s].type = "udp"
    BY <1>4, LookupIs
  <2> HIDE DEF s
  <2> DEFINE S == {s}
  <2>2. S \in SUBSET Socks
    BY <2>1
  <2>3. \A r \in S : data[r].bound /\ Room(r, d) /\ (so[r].type = "udp" => d.port = data[r].port)
    BY <1>4, <2>1 DEF Match
  <2>4. data' = Enqueued(S, d)
    BY <1>4
  <2> HIDE DEF S
  <2> QED BY <1>4, <2>2, <2>3, <2>4, EnqueuedKeeps
<1> QED BY <1>1, <1>2, <1>3, <1>4

LEMMA InputKeeps ==
    ASSUME DgramAssumption, DgramInv, NEW d \in Dgrams, NEW k \in Nat, ip_input(d, k)
    PROVE  DgramInv'
<1>1. d.port \in Ports \cup {0} /\ d.len \in Nat
  <2>1. Lens \subseteq Nat /\ 1 \in Nat
    BY DEF DgramAssumption
  <2>2. CASE d \in {Dgram(src, Local, p, 1, TRUE) : src \in Peers, p \in Ports \cup {0}}
    BY <2>1, <2>2 DEF Dgram
  <2>3. CASE d \in {Dgram(src, Local, p, n, TRUE) : src \in Others, p \in Ports, n \in Lens}
    BY <2>1, <2>3 DEF Dgram
  <2>4. CASE d \in {Dgram(src, Broadcast, p, 1, ok) : src \in Others, p \in Ports, ok \in BOOLEAN}
    BY <2>1, <2>4 DEF Dgram
  <2> QED BY <2>2, <2>3, <2>4, SMT DEF Dgrams, Dgram
<1>2. so' = so /\ datas' = datas /\ lastport' = lastport
  BY DEF ip_input
<1>3. udp_input(d, k) \/ rip_input(d, k)
  BY DEF ip_input
<1> QED BY <1>1, <1>2, <1>3, UdpKeeps, RipKeeps

LEMMA ErrorKeeps ==
    ASSUME DgramAssumption, DgramInv, NEW p \in Ports, NEW peer \in Peers, udp_error(p, peer)
    PROVE  DgramInv'
<1> DEFINE d == [port |-> p, dst |-> Local, src |-> peer]
           s == in_data_lookup(d)
<1>1. /\ data' = IF s # None /\ data[s].dst = peer THEN [data EXCEPT ![s].err = TRUE] ELSE data
      /\ so' = so /\ datas' = datas /\ lastport' = lastport /\ owners' = owners
  BY Zenon DEF udp_error
<1>2. s # None => s \in Socks
  BY LookupIs
<1> HIDE DEF s
<1>3. CASE s # None /\ data[s].dst = peer
  <2>1. data' = [data EXCEPT ![s].err = TRUE] /\ s \in Socks
    BY <1>1, <1>2, <1>3
  <2> QED BY <1>1, <2>1, SocksStay, ErrKeeps
<1>4. CASE ~(s # None /\ data[s].dst = peer)
  <2>1. data' = data /\ lastport' \in Ports
    BY <1>1, <1>4 DEF DgramInv
  <2> QED BY <1>1, <2>1, SocksStay, OnlySocks
<1> QED BY <1>3, <1>4

-----------------------------------------------------------------------------
(***************************************************************************)
(* The theorem                                                             *)
(***************************************************************************)
LEMMA DgramInitInv ==
    ASSUME DgramAssumption, SockInit
    PROVE  DgramInv
<1>1. /\ so = [s \in Socks |-> Virgin] /\ data = [s \in Socks |-> NoData]
      /\ datas = [t \in Types |-> <<>>] /\ lastport \in Ports /\ owners = 1
  BY DEF SockInit
<1>2. GoodSock(Virgin) /\ Virgin.state = "VIRGIN" /\ Virgin \in Sock
  BY DEF GoodSock, Sock, Virgin
<1>3. GoodData(NoData, Virgin.type, Virgin.state) /\ NoData.live = FALSE /\ NoData.bound = FALSE /\ NoData \in InData
  <2>1. GoodData(NoData, Virgin.type, Virgin.state)
    BY <1>2, NoDataGood
  <2>2. NoData.live = FALSE /\ NoData.bound = FALSE
    BY DEF NoData
  <2> QED BY <2>1, <2>2 DEF GoodData
<1>4. \A t \in Types : Holds(datas[t], Alive(t))
  <2> SUFFICES ASSUME NEW t \in Types PROVE Holds(<<>>, {})
    BY <1>1, <1>3 DEF Alive
  <2>1. <<>> \in Seq(Socks) /\ DOMAIN <<>> = {}
    OBVIOUS
  <2> QED BY <2>1 DEF Holds, Elements
<1>5. Lists
  <2>1. <<>> \in Seq(Socks)
    OBVIOUS
  <2> QED BY <1>1, <1>4, <2>1 DEF Lists
<1>6. PortsUnique
  BY <1>1, <1>3 DEF PortsUnique
<1> QED BY <1>1, <1>2, <1>3, <1>5, <1>6 DEF DgramInv

LEMMA DgramStepInv ==
    ASSUME DgramAssumption, DgramInv, [SockNext]_svars
    PROVE  DgramInv'
<1>1. ASSUME NEW s \in Socks, NEW t \in Types, mgx_socket(s, t) PROVE DgramInv'
  BY <1>1, SocketKeeps
<1>2. ASSUME NEW s \in Socks, NEW a \in Addrs, NEW p \in Ports \cup {0}, inet_bind(s, a, p) PROVE DgramInv'
  BY <1>2, BindKeeps
<1>3. ASSUME NEW s \in Socks, NEW p \in Peers, inet_connect(s, p) PROVE DgramInv'
  BY <1>3, ConnectKeeps
<1>4. ASSUME NEW s \in Socks, inet_send(s) \/ Disconnect(s) \/ inet_getname(s) \/ socket_close(s)
      PROVE  DgramInv'
  BY <1>4, SendKeeps, DisconnectKeeps, GetnameKeeps, CloseKeeps
<1>5. ASSUME NEW s \in Socks, NEW how \in Hows, mgx_shutdown(s, how) PROVE DgramInv'
  BY <1>5, ShutdownKeeps
<1>6. ASSUME NEW s \in Socks, NEW nonblock \in BOOLEAN, NEW peek \in BOOLEAN, inet_recv(s, nonblock, peek)
      PROVE  DgramInv'
  BY <1>6, RecvKeeps
<1>7. ASSUME NEW s \in Socks, Resume(s) PROVE DgramInv'
  BY <1>7, ResumeKeeps
<1>8. ASSUME NEW d \in Dgrams, NEW k \in 0 .. Cardinality(Socks) - 1, ip_input(d, k) PROVE DgramInv'
  <2>1. k \in Nat
    BY FS_CardinalityType DEF DgramAssumption
  <2> QED BY <1>8, <2>1, InputKeeps
<1>9. ASSUME NEW p \in Ports, NEW peer \in Peers, udp_error(p, peer) PROVE DgramInv'
  BY <1>9, ErrorKeeps
<1>10. CASE UNCHANGED svars
  <2>1. /\ so' = so /\ data' = data /\ datas' = datas /\ lastport' = lastport /\ owners' = owners
        /\ lastport' \in Ports
    BY <1>10 DEF svars, DgramInv
  <2> QED BY <2>1, SocksStay, OnlySocks
<1> QED BY <1>1, <1>2, <1>3, <1>4, <1>5, <1>6, <1>7, <1>8, <1>9, <1>10 DEF SockNext

\* Whatever calls are made on datagram sockets, by whom, and whatever comes
\* from the network in whatever order: no two UDP sockets have the same address
\* and port, the lists and the queues are exact, the buffer of a datagram goes to
\* one place (udp_input, rip_input), and a process that waits in recv never looks
\* at data that has gone.
THEOREM SocketSafety == SockSpec => []SocketInv
<1>1. SockInit => DgramInv
  BY DgramAssumption, DgramInitInv
<1>2. DgramInv /\ [SockNext]_svars => DgramInv'
  BY DgramAssumption, DgramStepInv
<1>3. DgramInv => SocketInv
  BY DgramInvIs
<1> QED BY <1>1, <1>2, <1>3, PTL DEF SockSpec

=============================================================================
