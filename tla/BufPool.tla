------------------------------ MODULE BufPool ------------------------------
(***************************************************************************)
(* The packet buffer allocator of kernel/buf.c.                            *)
(*                                                                         *)
(* kmalloc'ed blocks of BUF_BLOCK_SIZE bytes are carved into buffers.  The *)
(* header of a buffer sits at its first byte and holds its length (buflen),*)
(* its usage counter (links) and the pointers to its neighbours in memory  *)
(* (_n and _p, here nxt and prv).  A buffer with links = 0 is on the free  *)
(* list pool[i] of its size class.                                         *)
(*                                                                         *)
(* One thread of control runs in the kernel at a time (variable pc), but a *)
(* driver's interrupt handler may run between any two of its steps.  The   *)
(* critical sections between splhigh() and spl() are single steps.         *)
(*                                                                         *)
(* A free list is a set: the code inserts at the head, takes the head and  *)
(* unlinks anywhere, and nothing here depends on which member is first.    *)
(*                                                                         *)
(* A definition whose name has a suffix after an underscore (Rest_...) is  *)
(* a faulty variant of the definition it stands before.  No specification  *)
(* uses it; it shows which faults the properties detect.                   *)
(***************************************************************************)
EXTENDS Integers, FiniteSets

CONSTANTS
    BlockSize,   \* BUF_BLOCK_SIZE
    NSplit,      \* BUF_NSPLIT: the last size class
    BufSize,     \* BUF_SIZE(b), the smallest length of a buffer of class b
    Bases,       \* addresses at which kmalloc may place a block
    Requests,    \* total sizes asked for: payload plus header, rounded to even
    MaxLinks,    \* bound on the usage counter of one buffer
    IntrDerefs,  \* TRUE when a driver calls buf_deref at interrupt level
    NotYet       \* TRUE for a build with NOTYET defined: buf_deref masks
                 \* interrupts before it touches links

Classes == 0 .. NSplit

\* BUF_SIZE(BUF_NSPLIT): no buffer is shorter
MinSize == BufSize[NSplit]

NULL == -1

ASSUME SizesAssumption ==
    /\ NSplit \in Nat
    /\ BlockSize \in Nat \ {0}
    /\ BufSize \in [Classes -> Nat \ {0}]
    /\ BufSize[0] = BlockSize
    /\ \A i, j \in Classes : i < j => BufSize[j] < BufSize[i]

ASSUME ClientsAssumption ==
    /\ Bases \subseteq Nat
    /\ Requests \subseteq Nat
    /\ MaxLinks \in Nat \ {0}
    /\ IntrDerefs \in BOOLEAN
    /\ NotYet \in BOOLEAN

VARIABLES
    bufs,        \* addresses that hold a buffer header
    buflen,      \* BUF.buflen of every buffer
    links,       \* BUF.links of every buffer
    nxt,         \* BUF._n
    prv,         \* BUF._p
    pool,        \* the free lists
    mem_used,    \* bytes obtained from kmalloc
    buf_tmout,   \* TRUE while the root timeout that runs addmem is pending
    pc,          \* what the kernel thread is doing
    size,        \* request of the buf_alloc in progress; 0 for addmem
    victim,      \* buffer whose links buf_deref has just brought to 0
    wild         \* TRUE once a buffer that is on no list has been unlinked

chain == <<bufs, buflen, nxt, prv>>
vars == <<bufs, buflen, links, nxt, prv, pool, mem_used, buf_tmout, pc, size,
          victim, wild>>

\* "alloc": about to enter the critical section of buf_alloc; "grow": in
\* buf_add_block before kmalloc; "cancel": in buf_add_block after the block was
\* linked in; "free": in buf_deref between --links and splhigh; "gc": in gc.
PCs == {"idle", "alloc", "grow", "cancel", "free", "gc"}

-----------------------------------------------------------------------------
(***************************************************************************)
(* Size classes                                                            *)
(***************************************************************************)

\* The class a free buffer of length len belongs to: the first i with
\* len >= BUF_SIZE(i).
FreeClass(len) ==
    CHOOSE i \in Classes : BufSize[i] <= len /\ \A j \in Classes : j < i => len < BufSize[j]

\* The length buf_alloc looks for.
RoundUp(s) == IF s < MinSize THEN MinSize ELSE s

\* Classes buf_alloc may take a buffer of s bytes from, smallest buffers first:
\* the ones whose members are all long enough.
Fits(s) == {i \in Classes : s <= BufSize[i]}

\* The non-empty class nearest to the request, if there is one.
FirstFit(s, i) ==
    /\ i \in Fits(s)
    /\ pool[i] # {}
    /\ \A j \in Fits(s) : j > i => pool[j] = {}

OutOfBufs(s) == \A i \in Fits(s) : pool[i] = {}

-----------------------------------------------------------------------------
(***************************************************************************)
(* The critical sections                                                   *)
(***************************************************************************)

\* What is left of b after s bytes have been taken from it.
Rest(b, s) == buflen[b] - s

\* The class of the rest of a buffer of class i.
RestClass(i, len) == FreeClass(len)

\* The rest r of b becomes the left neighbour of what was to the right of b.
LinkLeft_RightStale(b, r) == prv' = [x \in bufs' |-> IF x = r THEN b ELSE prv[x]]
LinkLeft(b, r) == prv' = [x \in bufs' |-> IF x = r THEN b
                                          ELSE IF x = nxt[b] THEN r ELSE prv[x]]

\* Take b, a member of pool[i], off its list for a request of s bytes, and put
\* the rest back as a buffer of its own if it is long enough.
Take(b, i, s) ==
    LET rest == Rest(b, s)
        r    == b + s
    IN  IF rest >= MinSize
        THEN /\ bufs' = bufs \cup {r}
             /\ buflen' = [x \in bufs' |-> IF x = b THEN s
                                           ELSE IF x = r THEN rest ELSE buflen[x]]
             /\ links' = [x \in bufs' |-> IF x = b THEN 1
                                          ELSE IF x = r THEN 0 ELSE links[x]]
             /\ nxt' = [x \in bufs' |-> IF x = b THEN r
                                        ELSE IF x = r THEN nxt[b] ELSE nxt[x]]
             /\ LinkLeft(b, r)
             /\ pool' = [j \in Classes |-> (pool[j] \ {b}) \cup
                                (IF j = RestClass(i, rest) THEN {r} ELSE {})]
        ELSE /\ links' = [links EXCEPT ![b] = 1]
             /\ pool' = [pool EXCEPT ![i] = @ \ {b}]
             /\ UNCHANGED chain

Alloc(s) == \E i \in Classes : FirstFit(s, i) /\ \E b \in pool[i] : Take(b, i, s)

\* Is the neighbour c of a buffer being freed merged with it?
Merges(c) == c # NULL /\ links[c] = 0

\* A neighbour that is merged is first unlinked from its free list.
Listed(c) == \E i \in Classes : c \in pool[i]

\* buf_free: merge b with its free neighbours and put the result on a list.
\* Unlinking a neighbour that is on no list writes through its NULL _nfree and
\* _pfree pointers: nothing can be said of what follows.
Free(b) ==
    LET p      == prv[b]
        n      == nxt[b]
        merged == {c \in {p, n} : Merges(c)}
        head   == IF Merges(p) THEN p ELSE b
        tail   == IF Merges(n) THEN nxt[n] ELSE n
        len    == (IF Merges(p) THEN buflen[p] ELSE 0) + buflen[b]
                      + (IF Merges(n) THEN buflen[n] ELSE 0)
    IN  IF \E c \in merged : ~Listed(c)
        THEN /\ wild' = TRUE
             /\ UNCHANGED <<chain, links, pool>>
        ELSE /\ bufs' = (bufs \ (merged \cup {b})) \cup {head}
             /\ buflen' = [x \in bufs' |-> IF x = head THEN len ELSE buflen[x]]
             /\ links' = [x \in bufs' |-> IF x = head THEN 0 ELSE links[x]]
             /\ nxt' = [x \in bufs' |-> IF x = head THEN tail ELSE nxt[x]]
             /\ prv' = [x \in bufs' |-> IF x = tail THEN head ELSE prv[x]]
             /\ pool' = [i \in Classes |-> (pool[i] \ merged) \cup
                                (IF i = FreeClass(len) THEN {head} ELSE {})]
             /\ UNCHANGED wild

-----------------------------------------------------------------------------
(***************************************************************************)
(* The kernel thread                                                       *)
(***************************************************************************)

\* buf_init: the pool starts with one whole block on pool[0].
Init ==
    \E base \in Bases :
        /\ bufs = {base}
        /\ buflen = [x \in bufs |-> BlockSize]
        /\ links = [x \in bufs |-> 0]
        /\ nxt = [x \in bufs |-> NULL]
        /\ prv = [x \in bufs |-> NULL]
        /\ pool = [i \in Classes |-> IF i = 0 THEN {base} ELSE {}]
        /\ mem_used = BlockSize
        /\ buf_tmout = FALSE
        /\ pc = "idle"
        /\ size = 0
        /\ victim = NULL
        /\ wild = FALSE

\* buf_alloc(s, reserve, BUF_NORMAL), up to the critical section.  A request
\* longer than a block fails at once.
BufAlloc(s) ==
    /\ pc = "idle"
    /\ RoundUp(s) <= BlockSize
    /\ pc' = "alloc"
    /\ size' = RoundUp(s)
    /\ UNCHANGED <<chain, links, pool, mem_used, buf_tmout, victim, wild>>

\* The critical section of buf_alloc finds a buffer ...
AllocTake ==
    /\ pc = "alloc"
    /\ Alloc(size)
    /\ pc' = "idle"
    /\ size' = 0
    /\ UNCHANGED <<mem_used, buf_tmout, victim, wild>>

\* ... or leaves it and calls buf_add_block.
AllocGrow ==
    /\ pc = "alloc"
    /\ OutOfBufs(size)
    /\ pc' = "grow"
    /\ UNCHANGED <<chain, links, pool, mem_used, buf_tmout, size, victim, wild>>

\* buf_add_block: kmalloc finds room for a block, which is linked into pool[0].
AddBlock(base) ==
    /\ pc = "grow"
    /\ base \in Bases
    /\ \A b \in bufs : base + BlockSize <= b \/ b + buflen[b] <= base
    /\ bufs' = bufs \cup {base}
    /\ buflen' = [x \in bufs' |-> IF x = base THEN BlockSize ELSE buflen[x]]
    /\ links' = [x \in bufs' |-> IF x = base THEN 0 ELSE links[x]]
    /\ nxt' = [x \in bufs' |-> IF x = base THEN NULL ELSE nxt[x]]
    /\ prv' = [x \in bufs' |-> IF x = base THEN NULL ELSE prv[x]]
    /\ pool' = [pool EXCEPT ![0] = @ \cup {base}]
    /\ mem_used' = mem_used + BlockSize
    /\ pc' = "cancel"
    /\ UNCHANGED <<buf_tmout, size, victim, wild>>

\* buf_add_block: kmalloc fails, and with it the buf_alloc that called.
NoKernelMemory ==
    /\ pc = "grow"
    /\ pc' = "idle"
    /\ size' = 0
    /\ UNCHANGED <<chain, links, pool, mem_used, buf_tmout, victim, wild>>

\* buf_add_block takes back the pending addmem; buf_alloc tries again.
CancelAddmem ==
    /\ pc = "cancel"
    /\ buf_tmout' = FALSE
    /\ pc' = IF size = 0 THEN "idle" ELSE "alloc"
    /\ UNCHANGED <<chain, links, pool, mem_used, size, victim, wild>>

\* The root timeout set by a failed atomic allocation runs addmem.
Addmem_KeepsTmout ==
    /\ pc = "idle"
    /\ buf_tmout
    /\ pc' = "grow"
    /\ UNCHANGED <<chain, links, pool, mem_used, buf_tmout, size, victim, wild>>

Addmem ==
    /\ pc = "idle"
    /\ buf_tmout
    /\ buf_tmout' = FALSE
    /\ pc' = "grow"
    /\ UNCHANGED <<chain, links, pool, mem_used, size, victim, wild>>

\* buf_ref: a second owner, as when a segment is queued and sent.
BufRef(b) ==
    /\ pc = "idle"
    /\ links[b] \in 1 .. MaxLinks - 1
    /\ links' = [links EXCEPT ![b] = @ + 1]
    /\ UNCHANGED <<chain, pool, mem_used, buf_tmout, pc, size, victim, wild>>

\* buf_deref by one of several owners.
BufDeref(b) ==
    /\ pc = "idle"
    /\ links[b] > 1
    /\ links' = [links EXCEPT ![b] = @ - 1]
    /\ UNCHANGED <<chain, pool, mem_used, buf_tmout, pc, size, victim, wild>>

\* buf_deref by the last owner: the counter is decremented outside the critical
\* section ...
BufDerefLast_Shared(b) ==
    /\ ~NotYet
    /\ pc = "idle"
    /\ links[b] >= 1
    /\ links' = [links EXCEPT ![b] = @ - 1]
    /\ pc' = "free"
    /\ victim' = b
    /\ UNCHANGED <<chain, pool, mem_used, buf_tmout, size, wild>>

BufDerefLast(b) ==
    /\ ~NotYet
    /\ pc = "idle"
    /\ links[b] = 1
    /\ links' = [links EXCEPT ![b] = 0]
    /\ pc' = "free"
    /\ victim' = b
    /\ UNCHANGED <<chain, pool, mem_used, buf_tmout, size, wild>>

\* ... and the buffer is freed inside it.
DerefFree ==
    /\ pc = "free"
    /\ Free(victim)
    /\ pc' = "idle"
    /\ victim' = NULL
    /\ UNCHANGED <<mem_used, buf_tmout, size>>

\* The garbage collector's root timeout, every GC_TIMEOUT milliseconds.
Gc ==
    /\ pc = "idle"
    /\ pc' = "gc"
    /\ UNCHANGED <<chain, links, pool, mem_used, buf_tmout, size, victim, wild>>

\* Unlink the whole block b and return it to kmalloc.
Unlink(b) ==
    /\ bufs' = bufs \ {b}
    /\ buflen' = [x \in bufs' |-> buflen[x]]
    /\ links' = [x \in bufs' |-> links[x]]
    /\ nxt' = [x \in bufs' |-> nxt[x]]
    /\ prv' = [x \in bufs' |-> prv[x]]
    /\ pool' = [pool EXCEPT ![0] = @ \ {b}]

\* buf_free_block gives a whole block back, unless it is the last free one.
FreeBlock(b) ==
    /\ pc = "gc"
    /\ b \in pool[0]
    /\ \E c \in pool[0] : c # b
    /\ Unlink(b)
    /\ mem_used' = mem_used - buflen[b]
    /\ UNCHANGED <<buf_tmout, pc, size, victim, wild>>

GcDone ==
    /\ pc = "gc"
    /\ \A b, c \in pool[0] : b = c
    /\ pc' = "idle"
    /\ UNCHANGED <<chain, links, pool, mem_used, buf_tmout, size, victim, wild>>

-----------------------------------------------------------------------------
(***************************************************************************)
(* Calls that an interrupt handler may make between any two steps of the   *)
(* kernel thread (the kernel thread makes them too, when pc = "idle").     *)
(***************************************************************************)

\* buf_alloc(s, reserve, BUF_ATOMIC) finds a buffer ...
AtomicAlloc(s) ==
    /\ Alloc(RoundUp(s))
    /\ UNCHANGED <<mem_used, buf_tmout, pc, size, victim, wild>>

\* ... or fails, and asks for addmem to be run at the next opportunity.
AtomicAllocFails(s) ==
    /\ RoundUp(s) <= BlockSize
    /\ OutOfBufs(RoundUp(s))
    /\ buf_tmout' = TRUE
    /\ UNCHANGED <<chain, links, pool, mem_used, pc, size, victim, wild>>

MaskedDeref_AnyTime(b) ==
    /\ links[b] = 1
    /\ Free(b)
    /\ UNCHANGED <<mem_used, buf_tmout, pc, size, victim>>

\* buf_deref with interrupts masked: --links and the freeing are one step.  The
\* kernel thread does so for a packet that finds its queue full (if_enqueue), an
\* interrupt handler for every buffer it frees.
MaskedDeref(b) ==
    /\ IntrDerefs \/ pc = "idle"
    /\ links[b] = 1
    /\ Free(b)
    /\ UNCHANGED <<mem_used, buf_tmout, pc, size, victim>>

-----------------------------------------------------------------------------
Thread ==
    \/ \E s \in Requests : BufAlloc(s)
    \/ AllocTake
    \/ AllocGrow
    \/ \E base \in Bases : AddBlock(base)
    \/ NoKernelMemory
    \/ CancelAddmem
    \/ Addmem
    \/ \E b \in bufs : BufRef(b) \/ BufDeref(b) \/ BufDerefLast(b)
    \/ DerefFree
    \/ Gc
    \/ \E b \in bufs : FreeBlock(b)
    \/ GcDone

Interrupt ==
    \/ \E s \in Requests : AtomicAlloc(s) \/ AtomicAllocFails(s)
    \/ \E b \in bufs : MaskedDeref(b)

Next == ~wild /\ (Thread \/ Interrupt)

Spec == Init /\ [][Next]_vars

\* Root timeouts are run again and again by the kernel's timer, and no call of
\* the allocator blocks.
Fairness ==
    /\ WF_vars(~wild /\ AllocTake) /\ WF_vars(~wild /\ AllocGrow)
    /\ WF_vars(~wild /\ (NoKernelMemory \/ \E base \in Bases : AddBlock(base)))
    /\ WF_vars(~wild /\ CancelAddmem)
    /\ WF_vars(~wild /\ DerefFree)
    /\ WF_vars(~wild /\ ((\E b \in bufs : FreeBlock(b)) \/ GcDone))
    /\ SF_vars(~wild /\ Addmem)

FairSpec == Spec /\ Fairness

-----------------------------------------------------------------------------
(***************************************************************************)
(* Properties                                                              *)
(***************************************************************************)

\* The types of the variables.
TypeOK ==
    /\ bufs \subseteq Nat
    /\ buflen \in [bufs -> Nat]
    /\ links \in [bufs -> Nat]
    /\ nxt \in [bufs -> bufs \cup {NULL}]
    /\ prv \in [bufs -> bufs \cup {NULL}]
    /\ pool \in [Classes -> SUBSET bufs]
    /\ mem_used \in Int
    /\ buf_tmout \in BOOLEAN
    /\ pc \in PCs
    /\ size \in Nat
    /\ victim \in bufs \cup {NULL}
    /\ wild \in BOOLEAN

\* The blocks obtained from kmalloc: buffers without a left neighbour.
Blocks == {b \in bufs : prv[b] = NULL}

\* b lies inside the block k
InBlock(b, k) == k <= b /\ b + buflen[b] <= k + BlockSize

\* Two owners never share memory: no two buffers overlap, and every buffer lies
\* inside one block.
NoOverlap ==
    /\ \A b, c \in bufs : b # c => b + buflen[b] <= c \/ c + buflen[c] <= b
    /\ \A b \in bufs : \E k \in Blocks : InBlock(b, k)

\* No byte of a block is lost: following _n from the start of a block visits
\* buffers without gaps up to the end of the block, and _p is its inverse.
NoGaps ==
    \A b \in bufs :
        /\ nxt[b] # NULL => nxt[b] = b + buflen[b] /\ prv[nxt[b]] = b
        /\ nxt[b] = NULL => \E k \in Blocks : b + buflen[b] = k + BlockSize
        /\ prv[b] # NULL => nxt[prv[b]] = b

\* In the window of buf_deref the buffer has links = 0 and is on no list yet.
InWindow(b) == pc = "free" /\ victim = b

\* Every free list holds exactly the free buffers of its class, so first fit
\* never hands out a buffer shorter than the request, nor one in use.
FreeListsExact ==
    \A b \in bufs : \A i \in Classes :
        b \in pool[i] <=> /\ links[b] = 0
                          /\ ~InWindow(b)
                          /\ FreeClass(buflen[b]) = i

\* What the inductive argument needs besides: no buffer is shorter than the
\* smallest class, and what the kernel thread remembers between two steps.
Lengths == \A b \in bufs : buflen[b] >= MinSize

ThreadOK ==
    /\ pc = "free" => ~NotYet /\ victim \in bufs /\ links[victim] = 0
    /\ pc # "free" => victim = NULL
    /\ size = 0 \/ size \in MinSize .. BlockSize
    /\ pc = "alloc" => size # 0

\* What holds of the pool between any two steps of threads and interrupts: the
\* buffers tile the blocks without overlap or gap, no buffer is too short to be
\* split off, the free lists hold exactly the free buffers of their class, and
\* what the kernel thread remembers is still true.  (It is inductive.)
BufInv == TypeOK /\ NoOverlap /\ NoGaps /\ Lengths /\ FreeListsExact /\ ThreadOK

\* An unlink never follows the NULL pointers of a buffer that is on no list.
NoWildUnlink == ~wild

\* A buffer somebody owns is neither moved, resized nor taken away by what
\* others allocate, free or collect; only its last owner frees it.
Kept(b) == b \in bufs' /\ buflen'[b] = buflen[b]

OwnedUntouched ==
    [][\A b \in bufs : links[b] > 0 => Kept(b) \/ MaskedDeref(b)]_vars

\* A failed atomic allocation is followed by an attempt to get more memory.
AddmemRuns == buf_tmout ~> ~buf_tmout
=============================================================================
