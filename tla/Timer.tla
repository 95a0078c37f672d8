------------------------------- MODULE Timer -------------------------------
(***************************************************************************)
(* The event queue of kernel/timer.c on top of the root timeouts of        *)
(* kernel/timeout.c.                                                       *)
(*                                                                         *)
(* Events (retransmission, delayed ACK, ARP expiry ...) are kept in the    *)
(* delta list allevents.  One root timeout with the function check_events  *)
(* is to be pending while allevents is not empty; nexttimeout points to    *)
(* it.  Root timeouts are kept in the delta list tlist, whose head the     *)
(* system timer interrupt counts down by 20 ms; the dispatcher calls       *)
(* checkalarms, which runs the functions that are due.                     *)
(*                                                                         *)
(* Times are in jiffies of 5 ms and relative to now, so that no clock is   *)
(* needed: behind is GETTIME() - last, phase the jiffies since the last    *)
(* 20 ms interrupt.                                                        *)
(***************************************************************************)
EXTENDS DeltaList, FiniteSets

CONSTANTS
    Events,       \* the struct events of the stack
    Delays,       \* delays clients ask for, in units of EVTGRAN
    Pool,         \* timeout_pool: timeouts for callers at process level
    Static,       \* timeouts[]: timeouts for interrupt handlers
    ExpireLimit,  \* TIMEOUT_EXPIRE_LIMIT
    InputDelays,  \* delays interrupt handlers ask for, in jiffies
    MaxLate,      \* bound: jiffies by which checkalarms is late at most
    FuncTime,     \* bound: jiffies an event's function runs
    Nested        \* TRUE when event functions call event_add and event_del

EVTGRAN == 2      \* 10 ms
TICK == 4         \* 20 ms, the period of etv_timer
Null == ""        \* no timeout, no event

ASSUME TimerAssumption ==
    /\ {ExpireLimit, MaxLate, FuncTime} \subseteq Nat /\ Nested \in BOOLEAN
    /\ Delays \subseteq Int /\ InputDelays \subseteq Nat
    /\ Pool \cap Static = {} /\ Null \notin Pool \cup Static \cup Events

VARIABLES
    allevents,    \* sequence of [ev, delta]; ep->func # 0 for its members
    behind,       \* GETTIME() - last of update_head
    nexttimeout,  \* a timeout, or Null for the null pointer
    tlist,        \* sequence of [id, func, delta]
    expire_list,  \* sequence of [id, func, left]: fired, reusable timeouts
    phase,        \* jiffies since the last etv_timer interrupt
    pc,           \* where the thread of control is
    fired         \* the event whose function was called last

vars == <<allevents, behind, nexttimeout, tlist, expire_list, phase, pc, fired>>
evVars == <<allevents, behind, nexttimeout, fired>>
toVars == <<tlist, expire_list>>

(***************************************************************************)
(* Root timeouts: kernel/timeout.c                                         *)
(***************************************************************************)
Ids(s) == {s[i].id : i \in 1 .. Len(s)}
IndexOf(s, id) == CHOOSE i \in 1 .. Len(s) : s[i].id = id
Without(s, id) ==
    IF id \notin Ids(s) THEN s
    ELSE LET i == IndexOf(s, id)
         IN  SubSeq(s, 1, i - 1) \o SubSeq(s, i + 1, Len(s))

\* A pair of lists, as one state for the functions that change both
Lists == [t |-> tlist, x |-> expire_list]

\* The expired timeout with this function that addroottimeout finds first
Reusable(l, func) ==
    {l.x[i].id : i \in {i \in 1 .. Len(l.x) :
                    /\ l.x[i].func = func
                    /\ \A j \in 1 .. i - 1 : l.x[j].func # func}}

\* Timeouts that are neither pending nor kept for reuse
Unused(l, from) == from \ (Ids(l.t) \cup Ids(l.x))

\* What addroottimeout may return: a reused timeout, else an unused one
Candidates(l, func, from) ==
    IF Reusable(l, func) # {} THEN Reusable(l, func)
    ELSE IF Unused(l, from) = {} THEN {}
         ELSE {CHOOSE id \in Unused(l, from) : TRUE}

\* inserttimeout puts a timeout before those due at the same time.
addroottimeout(l, id, func, delta) ==
    [t |-> Link(l.t, [id |-> id, func |-> func, delta |-> 0], delta,
                DueBefore(l.t, delta)),
     x |-> Without(l.x, id)]

cancelroottimeout_LosesTime(l, id) ==
    IF id \in Ids(l.x) THEN [l EXCEPT !.x = Without(@, id)]
    ELSE IF id \in Ids(l.t) THEN [l EXCEPT !.t = Without(@, id)]
         ELSE l

cancelroottimeout(l, id) ==
    IF id \in Ids(l.x) THEN [l EXCEPT !.x = Without(@, id)]
    ELSE IF id \in Ids(l.t) THEN [l EXCEPT !.t = Unlink(@, IndexOf(@, id))]
         ELSE l

SetLists(l) == tlist' = l.t /\ expire_list' = l.x

\* Pool empty: timeout_alloc executes the illegal instruction.
Illegal == pc' = "illegal" /\ UNCHANGED <<tlist, expire_list>>

(***************************************************************************)
(* The event queue: kernel/timer.c                                         *)
(***************************************************************************)
Armed(s) == {s[i].ev : i \in 1 .. Len(s)}
EvIndex(s, e) == CHOOSE i \in 1 .. Len(s) : s[i].ev = e

\* update_head: what it makes of the list, and of the jiffies b the list is
\* behind
HeadUpdated(s, b) ==
    IF s = <<>> THEN s ELSE [s EXCEPT ![1].delta = @ - (b \div EVTGRAN)]
BehindUpdated(s, b) == IF s = <<>> THEN 0 ELSE b % EVTGRAN

event_remove_LosesTime(s, e) ==
    IF e \in Armed(s) THEN SelectSeq(s, LAMBDA x : x.ev # e) ELSE s

event_remove(s, e) ==
    IF e \in Armed(s) THEN Unlink(s, EvIndex(s, e)) ELSE s

\* Request a check_events timeout in d, given the lists l, and go on at next.
Request(l, d, next) ==
    LET cand == Candidates(l, "check_events", Pool)
    IN  IF cand = {}
        THEN Illegal /\ UNCHANGED nexttimeout
        ELSE /\ \E id \in cand :
                   /\ SetLists(addroottimeout(l, id, "check_events", d * EVTGRAN))
                   /\ nexttimeout' = id
             /\ pc' = next

\* The event queue has a new head: the timeout nexttimeout points to, which
\* may have fired by now, is cancelled and another one requested.
Rearm(d) == Request(cancelroottimeout(Lists, nexttimeout), d, pc)

\* event_insert of e into the list s, in which e is not linked and which is
\* b jiffies behind.  A delay that is not positive runs the function at
\* once.
EventInsert(s, b, e, d) ==
    LET up  == HeadUpdated(s, b)
        new == Link(up, [ev |-> e, delta |-> 0], d, DueBy(up, d))
    IN  IF d <= 0
        THEN /\ allevents' = s /\ behind' = b /\ fired' = e
             /\ UNCHANGED <<nexttimeout, tlist, expire_list, pc>>
        ELSE /\ allevents' = new /\ behind' = BehindUpdated(s, b) /\ fired' = Null
             /\ IF new[1].ev = e THEN Rearm(d)
                ELSE UNCHANGED <<nexttimeout, tlist, expire_list, pc>>

\* Clients run outside checkalarms, or as the function of an event.
ClientRuns == pc = "idle" \/ (pc = "func" /\ Nested)

event_add(e, d) ==
    /\ ClientRuns
    /\ EventInsert(event_remove(allevents, e), behind, e, d)
    /\ UNCHANGED phase

event_del(e) ==
    /\ ClientRuns
    /\ e \in Armed(allevents)
    /\ allevents' = event_remove(allevents, e)
    /\ fired' = Null
    /\ UNCHANGED <<behind, nexttimeout, toVars, phase, pc>>

\* event_delta only brings the head up to date; its result is the deadline.
event_delta ==
    /\ ClientRuns
    /\ allevents' = HeadUpdated(allevents, behind)
    /\ behind' = BehindUpdated(allevents, behind)
    /\ UNCHANGED <<nexttimeout, fired, toVars, phase, pc>>

\* event_reset of an armed event (for others it does nothing but
\* event_delta's update).  If the new deadline equals the old one it returns;
\* the place for a later deadline is searched for from the event's old
\* place; for an earlier deadline the event is inserted anew.
event_reset(e, d) ==
    /\ ClientRuns /\ e \in Armed(allevents)
    /\ LET up    == HeadUpdated(allevents, behind)
           b     == BehindUpdated(allevents, behind)
           i     == EvIndex(up, e)
           ticks == Prefix(up)[i]
           rest  == Unlink(up, i)
           keep  == /\ behind' = b /\ fired' = Null
                    /\ UNCHANGED <<nexttimeout, toVars, pc>>
       IN  \/ d = ticks /\ allevents' = up /\ keep
           \/ /\ d > ticks
              /\ LET rel  == d - (ticks - up[i].delta)  \* from the old place on
                     tail == SubSeq(rest, i, Len(rest))
                 IN  allevents' = SubSeq(rest, 1, i - 1)
                                  \o Link(tail, up[i], rel, DueBy(tail, rel))
              /\ keep
           \/ d < ticks /\ EventInsert(rest, b, e, d)
    /\ UNCHANGED phase

(***************************************************************************)
(* checkalarms, called by the dispatcher, and the functions it runs        *)
(***************************************************************************)
\* The head of tlist leaves it; its successor inherits what it is late.
Fire == SetLists([t |-> Unlink(tlist, 1),
                  x |-> <<[id |-> Head(tlist).id, func |-> Head(tlist).func,
                           left |-> ExpireLimit]>> \o expire_list])

checkalarms ==
    /\ pc = "idle"
    /\ pc' = "alarms"
    /\ UNCHANGED <<evVars, toVars, phase>>

Due == pc = "alarms" /\ tlist # <<>> /\ Head(tlist).delta <= 0

\* The head is a check_events timeout: update_head, then the loop.
CheckEventsStart ==
    /\ Due /\ Head(tlist).func = "check_events"
    /\ Fire
    /\ allevents' = HeadUpdated(allevents, behind)
    /\ behind' = BehindUpdated(allevents, behind)
    /\ pc' = "loop"
    /\ UNCHANGED <<nexttimeout, fired, phase>>

\* The head is the timeout of another module, such as if_doinput.
OtherFunc ==
    /\ Due /\ Head(tlist).func # "check_events"
    /\ Fire
    /\ UNCHANGED <<evVars, phase, pc>>

\* check_events unlinks an event that is due and calls its function ...
CallEvent ==
    /\ pc = "loop"
    /\ allevents # <<>> /\ Head(allevents).delta <= 0
    /\ allevents' = Unlink(allevents, 1)
    /\ fired' = Head(allevents).ev
    /\ pc' = "func"
    /\ UNCHANGED <<behind, nexttimeout, toVars, phase>>

\* ... and updates the head again when the function returns.
EventReturns ==
    /\ pc = "func"
    /\ allevents' = HeadUpdated(allevents, behind)
    /\ behind' = BehindUpdated(allevents, behind)
    /\ pc' = "loop"
    /\ UNCHANGED <<nexttimeout, fired, toVars, phase>>

CheckEventsEnd_KeepsHandle ==
    /\ pc = "loop" /\ allevents = <<>>
    /\ pc' = "alarms"
    /\ UNCHANGED <<evVars, toVars, phase>>

\* The end of check_events: a timeout for the head, none for an empty list.
\* Whether a function called above has requested one is not looked at.
CheckEventsEnd ==
    /\ pc = "loop"
    /\ IF allevents = <<>>
       THEN nexttimeout' = Null /\ pc' = "alarms" /\ UNCHANGED toVars
       ELSE /\ Head(allevents).delta > 0
            /\ Request(Lists, Head(allevents).delta, "alarms")
    /\ UNCHANGED <<allevents, behind, fired, phase>>

\* The end of checkalarms: dispose_old_timeouts drops the first expired
\* timeout that is too old and all behind it.
AlarmsDone ==
    /\ pc = "alarms" /\ ~Due
    /\ LET old == {i \in 1 .. Len(expire_list) : expire_list[i].left < 0}
       IN  expire_list' = SubSeq(expire_list, 1,
                             CHOOSE n \in 0 .. Len(expire_list) :
                                 /\ \A i \in 1 .. n : i \notin old
                                 /\ n < Len(expire_list) => n + 1 \in old)
    /\ pc' = "idle"
    /\ UNCHANGED <<evVars, tlist, phase>>

(***************************************************************************)
(* Interrupts                                                              *)
(***************************************************************************)
\* A driver's addroottimeout(delay, func, 1); null when no slot is left.
InterruptAdds ==
    /\ pc # "illegal"
    /\ \E d \in InputDelays, id \in Candidates(Lists, "if_doinput", Static) :
          SetLists(addroottimeout(Lists, id, "if_doinput", d))
    /\ UNCHANGED <<evVars, phase, pc>>

\* One jiffy; every fourth one new_etv_timer counts the head of tlist down.
Jiffy ==
    /\ pc = "idle" \/ (pc = "func" /\ behind < FuncTime)
    /\ tlist # <<>> => Head(tlist).delta > -MaxLate
    /\ phase' = (phase + 1) % TICK
    /\ behind' = IF allevents = <<>> THEN 0 ELSE behind + 1
    /\ tlist' = IF phase' # 0 \/ tlist = <<>> THEN tlist
                ELSE [tlist EXCEPT ![1].delta = @ - TICK]
    /\ expire_list' = [i \in 1 .. Len(expire_list) |->
          [expire_list[i] EXCEPT !.left = IF @ < 0 THEN @ ELSE @ - 1]]
    /\ UNCHANGED <<allevents, nexttimeout, pc, fired>>

Init ==
    /\ allevents = <<>> /\ behind = 0 /\ nexttimeout = Null
    /\ tlist = <<>> /\ expire_list = <<>>
    /\ phase = 0 /\ pc = "idle" /\ fired = Null

Next ==
    \/ \E e \in Events, d \in Delays : event_add(e, d)
    \/ \E e \in Events, d \in {d \in Delays : d > 0} : event_reset(e, d)
    \/ \E e \in Events : event_del(e)
    \/ event_delta
    \/ checkalarms \/ CheckEventsStart \/ OtherFunc \/ CallEvent
    \/ EventReturns \/ CheckEventsEnd \/ AlarmsDone
    \/ InterruptAdds \/ Jiffy

Spec == Init /\ [][Next]_vars

-----------------------------------------------------------------------------
(***************************************************************************)
(* Properties                                                              *)
(***************************************************************************)
\* The types; no event is twice in allevents, and no timeout is at the same time
\* pending and on the list of those that have fired, or twice in either.
TypeOK ==
    /\ allevents \in Seq([ev : Events, delta : Int])
    /\ Cardinality(Armed(allevents)) = Len(allevents)
    /\ behind \in Nat
    /\ nexttimeout \in Pool \cup {Null}
    /\ tlist \in Seq([id : Pool \cup Static, func : {"check_events", "if_doinput"},
                      delta : Int])
    /\ expire_list \in Seq([id : Pool \cup Static, func : {"check_events", "if_doinput"},
                            left : -1 .. ExpireLimit])
    /\ Cardinality(Ids(tlist) \cup Ids(expire_list)) = Len(tlist) + Len(expire_list)
    /\ phase \in 0 .. TICK - 1
    /\ pc \in {"idle", "alarms", "loop", "func", "illegal"}
    /\ fired \in Events \cup {Null}

\* Jiffies to the deadline the delta list gives event e
Deadline(e) == EVTGRAN * Prefix(allevents)[EvIndex(allevents, e)] - behind

table == INSTANCE DeadlineTable WITH
            due <- [e \in Armed(allevents) |-> Deadline(e)]

\* The delta list of timer.c is a table of independent deadlines: adding,
\* resetting, removing or firing one event, and bringing the head up to date,
\* leaves the deadline of every other event alone; event_add and event_reset
\* give the event the deadline asked for, at most one jiffy early; and an
\* event's function is called only when its deadline has passed.
Deadlines == table!Spec

\* An armed event is not forgotten: while the thread of control is outside
\* checkalarms its deadline has passed by no more than the lateness of
\* checkalarms, the period of etv_timer and one EVTGRAN.  This is where the
\* head of the queue changes without nexttimeout being moved (event_del and
\* event_reset of the head, functions that add events to an empty queue).
Timely ==
    pc = "idle" => \A e \in Armed(allevents) :
                        Deadline(e) >= -(MaxLate + TICK + EVTGRAN)

\* nexttimeout never dangles: outside check_events it is a pending timeout
\* for check_events (so that cancelling it cannot cancel, or free, a timeout
\* that was disposed of and now belongs to someone else), and it is null only
\* when no event is armed.
HandleValid ==
    pc \in {"idle", "alarms"} =>
        IF nexttimeout = Null THEN allevents = <<>>
        ELSE \E i \in 1 .. Len(tlist) :
                tlist[i].id = nexttimeout /\ tlist[i].func = "check_events"

\* What holds of both lists and the handle between the two: it is valid, and no
\* event is forgotten.
TimerInv == TypeOK /\ HandleValid /\ Timely

\* Adding, cancelling, reusing and firing one timeout leaves the deadlines
\* of the other pending timeouts alone: they change only with the timer
\* interrupt.  (A timeout that event_insert cancels and allocates again is
\* the one nexttimeout then points to.)
TimeoutsKeepTime ==
    [][ \A id \in (Ids(tlist) \cap Ids(tlist')) \ {nexttimeout'} :
            Prefix(tlist')[IndexOf(tlist', id)] =
                Prefix(tlist)[IndexOf(tlist, id)]
                    - (IF phase = TICK - 1 /\ phase' = 0 THEN TICK ELSE 0) ]_vars

\* The illegal instruction at the end of timeout_alloc is an assertion that
\* the pool of timeouts is never empty when a timeout is needed.
PoolSuffices == pc # "illegal"
=============================================================================
