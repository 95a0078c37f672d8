--------------------------- MODULE DeadlineTable ---------------------------
(***************************************************************************)
(* What the event queue of kernel/timer.c promises its clients: every armed*)
(* event has a deadline of its own, which no operation on another event    *)
(* moves, and its function is called only once the deadline has passed.    *)
(*                                                                         *)
(* Time advances in jiffies of 5 ms (the 200 Hz counter at 0x4ba); clients *)
(* ask for multiples of EVTGRAN, two jiffies.  Since the queue is brought  *)
(* up to date in units of EVTGRAN, a deadline may be one jiffy early.      *)
(***************************************************************************)
EXTENDS Integers

CONSTANTS Events, Delays

Null == ""    \* no event

VARIABLES
    due,      \* a function from the armed events to the jiffies they have left
    fired     \* the event whose function was called last, Null after a client
              \* call that fired nothing

Init == due = <<>> /\ fired = Null

Off(e) == due' = [f \in DOMAIN due \ {e} |-> due[f]]

Arm(e, d) ==
    IF d <= 0
    THEN Off(e) /\ fired' = e
    ELSE /\ \E early \in {0, 1} :
              due' = [f \in DOMAIN due \cup {e} |-> IF f = e THEN 2 * d - early ELSE due[f]]
         /\ fired' = Null

Disarm(e) == Off(e) /\ fired' = Null

Expire(e) ==
    /\ e \in DOMAIN due
    /\ due[e] <= 0
    /\ Off(e)
    /\ fired' = e

Jiffy ==
    /\ due' = [e \in DOMAIN due |-> due[e] - 1]
    /\ UNCHANGED fired

Next ==
    \/ \E e \in Events : \/ \E d \in Delays : Arm(e, d)
                         \/ Disarm(e)
                         \/ Expire(e)
    \/ Jiffy

Spec == Init /\ [][Next]_<<due, fired>>
=============================================================================
