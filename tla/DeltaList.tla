----------------------------- MODULE DeltaList -----------------------------
(***************************************************************************)
(* Lists whose members store the time to the member before them.  Both the *)
(* events of kernel/timer.c (struct event.delta) and the timeouts of       *)
(* kernel/timeout.c (struct timeout.when) are kept this way; here the      *)
(* field is called delta in both.  Only the first delta counts down, and   *)
(* it is negative when the first member is overdue.                        *)
(***************************************************************************)
EXTENDS Integers, Sequences

\* Prefix(s)[i]: the time until the i-th member is due
Prefix(s) ==
    LET P[i \in 0 .. Len(s)] == IF i = 0 THEN 0 ELSE P[i-1] + s[i].delta
    IN  P

\* Link x behind the first k members, due in d.
Link(s, x, d, k) ==
    LET P == Prefix(s)
    IN  [ i \in 1 .. Len(s) + 1 |->
            CASE i <= k     -> s[i]
              [] i = k + 1  -> [x EXCEPT !.delta = d - P[k]]
              [] i = k + 2  -> [s[k+1] EXCEPT !.delta = P[k+1] - d]
              [] OTHER      -> s[i-1] ]

\* Unlink the i-th member; its successor inherits its delta.
Unlink(s, i) ==
    [ j \in 1 .. Len(s) - 1 |->
        CASE j < i -> s[j]
          [] j = i -> [s[i+1] EXCEPT !.delta = @ + s[i].delta]
          [] OTHER -> s[j+1] ]

\* Number of leading members that are due at d or before / strictly before.
DueBy(s, d) == LET P == Prefix(s)
               IN  CHOOSE k \in 0 .. Len(s) :
                        /\ \A i \in 1 .. k : P[i] <= d
                        /\ k < Len(s) => P[k+1] > d
DueBefore(s, d) == DueBy(s, d - 1)
=============================================================================
