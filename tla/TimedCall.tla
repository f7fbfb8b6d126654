----------------------------- MODULE TimedCall -----------------------------
(***************************************************************************)
(* What a caller may count on when it has work done for it with a limit on *)
(* the time (a query, a command): the answer is all the work has made, it  *)
(* is given only once nobody can add to it and the work has ended well,    *)
(* and it is given once.  Giving up is always possible, and the work may   *)
(* then go on.                                                             *)
(***************************************************************************)
EXTENDS Integers

Pending == -1
Failed == -2

VARIABLES
    made,   \* how much the work has made
    open,   \* somebody can still add to it
    fate,   \* how the work ended: "undecided", "good" or "bad"
    answer  \* Pending, Failed, or how much the caller was given

vars == <<made, open, fate, answer>>

Init == made = 0 /\ open = TRUE /\ fate = "undecided" /\ answer = Pending

Work == open /\ made' = made + 1 /\ UNCHANGED <<open, fate, answer>>

Settle ==
    /\ fate = "undecided" /\ fate' \in {"good", "bad"}
    /\ open' \in {open, FALSE}
    /\ UNCHANGED <<made, answer>>

Close == fate # "undecided" /\ open' = FALSE /\ UNCHANGED <<made, fate, answer>>

Answer ==
    /\ answer = Pending /\ ~open /\ fate = "good"
    /\ answer' = made
    /\ UNCHANGED <<made, open, fate>>

GiveUp == answer = Pending /\ answer' = Failed /\ UNCHANGED <<made, open, fate>>

Next == Work \/ Settle \/ Close \/ Answer \/ GiveUp

Spec == Init /\ [][Next]_vars
=============================================================================
