----------------------------- MODULE SymbolTable -----------------------------
(***************************************************************************)
(* What the shared libraries of internal/common on macOS promise their     *)
(* callers: a library is opened once and stays open, a symbol is resolved  *)
(* once and stays resolved, and a caller is only ever given the function   *)
(* it asked for, resolved in a library that is open.                       *)
(***************************************************************************)
CONSTANTS Callers, Paths, Symbols

VARIABLES opened,    \* libraries that are open
          resolved,  \* pairs of a library and a symbol
          asked,     \* what each caller waits for, or None
          given      \* the functions each caller has: a set of at most one pair

CONSTANT None

vars == <<opened, resolved, asked, given>>

Functions == Paths \X Symbols

Init ==
    /\ opened = {} /\ resolved = {}
    /\ asked = [c \in Callers |-> None]
    /\ given = [c \in Callers |-> {}]

Ask(c, f) ==
    /\ asked[c] = None
    /\ asked' = [asked EXCEPT ![c] = f]
    /\ given' = [given EXCEPT ![c] = {}]
    /\ UNCHANGED <<opened, resolved>>

\* Only what somebody asked for is opened or resolved.
Open(c) ==
    /\ asked[c] # None /\ asked[c][1] \notin opened
    /\ opened' = opened \cup {asked[c][1]}
    /\ UNCHANGED <<resolved, asked, given>>

Resolve(c) ==
    /\ asked[c] # None /\ asked[c][1] \in opened /\ asked[c] \notin resolved
    /\ resolved' = resolved \cup {asked[c]}
    /\ UNCHANGED <<opened, asked, given>>

Give(c) ==
    /\ asked[c] \in resolved
    /\ given' = [given EXCEPT ![c] = {asked[c]}]
    /\ asked' = [asked EXCEPT ![c] = None]
    /\ UNCHANGED <<opened, resolved>>

\* The library cannot be opened, or it has no such symbol.
Refuse(c) ==
    /\ asked[c] # None
    /\ asked' = [asked EXCEPT ![c] = None]
    /\ UNCHANGED <<opened, resolved, given>>

Next ==
    \E c \in Callers :
        \/ \E f \in Functions : Ask(c, f)
        \/ Open(c) \/ Resolve(c) \/ Give(c) \/ Refuse(c)

Spec == Init /\ [][Next]_vars
=============================================================================
