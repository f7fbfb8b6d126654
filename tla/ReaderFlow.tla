----------------------------- MODULE ReaderFlow -----------------------------
(***************************************************************************)
(* What can be said of a reader (see ReaderCode) from its steps alone: a   *)
(* data-flow analysis of its program, without the kernel, the items and    *)
(* the processes.  A point is a step together with what is known when the  *)
(* reader is there; After follows every branch out of it.                  *)
(*                                                                         *)
(* Processes are told apart by the step that looked them up: a tag is the  *)
(* number of that step.                                                    *)
(***************************************************************************)
EXTENDS Readers

CONSTANT Flow   \* name of a reader |-> the points it can come to

\* What is known at a point of a program.
IsPoint(steps, p) ==
    /\ DOMAIN p.held \subseteq Opened(steps)
    /\ p \in [at : DOMAIN steps,
              result : {Busy, Ok, Error},            \* Busy, or how the call ended there
              held : [DOMAIN p.held -> SUBSET Nat],  \* handle |-> tags
              deferred : SUBSET Opened(steps),
              taken : SUBSET Nat,  \* the tags of the processes read
              rest : BOOLEAN,      \* something may be left of the list
              owed : BOOLEAN,      \* the item may be neither kept nor excused
              gone : BOOLEAN]      \* the last failure may be that of a vanished item

Start ==
    [at |-> 1, result |-> Busy, held |-> Nothing, deferred |-> {}, taken |-> {},
     rest |-> FALSE, owed |-> FALSE, gone |-> FALSE]

\* The process a step gets at.  Whoever holds a process keeps its pid from
\* being reused, and so gets at the same one through the pid.
Pinned(p) == "process" \in DOMAIN p.held /\ p.held["process"] # {}

Tags(p, on) ==
    IF on \in DOMAIN p.held THEN p.held[on]
    ELSE IF on \notin {"pid", "part"} THEN {}
    ELSE IF Pinned(p) THEN p.held["process"] ELSE {p.at}

Ended(p, x) ==
    [p EXCEPT !.result = x, !.held = Without(p.held, p.deferred), !.deferred = {}]

Leave(steps, p, d) ==
    IF d \in {Ok, Error} THEN Ended(p, d) ELSE [p EXCEPT !.at = Target(steps, p.at, d)]

-----------------------------------------------------------------------------
(* The points after p, by the operation of its step s. *)

Forward(p) == [p EXCEPT !.at = p.at + 1]

AfterOpen(s, p) ==
    {[Forward(p) EXCEPT !.held = With(p.held, s.on, Tags(p, s.via)),
                        !.deferred = IF s.op = "open" THEN p.deferred \cup {s.on} ELSE p.deferred]}

AfterClose(s, p) == {[Forward(p) EXCEPT !.held = Without(p.held, {s.on})]}

AfterRead(s, p) == {[Forward(p) EXCEPT !.taken = p.taken \cup Tags(p, s.on)]}

AfterList(s, p) == {[Forward(p) EXCEPT !.taken = p.taken \cup Tags(p, s.on), !.rest = TRUE]}

\* The item a failing step was about is excused, or has vanished.
AfterFailure(steps, s, p) ==
    LET failed == [p EXCEPT !.owed = FALSE, !.gone = FALSE]
    IN  {Leave(steps, failed, d) : d \in s.fails}
        \cup (IF s.via \in {"pid", "part"} THEN {Leave(steps, failed, d) : d \in s.gone} ELSE {})
        \cup (IF s.via \in {"item", "part"}
                THEN {Leave(steps, [failed EXCEPT !.gone = TRUE], d) : d \in s.gone} ELSE {})

AfterEach(s, p) ==
    {[p EXCEPT !.at = s.to, !.rest = FALSE, !.owed = FALSE, !.gone = FALSE]}
    \cup (IF p.rest THEN {[Forward(p) EXCEPT !.owed = TRUE, !.gone = FALSE]} ELSE {})

\* To the head of the walk, with nothing owed for the item.
NextOne(steps, p) == [p EXCEPT !.at = WalkHead(steps, p.at), !.owed = FALSE]

AfterBranch(steps, s, p) ==
    {Leave(steps, [p EXCEPT !.gone = (d # Error /\ p.gone), !.owed = (d # Skip /\ p.owed)], d) :
        d \in s.fails}

After(steps, p) ==
    LET s == steps[p.at]
    IN  CASE s.op \in {"open", "openBare"} -> AfterOpen(s, p) \cup AfterFailure(steps, s, p)
          [] s.op = "close"  -> AfterClose(s, p)
          [] s.op = "read"   -> AfterRead(s, p) \cup AfterFailure(steps, s, p)
          [] s.op = "probe"  -> {Forward(p)} \cup AfterFailure(steps, s, p)
          [] s.op = "list"   -> AfterList(s, p) \cup AfterFailure(steps, s, p)
          [] s.op = "each"   -> AfterEach(s, p) \cup AfterFailure(steps, s, p)
          [] s.op = "filter" -> {Forward(p), NextOne(steps, p)}
          [] s.op = "keep"   -> {NextOne(steps, p)}
          [] s.op = "branch" -> AfterBranch(steps, s, p)
          [] s.op = "return" -> {Ended(p, s.to)}

\* The points are those of a program, from its start on, and as many as there are.
Covers(points, steps) ==
    /\ Start \in points
    /\ \A p \in points :
        IsPoint(steps, p) /\ (p.result = Busy => After(steps, p) \subseteq points)

ASSUME FlowAssumption ==
    \A r \in DOMAIN Programs :
        DOMAIN Programs[r] = 1..Len(Programs[r]) /\ Covers(Flow[r], Programs[r])

-----------------------------------------------------------------------------
(* The discipline *)

Opens(s) == s.op \in {"open", "openBare"}

\* Handles are opened, used and released in order.
HandlesAt(r, steps, p) ==
    LET s == steps[p.at]
    IN  /\ p.result = Ok \/ (p.result = Error /\ r \notin Leaking) => DOMAIN p.held = {}
        /\ p.result = Busy =>
            /\ Opens(s) => s.on \notin DOMAIN p.held \ p.deferred
            /\ \A h \in {s.on, s.via} \cap Opened(steps) :
                 h \in DOMAIN p.held \/ (h = s.on /\ Opens(s))

\* The process a step gets at and makes use of.
Got(s, p) ==
    IF Opens(s) THEN Tags(p, s.via)
    ELSE IF s.op \in {"read", "list"} THEN Tags(p, s.on) ELSE {}

\* The result is from one process, and a step that looks a process up finds
\* nothing in use that it found the last time it was executed.
LookupAt(r, steps, p) ==
    LET s == steps[p.at]
    IN  r \notin Mixing =>
            /\ p.result = Ok => \A t, u \in p.taken : t = u
            /\ p.result = Busy =>
                /\ Opens(s) /\ s.on = "process" => s.via = "pid" /\ "pid" \notin DOMAIN p.held
                /\ p.at \in Got(s, p) =>
                     /\ p.at \notin p.taken
                     /\ \A h \in DOMAIN p.held \ {s.on} : p.at \notin p.held[h]

\* A walk goes to the end of the list and accounts for every item.
WalkAt(r, steps, p) ==
    r \notin Partial =>
        /\ p.result = Ok => ~p.rest /\ ~p.owed
        /\ p.result = Busy /\ steps[p.at].op = "each" => ~p.owed

\* No vanished item fails the call.
FailureAt(r, p) == p.result = Error /\ p.gone => r \in Fragile

InOrder(r, steps, p) ==
    HandlesAt(r, steps, p) /\ LookupAt(r, steps, p) /\ WalkAt(r, steps, p) /\ FailureAt(r, p)

OrderlyReaders ==
    {r \in DOMAIN Programs :
        LET steps == Programs[r] IN \A p \in Flow[r] : InOrder(r, steps, p)}

Orderly == reader \in OrderlyReaders
=============================================================================
