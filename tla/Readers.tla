------------------------------ MODULE Readers ------------------------------
(***************************************************************************)
(* One call of a reader (see ReaderCode) while the kernel goes on: the     *)
(* process it asks about may exit, its pid may be given to a new process,  *)
(* and the items of the list it walks (processes, threads, descriptors,    *)
(* interfaces, mounts) come and go between any two of its steps.           *)
(***************************************************************************)
EXTENDS ReaderCode, FiniteSets, Sequences, Functions, TLC

CONSTANTS
    Programs,       \* name of a reader |-> its steps
    Items,          \* what a walk may find
    MaxIncarnation, \* how many processes the pid denotes, one after another
    Mixing,         \* the readers whose result uses the pid more than once
    Fragile,        \* the walkers that give up when an item is gone
    Partial,        \* the walkers that may stop before the end of the list
    Leaking         \* the readers that fail without releasing what they hold

ASSUME ReadersAssumption ==
    /\ MaxIncarnation \in Nat \ {0}
    /\ Mixing \subseteq DOMAIN Programs
    /\ Fragile \subseteq DOMAIN Programs
    /\ Partial \subseteq DOMAIN Programs
    /\ Leaking \subseteq DOMAIN Programs

VARIABLES
    reader,     \* the reader that is called
    code,       \* its steps
    ip,         \* its next step
    held,       \* what it holds open |-> the processes that belongs to
    deferred,   \* the releases Go runs when it returns
    taken,      \* the processes its figures were read from
    todo,       \* the rest of the list being walked
    item,       \* the current item, as a set of at most one
    kept,       \* the items in the result
    excused,    \* the items it left out for a reason of their own
    cause,      \* why the last step that failed did
    result,     \* Busy, or how the call ended
    inc, alive, \* which process has the pid, if any
    present,    \* the items that exist
    stayed      \* those that have existed since the list was taken

call == <<reader, code, ip, held, deferred, taken, todo, item, kept, excused, cause, result>>
kernel == <<inc, alive, present, stayed>>
vars == <<call, kernel>>

Idle == -4
Busy == -5
Incarnations == 1..MaxIncarnation

\* What a reader opens.
Opened(steps) == {s.on : s \in {t \in Range(steps) : t.op \in {"open", "openBare"}}}

\* Readers with the same steps, of which the same is expected, behave alike:
\* one of each kind is executed.
Kinds ==
    [r \in DOMAIN Programs |->
        <<Programs[r], r \in Mixing, r \in Fragile, r \in Partial, r \in Leaking>>]

Representatives ==
    LET kinds == Kinds
    IN  {CHOOSE r \in DOMAIN kinds : kinds[r] = k : k \in Range(kinds)}

At == code[ip]

-----------------------------------------------------------------------------
\* Whether what a step touches can be there at all, and whose it is.
Reachable(on) ==
    /\ on \in {"pid", "part"} => alive
    /\ on \in {"item", "part"} => item \subseteq present

Owner(on) ==
    IF on \in DOMAIN held THEN held[on]
    ELSE IF on \in {"pid", "part"} THEN {inc} ELSE {}

Without(f, S) == [x \in DOMAIN f \ S |-> f[x]]
With(f, x, v) == [y \in DOMAIN f \cup {x} |-> IF y = x THEN v ELSE f[y]]
Nothing == [x \in {} |-> {}]

\* Go runs the deferred releases on every return, early ones included.
Finish(x) ==
    /\ result' = x
    /\ held' = Without(held, deferred)
    /\ deferred' = {}
    /\ UNCHANGED ip

\* The head of the walk that step k is part of.
WalkHead(steps, k) ==
    CHOOSE h \in DOMAIN steps :
        /\ h < k /\ steps[h].op = "each"
        /\ \A j \in DOMAIN steps : h < j /\ j < k => steps[j].op # "each"

\* The step that the branch d of step k leads to.
Target(steps, k, d) == IF d = Skip THEN WalkHead(steps, k) ELSE IF d = On THEN k + 1 ELSE d

GoTo(d) ==
    \/ /\ d \in {Ok, Error}
       /\ Finish(d)
    \/ /\ d \notin {Ok, Error}
       /\ ip' = Target(code, ip, d)
       /\ UNCHANGED <<held, deferred, result>>

Does(ops) == result = Busy /\ At.op \in ops

-----------------------------------------------------------------------------
\* The caller calls the reader again.  Each is looked at on its own: what two
\* calls share is in their programs.
Call ==
    /\ result # Busy
    /\ ip' = 1 /\ result' = Busy
    /\ held' = Nothing /\ deferred' = {} /\ taken' = {}
    /\ todo' = {} /\ item' = {} /\ kept' = {} /\ excused' = {} /\ cause' = "none"
    /\ stayed' = {}
    /\ UNCHANGED <<reader, code, inc, alive, present>>

OpenHandle ==
    /\ Does({"open", "openBare"}) /\ Reachable(At.via)
    /\ held' = With(held, At.on, Owner(At.via))
    /\ deferred' = IF At.op = "open" THEN deferred \cup {At.on} ELSE deferred
    /\ ip' = ip + 1
    /\ UNCHANGED <<reader, code, taken, todo, item, kept, excused, cause, result, kernel>>

CloseHandle ==
    /\ Does({"close"})
    /\ held' = Without(held, {At.on})
    /\ ip' = ip + 1
    /\ UNCHANGED <<reader, code, deferred, taken, todo, item, kept, excused, cause, result, kernel>>

ReadSucceeds ==
    /\ Does({"read", "probe"}) /\ Reachable(At.on)
    /\ taken' = IF At.op = "read" THEN taken \cup Owner(At.on) ELSE taken
    /\ ip' = ip + 1
    /\ UNCHANGED <<reader, code, held, deferred, todo, item, kept, excused, cause, result, kernel>>

ListSucceeds ==
    /\ Does({"list"}) /\ Reachable(At.on)
    /\ taken' = taken \cup Owner(At.on)
    /\ todo' = todo \cup present
    /\ stayed' = IF todo = {} THEN present ELSE stayed
    /\ ip' = ip + 1
    /\ UNCHANGED <<reader, code, held, deferred, item, kept, excused, cause, result, inc, alive, present>>

\* A step fails because what it touches is gone, or for a reason of its own
\* (access, a malformed line, a buffer), which may excuse leaving an item out.
StepFails ==
    /\ Does({"open", "openBare", "read", "probe", "list", "each"})
    /\ cause' = IF Reachable(At.via) THEN "refused"
                ELSE IF alive \/ At.via = "item" THEN "vanished" ELSE "exited"
    /\ excused' = IF cause' = "vanished" THEN excused ELSE excused \cup item
    /\ \E d \in IF cause' = "refused" THEN At.fails ELSE At.gone : GoTo(d)
    /\ UNCHANGED <<reader, code, taken, todo, item, kept, kernel>>

NextItem ==
    /\ Does({"each"})
    /\ cause' = "none"
    /\ \/ /\ todo = {}
          /\ item' = {} /\ ip' = At.to
          /\ UNCHANGED todo
       \/ \E i \in todo :
            /\ item' = {i} /\ todo' = todo \ {i}
            /\ ip' = ip + 1
    /\ UNCHANGED <<reader, code, held, deferred, taken, kept, excused, result, kernel>>

FilterItem ==
    /\ Does({"filter"})
    /\ \/ /\ ip' = ip + 1
          /\ UNCHANGED excused
       \/ /\ ip' = WalkHead(code, ip)
          /\ excused' = excused \cup item
    /\ UNCHANGED <<reader, code, held, deferred, taken, todo, item, kept, cause, result, kernel>>

KeepItem ==
    /\ Does({"keep"})
    /\ kept' = kept \cup item
    /\ ip' = WalkHead(code, ip)
    /\ UNCHANGED <<reader, code, held, deferred, taken, todo, item, excused, cause, result, kernel>>

\* An error the data themselves give rise to is no missing item's doing, and
\* an item they make the reader skip is left out for a reason of its own.
TakeBranch ==
    /\ Does({"branch"})
    /\ \E d \in At.fails :
         /\ GoTo(d)
         /\ cause' = IF d = Error THEN "refused" ELSE cause
         /\ excused' = IF d = Skip THEN excused \cup item ELSE excused
    /\ UNCHANGED <<reader, code, taken, todo, item, kept, kernel>>

ReturnStep ==
    /\ Does({"return"})
    /\ Finish(At.to)
    /\ UNCHANGED <<reader, code, taken, todo, item, kept, excused, cause, kernel>>

-----------------------------------------------------------------------------
(* The kernel. *)

Exit ==
    /\ alive
    /\ alive' = FALSE
    /\ UNCHANGED <<call, inc, present, stayed>>

\* Windows reuses a process id once the process object is gone, which an
\* open handle of the reader prevents.  Only the Windows readers hold a
\* "process" (its handle).
Reuse ==
    /\ ~alive /\ inc < MaxIncarnation
    /\ "process" \notin DOMAIN held
    /\ alive' = TRUE /\ inc' = inc + 1
    /\ UNCHANGED <<call, present, stayed>>

Vanish(i) ==
    /\ i \in present
    /\ present' = present \ {i} /\ stayed' = stayed \ {i}
    /\ UNCHANGED <<call, inc, alive>>

Appear(i) ==
    /\ i \notin present
    /\ present' = present \cup {i}
    /\ UNCHANGED <<call, inc, alive, stayed>>

-----------------------------------------------------------------------------
Init ==
    /\ reader \in Representatives /\ code = Programs[reader] /\ ip = 1 /\ result = Idle
    /\ held = Nothing /\ deferred = {} /\ taken = {}
    /\ todo = {} /\ item = {} /\ kept = {} /\ excused = {} /\ cause = "none"
    /\ inc = 1 /\ alive = TRUE /\ present = Items /\ stayed = {}

ReaderStep ==
    \/ OpenHandle \/ CloseHandle \/ ReadSucceeds \/ ListSucceeds \/ StepFails
    \/ NextItem \/ FilterItem \/ KeepItem \/ TakeBranch \/ ReturnStep

KernelStep == Exit \/ Reuse \/ \E i \in Items : Vanish(i) \/ Appear(i)

Next == ReaderStep \/ KernelStep \/ Call

Spec == Init /\ [][Next]_vars

-----------------------------------------------------------------------------
TypeOK ==
    /\ reader \in DOMAIN Programs /\ code = Programs[reader]
    /\ ip \in DOMAIN code
    /\ DOMAIN held \subseteq Opened(code)
    /\ \A h \in DOMAIN held : held[h] \subseteq Incarnations
    /\ deferred \subseteq Opened(code)
    /\ taken \subseteq Incarnations
    /\ todo \subseteq Items /\ kept \subseteq Items /\ excused \subseteq Items
    /\ item \subseteq Items /\ Cardinality(item) <= 1
    /\ cause \in {"none", "refused", "vanished", "exited"}
    /\ result \in {Idle, Busy, Ok, Error}
    /\ inc \in Incarnations /\ alive \in BOOLEAN
    /\ stayed \subseteq present /\ present \subseteq Items

\* Every return path, the error branches included, releases what the reader
\* opened, but for the error branches of the readers named as leaking; nothing
\* is used after it was released; and nothing is opened over a handle still
\* held, which would lose it (a release already deferred keeps it).
HandlesInOrder ==
    /\ result = Ok \/ (result = Error /\ reader \notin Leaking) => held = Nothing
    /\ result = Busy =>
        /\ At.op \in {"open", "openBare"} => At.on \notin DOMAIN held \ deferred
        /\ \A h \in {At.on, At.via} \cap Opened(code) :
             h \in DOMAIN held \/ (h = At.on /\ At.op \in {"open", "openBare"})

\* A pid reused during the call never yields a result put together from two
\* processes, except in the readers that go back to the pid for a second
\* figure.
OneProcess ==
    result = Ok /\ reader \notin Mixing => Cardinality(taken) <= 1

\* A walk leaves nothing out that was there from the moment the list was
\* taken until the call returned and that nothing else kept out.
StayersListed ==
    result = Ok /\ reader \notin Partial => stayed \subseteq kept \cup excused

\* An item that goes away between the listing and its own turn costs the
\* caller that item, never the whole call.
VanishingHarmless ==
    result = Error /\ cause = "vanished" => reader \in Fragile
=============================================================================
