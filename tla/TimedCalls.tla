----------------------------- MODULE TimedCalls -----------------------------
(***************************************************************************)
(* The two ways in which the library waits for somebody else with a limit  *)
(* on the time: WMIQueryWithContext (internal/common/common_windows.go),   *)
(* which leaves its query to a goroutine and stops waiting when the        *)
(* context is done, and Command and CommandWithContext                     *)
(* (internal/common/common.go), which run a child process, have it killed  *)
(* when the context is done and collect what it prints.                    *)
(*                                                                         *)
(* What os/exec and the kernel do for a command is external and modelled   *)
(* as CommandWithContext uses it: both streams go to one pipe, a goroutine *)
(* copies the pipe into the buffer until the last writer is gone, another  *)
(* kills the child when the context is done and it is not yet reaped, and  *)
(* Wait reaps the child and then waits for the copying goroutine without a *)
(* limit (no WaitDelay is set).                                            *)
(***************************************************************************)
EXTENDS Integers, Sequences

CONSTANTS MaxPieces, PipeSize

ASSUME TimedCallsAssumption == MaxPieces \in Nat /\ PipeSize \in Nat \ {0}

VARIABLES
    kind,       \* "wmi", "command" (CommandWithContext) or "timedCommand" (Command)
    deadline,   \* the context has a deadline
    done,       \* the context is done
    pc,         \* "begin", "select", "wait", "drain", "returned"
    outcome,    \* "none", "ok" or "error"
    fate,       \* how the query or the child ended
    buf,        \* what is in the destination (WMI) or the buffer (command)
    given,      \* what was in it when the call returned
    worker,     \* WMI's goroutine: "none", "querying", "sending", "ended"
    errChan,    \* the channel it sends to
    child,      \* "none", "running", "exited", "reaped"
    killed,     \* the child was sent SIGKILL
    descendant, \* a process the child started holds the pipe too
    pipe,       \* what is in the pipe
    copier      \* exec's copying goroutine: "none", "copying", "ended"

context == <<deadline, done>>
wmi == <<worker, errChan>>
command == <<child, killed, descendant, pipe, copier>>
vars == <<kind, context, pc, outcome, fate, buf, given, wmi, command>>

Returned == pc = "returned"
Commands == {"command", "timedCommand"}

\* Somebody can write into the pipe.
Writers == child = "running" \/ descendant

Return(how) == pc' = "returned" /\ outcome' = how /\ given' = buf

-----------------------------------------------------------------------------
(* WMIQueryWithContext *)

\* Mutant: the context is taken as it is, without a deadline of its own.
BeginQueryAsIs ==
    /\ kind = "wmi" /\ pc = "begin"
    /\ worker' = "querying"
    /\ pc' = "select"
    /\ UNCHANGED <<kind, context, outcome, fate, buf, given, errChan, command>>

\* A context without a deadline gets one; then the goroutine is started,
\* even if the context is done already.
BeginQuery ==
    /\ kind = "wmi" /\ pc = "begin"
    /\ deadline' = TRUE
    /\ worker' = "querying"
    /\ pc' = "select"
    /\ UNCHANGED <<kind, done, outcome, fate, buf, given, errChan, command>>

\* wmi.Query appends the rows to the destination one by one.
QueryRow ==
    /\ worker = "querying" /\ buf < MaxPieces
    /\ buf' = buf + 1
    /\ UNCHANGED <<kind, context, pc, outcome, fate, given, wmi, command>>

QueryEnds ==
    /\ worker = "querying"
    /\ worker' = "sending" /\ fate' \in {"good", "bad"}
    /\ UNCHANGED <<kind, context, pc, outcome, buf, given, errChan, command>>

\* Mutant: a channel without room, which needs a receiver.
SendUnbuffered ==
    /\ worker = "sending" /\ Len(errChan) < 1 /\ pc = "select"
    /\ errChan' = Append(errChan, fate) /\ worker' = "ended"
    /\ UNCHANGED <<kind, context, pc, outcome, fate, buf, given, command>>

\* The channel has room for one error: nobody need be there to receive it.
Send ==
    /\ worker = "sending" /\ Len(errChan) < 1
    /\ errChan' = Append(errChan, fate) /\ worker' = "ended"
    /\ UNCHANGED <<kind, context, pc, outcome, fate, buf, given, command>>

\* Mutant: a query that was given up is no error.
SelectDoneNil ==
    /\ pc = "select" /\ done
    /\ Return("ok")
    /\ UNCHANGED <<kind, context, fate, buf, wmi, command>>

\* When both are ready, select takes either.
SelectDone ==
    /\ pc = "select" /\ done
    /\ Return("error")
    /\ UNCHANGED <<kind, context, fate, buf, wmi, command>>

SelectResult ==
    /\ pc = "select" /\ errChan # <<>>
    /\ Return(IF Head(errChan) = "good" THEN "ok" ELSE "error")
    /\ errChan' = Tail(errChan)
    /\ UNCHANGED <<kind, context, fate, buf, worker, command>>

-----------------------------------------------------------------------------
(* Command and CommandWithContext *)

\* Command gives its context a deadline, CommandWithContext takes the
\* caller's as it is.
StartCommand ==
    /\ kind \in Commands /\ pc = "begin" /\ ~done
    /\ deadline' = (deadline \/ kind = "timedCommand")
    /\ child' = "running" /\ copier' = "copying"
    /\ pc' = "wait"
    /\ UNCHANGED <<kind, done, outcome, fate, buf, given, wmi, killed, descendant, pipe>>

\* There is no such program, it cannot be run, or the context is done.
StartFails ==
    /\ kind \in Commands /\ pc = "begin"
    /\ Return("error")
    /\ UNCHANGED <<kind, context, fate, buf, wmi, command>>

\* A writer waits while the pipe is full.
Write ==
    /\ Writers /\ pipe < PipeSize /\ buf + pipe < MaxPieces
    /\ pipe' = pipe + 1
    /\ UNCHANGED <<kind, context, pc, outcome, fate, buf, given, wmi, child, killed, descendant, copier>>

Fork ==
    /\ child = "running" /\ ~descendant
    /\ descendant' = TRUE
    /\ UNCHANGED <<kind, context, pc, outcome, fate, buf, given, wmi, child, killed, pipe, copier>>

DescendantExits ==
    /\ descendant
    /\ descendant' = FALSE
    /\ UNCHANGED <<kind, context, pc, outcome, fate, buf, given, wmi, child, killed, pipe, copier>>

ChildExits ==
    /\ child = "running"
    /\ child' = "exited" /\ fate' \in {"good", "bad"}
    /\ UNCHANGED <<kind, context, pc, outcome, buf, given, wmi, killed, descendant, pipe, copier>>

\* The context is done before Wait has reaped the child.  The signal reaches
\* the child, or a zombie that has already succeeded, and no other process.
Kill ==
    /\ pc = "wait" /\ done /\ ~killed
    /\ killed' = TRUE /\ child' = "exited"
    /\ fate' = IF child = "running" THEN "bad" ELSE fate
    /\ UNCHANGED <<kind, context, pc, outcome, buf, given, wmi, descendant, pipe, copier>>

\* Mutant: a child is not waited for once the context is done.
ReapOnDone ==
    /\ pc = "wait" /\ (child = "exited" \/ done)
    /\ pc' = "drain" /\ child' = IF done THEN child ELSE "reaped"
    /\ UNCHANGED <<kind, context, outcome, fate, buf, given, wmi, killed, descendant, pipe, copier>>

Reap ==
    /\ pc = "wait" /\ child = "exited"
    /\ child' = "reaped" /\ pc' = "drain"
    /\ UNCHANGED <<kind, context, outcome, fate, buf, given, wmi, killed, descendant, pipe, copier>>

Copy ==
    /\ copier = "copying" /\ pipe > 0
    /\ buf' = buf + pipe /\ pipe' = 0
    /\ UNCHANGED <<kind, context, pc, outcome, fate, given, wmi, child, killed, descendant, copier>>

CopierEnds ==
    /\ copier = "copying" /\ pipe = 0 /\ ~Writers
    /\ copier' = "ended"
    /\ UNCHANGED <<kind, context, pc, outcome, fate, buf, given, wmi, child, killed, descendant, pipe>>

\* Mutant: the copying goroutine is not waited for.
WaitReturnsEarly ==
    /\ pc = "drain"
    /\ Return(IF fate = "good" /\ ~killed THEN "ok" ELSE "error")
    /\ UNCHANGED <<kind, context, fate, buf, wmi, command>>

\* The error is the child's, or the context's if it was killed on its behalf.
WaitReturns ==
    /\ pc = "drain" /\ copier = "ended"
    /\ Return(IF fate = "good" /\ ~killed THEN "ok" ELSE "error")
    /\ UNCHANGED <<kind, context, fate, buf, wmi, command>>

-----------------------------------------------------------------------------
\* The caller's context: its deadline passes, or somebody cancels it.
DeadlinePasses ==
    /\ deadline /\ ~done
    /\ done' = TRUE
    /\ UNCHANGED <<kind, deadline, pc, outcome, fate, buf, given, wmi, command>>

Cancel ==
    /\ ~done /\ kind # "timedCommand"
    /\ done' = TRUE
    /\ UNCHANGED <<kind, deadline, pc, outcome, fate, buf, given, wmi, command>>

-----------------------------------------------------------------------------
Init ==
    /\ kind \in {"wmi"} \cup Commands
    /\ deadline \in IF kind = "timedCommand" THEN {FALSE} ELSE BOOLEAN
    /\ done = FALSE
    /\ pc = "begin" /\ outcome = "none" /\ fate = "undecided" /\ buf = 0 /\ given = 0
    /\ worker = "none" /\ errChan = <<>>
    /\ child = "none" /\ killed = FALSE /\ descendant = FALSE /\ pipe = 0 /\ copier = "none"

Caller == BeginQuery \/ SelectDone \/ SelectResult \/ StartCommand \/ StartFails \/ Reap \/ WaitReturns
Copier == Copy \/ CopierEnds
Others == QueryRow \/ QueryEnds \/ Write \/ Fork \/ DescendantExits \/ ChildExits \/ Cancel

Next == Caller \/ Copier \/ Send \/ Kill \/ DeadlinePasses \/ Others

\* The goroutines of the library and of os/exec run on, and the runtime's
\* timer fires.  A query, a child and its descendants may take for ever.
Fairness ==
    /\ WF_vars(Caller) /\ WF_vars(Copier) /\ WF_vars(Send)
    /\ WF_vars(Kill) /\ WF_vars(DeadlinePasses)

Spec == Init /\ [][Next]_vars /\ Fairness

-----------------------------------------------------------------------------
\* Every variable has its type, and the machinery of the one kind of call is
\* not in use in the other.
TypeOK ==
    /\ kind \in {"wmi"} \cup Commands
    /\ deadline \in BOOLEAN /\ done \in BOOLEAN
    /\ pc \in {"begin", "select", "wait", "drain", "returned"}
    /\ outcome \in {"none", "ok", "error"} /\ fate \in {"undecided", "good", "bad"}
    /\ buf \in Nat /\ given \in Nat /\ pipe \in Nat
    /\ worker \in {"none", "querying", "sending", "ended"}
    /\ errChan \in Seq({"good", "bad"})
    /\ child \in {"none", "running", "exited", "reaped"}
    /\ killed \in BOOLEAN /\ descendant \in BOOLEAN
    /\ copier \in {"none", "copying", "ended"}
    /\ kind = "wmi" => child = "none" /\ copier = "none" /\ ~descendant /\ pipe = 0
    /\ kind \in Commands => worker = "none" /\ errChan = <<>>

\* A WMI query and a command are timed calls: what their caller gets without
\* an error is everything the query found, or the child and whoever else had
\* its pipe printed, after it has ended well.
TC == INSTANCE TimedCall WITH
    made <- buf + pipe,
    open <- IF kind = "wmi" THEN worker \in {"none", "querying"} ELSE child \in {"none", "running"} \/ descendant,
    answer <- IF outcome = "none" THEN -1 ELSE IF outcome = "error" THEN -2 ELSE given

Implements == TC!Spec

\* The bytes a command returned, which alias its buffer, and the rows of a
\* query that succeeded are not written to behind the caller's back.  (The
\* rows of a query that was given up are, and its callers drop them.)
ResultQuiet == [][Returned /\ (kind \in Commands \/ outcome = "ok") => buf' = buf]_vars

\* When CommandWithContext returns, for whatever reason, no child is left
\* behind, running or as a zombie, and nobody holds its pipe.
NothingLeftBehind ==
    Returned /\ kind \in Commands => child \in {"none", "reaped"} /\ copier # "copying" /\ ~Writers

\* A WMI query, a Command and a CommandWithContext whose context has a
\* deadline return, although the query and the child may hang for ever,
\* unless a process the child started keeps the pipe.
CallReturns ==
    (kind \in {"wmi", "timedCommand"} \/ deadline) /\ <>[]~descendant => <>Returned

\* The goroutine of a query that was given up is not left behind once the
\* query ends.
WorkerEnds == worker = "sending" ~> worker = "ended"
=============================================================================
