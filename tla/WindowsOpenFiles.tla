-------------------------- MODULE WindowsOpenFiles --------------------------
(***************************************************************************)
(* Process.OpenFiles on Windows (process/process_windows.go) with          *)
(* CallWithExpandingBuffer (internal/common/common_windows.go).  The call  *)
(* opens the process, reads the machine's table of handles into a buffer   *)
(* that it enlarges until the table fits, duplicates each handle of the    *)
(* process and asks for its path in a goroutine, since that may hang; it   *)
(* waits 100 ms or until its context is done.  All handles are closed when *)
(* the call returns, while late goroutines may still be using them.        *)
(*                                                                         *)
(* Meanwhile the process opens and closes handles or exits, and others     *)
(* open and close theirs.  A path is identified with the object it names,  *)
(* and the duplicate, goroutine and channel of an iteration go by the      *)
(* handle of the process that it is at.                                    *)
(***************************************************************************)
EXTENDS Integers, FiniteSets

CONSTANTS MaxHandle,  \* the handles of the process are 1..MaxHandle
          Numbers,    \* handles of the calling program that it can be given
          Files,      \* regular files
          Others,     \* directories, pipes, keys: objects that are not reported
          Room,       \* entries of the table that fit into the first buffer
          Foreign,    \* an object of the calling program
          MaxForeign, \* bound: handles of other processes in the table
          None        \* no object; as a path, the empty string

ASSUME ConstantsAssumption ==
    /\ MaxHandle \in Nat /\ MaxForeign \in Nat /\ Room \in Nat
    /\ None \notin Files \cup Others \cup Numbers /\ Foreign \notin Files \cup Others \cup {None}
    /\ Files \cap Others = {}

Handles == 1..MaxHandle
Objects == Files \cup Others

VARIABLES
    alive,     \* the process runs
    table,     \* the objects its handles refer to, or None
    foreign,   \* number of handles of other processes
    ctx,       \* the caller's context: "live" or "done"
    pc,        \* where the call stands
    process,   \* the handle of the process: "none", "open", "closed"
    buffer,    \* number of entries the buffer has room for
    todo,      \* listed handles not yet looked at
    handle,    \* the one the loop is at, 0 outside the loop
    dup,       \* what each duplicate referred to when it was made, or None
    opened,    \* the duplicates that are open
    file,      \* the handle of the calling program that each duplicate is, or None
    worker,    \* each goroutine: "none", "naming", "send", "close", "ended"
    fileName,  \* each iteration's variable
    ch,        \* each iteration's channel: "empty", "ready" (a value, or closed)
    files,     \* the result: pairs of a path and a handle of the calling program
    result,    \* "none", "ok", "error"
    missed     \* ghost: handles skipped because of a failure or a timeout

kernelVars == <<alive, table, foreign>>
workerVars == <<worker, fileName, ch>>
handleVars == <<process, dup, opened, file>>
vars == <<kernelVars, ctx, pc, handleVars, buffer, todo, handle, workerVars, files, result, missed>>

Entries == {h \in Handles : table[h] # None}

-----------------------------------------------------------------------------
(* The machine *)

TargetOpen(h, o) ==
    /\ alive /\ table[h] = None
    /\ table' = [table EXCEPT ![h] = o]
    /\ UNCHANGED <<alive, foreign, ctx, pc, handleVars, buffer, todo, handle, workerVars, files,
                   result, missed>>

TargetClose(h) ==
    /\ table[h] # None
    /\ table' = [table EXCEPT ![h] = None]
    /\ UNCHANGED <<alive, foreign, ctx, pc, handleVars, buffer, todo, handle, workerVars, files,
                   result, missed>>

TargetExit ==
    /\ alive
    /\ alive' = FALSE
    /\ table' = [h \in Handles |-> None]
    /\ UNCHANGED <<foreign, ctx, pc, handleVars, buffer, todo, handle, workerVars, files, result,
                   missed>>

ForeignChange(n) ==
    /\ foreign' = n
    /\ UNCHANGED <<alive, table, ctx, pc, handleVars, buffer, todo, handle, workerVars, files,
                   result, missed>>

Cancel ==
    /\ ctx = "live" /\ ctx' = "done"
    /\ UNCHANGED <<kernelVars, pc, handleVars, buffer, todo, handle, workerVars, files, result,
                   missed>>

-----------------------------------------------------------------------------
(* OpenFilesWithContext *)

\* Mutant: the duplicates are closed at the end of the loop and not deferred.
ReturnUndeferred(r) ==
    /\ result' = r
    /\ pc' = "done"
    /\ handle' = 0
    /\ process' = IF process = "open" THEN "closed" ELSE process
    /\ opened' = IF r = "ok" THEN {} ELSE opened
    /\ UNCHANGED <<dup, file>>

\* The deferred calls of CloseHandle run on every return.
Return(r) ==
    /\ result' = r
    /\ pc' = "done"
    /\ handle' = 0
    /\ process' = IF process = "open" THEN "closed" ELSE process
    /\ opened' = {}
    /\ UNCHANGED <<dup, file>>

OpenProcess ==
    /\ pc = "open"
    /\ \/ /\ alive
          /\ process' = "open" /\ pc' = "query"
          /\ UNCHANGED <<handle, dup, opened, file, result>>
       \/ Return("error")
    /\ UNCHANGED <<kernelVars, ctx, buffer, todo, workerVars, files, missed>>

\* Mutant: the larger buffer is not the one the next call is given.
CallWithExpandingBufferLocal ==
    /\ pc = "query"
    /\ LET length == Cardinality(Entries) + foreign
       IN  \/ length > buffer /\ UNCHANGED <<buffer, pc, todo>>
           \/ /\ length <= buffer
              /\ buffer' = length /\ todo' = Entries /\ pc' = "loop"
    /\ UNCHANGED <<kernelVars, ctx, handleVars, handle, workerVars, files, result, missed>>

\* CallWithExpandingBuffer: as long as the table does not fit, the buffer is made as large as
\* the table just was.  Handles of other processes are passed over by the loop.
CallWithExpandingBuffer ==
    /\ pc = "query"
    /\ LET length == Cardinality(Entries) + foreign
       IN  \/ length > buffer /\ buffer' = length /\ UNCHANGED <<pc, todo>>
           \/ /\ length <= buffer
              /\ buffer' = length /\ todo' = Entries /\ pc' = "loop"
    /\ UNCHANGED <<kernelVars, ctx, handleVars, handle, workerVars, files, result, missed>>

\* Any other error of the query ends the call.
QueryFails ==
    /\ pc = "query"
    /\ Return("error")
    /\ UNCHANGED <<kernelVars, ctx, buffer, todo, workerVars, files, missed>>

\* The next handle of the list.  It is duplicated as it is now: the process may have closed
\* it since, or opened something else under the same number.  The duplicate gets a handle
\* that the calling program does not use.
Duplicate ==
    /\ pc = "loop" /\ todo # {}
    /\ LET h == CHOOSE x \in todo : \A y \in todo : x <= y
       IN  /\ todo' = todo \ {h}
           /\ \/ /\ table[h] # None
                 /\ dup' = [dup EXCEPT ![h] = table[h]]
                 /\ opened' = opened \cup {h}
                 /\ \E n \in Numbers \ {file[g] : g \in opened} : file' = [file EXCEPT ![h] = n]
                 /\ handle' = h /\ pc' = "type"
                 /\ UNCHANGED missed
              \/ missed' = missed \cup {h} /\ UNCHANGED <<dup, opened, file, handle, pc>>
    /\ UNCHANGED <<kernelVars, ctx, process, buffer, workerVars, files, result>>

Continue == pc' = "loop" /\ handle' = 0

EndLoop ==
    /\ pc = "loop" /\ todo = {}
    /\ Return("ok")
    /\ UNCHANGED <<kernelVars, ctx, buffer, todo, workerVars, files, missed>>

\* GetFileType; for a file on disk (a directory is one) the goroutine is started.
FileType ==
    /\ pc = "type"
    /\ \/ dup[handle] \in Others /\ Continue /\ UNCHANGED <<worker, missed>>
       \/ Continue /\ missed' = missed \cup {handle} /\ UNCHANGED worker
       \/ /\ worker' = [worker EXCEPT ![handle] = "naming"]
          /\ pc' = "select" /\ UNCHANGED <<handle, missed>>
    /\ UNCHANGED <<kernelVars, ctx, handleVars, buffer, todo, fileName, ch, files, result>>

\* Mutant: a timeout ends the loop.
TimerEndsLoop ==
    /\ pc = "select"
    /\ missed' = missed \cup {handle}
    /\ Return("ok")
    /\ UNCHANGED <<kernelVars, ctx, buffer, todo, workerVars, files>>

\* The select: 100 ms have passed ...
TimerFires ==
    /\ pc = "select"
    /\ missed' = missed \cup {handle}
    /\ Continue
    /\ UNCHANGED <<kernelVars, ctx, handleVars, buffer, todo, workerVars, files, result>>

\* ... or the goroutine is done ...
Receive ==
    /\ pc = "select" /\ ch[handle] = "ready"
    /\ pc' = "stat"
    /\ UNCHANGED <<kernelVars, ctx, handleVars, buffer, todo, handle, workerVars, files, result,
                   missed>>

\* ... or the context is: what was found so far is returned with its error.
CtxDone ==
    /\ pc = "select" /\ ctx = "done"
    /\ Return("error")
    /\ UNCHANGED <<kernelVars, ctx, buffer, todo, workerVars, files, missed>>

\* os.Stat: it fails on the empty path of a goroutine that failed, and may fail on another
\* one; directories are left out, and so are paths already there.  What is reported with the
\* path is the duplicate, which is closed when the call returns.
Stat ==
    /\ pc = "stat"
    /\ LET name == fileName[handle]
       IN  \/ UNCHANGED files /\ missed' = missed \cup {handle}
           \/ name \in Others /\ UNCHANGED <<files, missed>>
           \/ /\ name \notin Others \cup {None}
              /\ files' = IF \E f \in files : f.path = name THEN files
                          ELSE files \cup {[path |-> name, fd |-> file[handle]]}
              /\ UNCHANGED missed
    /\ Continue
    /\ UNCHANGED <<kernelVars, ctx, handleVars, buffer, todo, workerVars, result>>

-----------------------------------------------------------------------------
(* The goroutine of an iteration *)

\* Mutant: fileName is declared outside the loop.
FinalPathNameShared(h) ==
    /\ worker[h] = "naming"
    /\ \/ /\ h \in opened
          /\ fileName' = [fileName EXCEPT ![IF handle = 0 THEN h ELSE handle] = dup[h]]
          /\ worker' = [worker EXCEPT ![h] = "send"]
       \/ worker' = [worker EXCEPT ![h] = "close"] /\ UNCHANGED fileName
    /\ UNCHANGED <<kernelVars, ctx, pc, handleVars, buffer, todo, handle, ch, files, result, missed>>

\* GetFinalPathNameByHandle, when it comes back.  Once the call has closed the handle, its
\* number may belong to something else of the calling program.
FinalPathName(h) ==
    /\ worker[h] = "naming"
    /\ \/ /\ fileName' = [fileName EXCEPT ![h] = IF h \in opened THEN dup[h] ELSE Foreign]
          /\ worker' = [worker EXCEPT ![h] = "send"]
       \/ worker' = [worker EXCEPT ![h] = "close"] /\ UNCHANGED fileName
    /\ UNCHANGED <<kernelVars, ctx, pc, handleVars, buffer, todo, handle, ch, files, result, missed>>

\* The channel has room for one value, so that a late goroutine does not block.
Send(h) ==
    /\ worker[h] = "send"
    /\ ch' = [ch EXCEPT ![h] = "ready"]
    /\ worker' = [worker EXCEPT ![h] = "close"]
    /\ UNCHANGED <<kernelVars, ctx, pc, handleVars, buffer, todo, handle, fileName, files, result,
                   missed>>

\* The deferred close: a receive returns at once, also after an error.
Close(h) ==
    /\ worker[h] = "close"
    /\ ch' = [ch EXCEPT ![h] = "ready"]
    /\ worker' = [worker EXCEPT ![h] = "ended"]
    /\ UNCHANGED <<kernelVars, ctx, pc, handleVars, buffer, todo, handle, fileName, files, result,
                   missed>>

-----------------------------------------------------------------------------
Init ==
    /\ alive = TRUE /\ foreign = 0 /\ ctx = "live"
    /\ table \in [Handles -> Objects \cup {None}]
    /\ pc = "open" /\ process = "none" /\ buffer = Room /\ todo = {} /\ handle = 0
    /\ dup = [h \in Handles |-> None] /\ opened = {} /\ file = [h \in Handles |-> None]
    /\ worker = [h \in Handles |-> "none"]
    /\ fileName = [h \in Handles |-> None]
    /\ ch = [h \in Handles |-> "empty"]
    /\ files = {} /\ result = "none" /\ missed = {}

Machine ==
    \/ \E h \in Handles : TargetClose(h) \/ \E o \in Objects : TargetOpen(h, o)
    \/ TargetExit
    \/ \E n \in 0..MaxForeign : ForeignChange(n)
    \/ Cancel

CallStep ==
    \/ OpenProcess \/ CallWithExpandingBuffer \/ Duplicate \/ EndLoop \/ FileType
    \/ TimerFires \/ Receive \/ CtxDone \/ Stat

Worker(h) == FinalPathName(h) \/ Send(h) \/ Close(h)

Next == Machine \/ CallStep \/ QueryFails \/ \E h \in Handles : Worker(h)

\* The calling goroutine runs and its timers fire; it cannot rely on an error to get out of
\* the loop around the query.  Nothing is assumed of the goroutines:
\* GetFinalPathNameByHandle may never come back.
Spec == Init /\ [][Next]_vars /\ WF_vars(CallStep)

-----------------------------------------------------------------------------
(* Properties *)

\* Every variable has its type; what is reported are files.
TypeOK ==
    /\ alive \in BOOLEAN /\ foreign \in 0..MaxForeign /\ ctx \in {"live", "done"}
    /\ table \in [Handles -> Objects \cup {None}]
    /\ pc \in {"open", "query", "loop", "type", "select", "stat", "done"}
    /\ process \in {"none", "open", "closed"} /\ buffer \in Nat
    /\ todo \subseteq Handles /\ handle \in 0..MaxHandle
    /\ dup \in [Handles -> Objects \cup {None}] /\ opened \subseteq Handles
    /\ file \in [Handles -> Numbers \cup {None}]
    /\ worker \in [Handles -> {"none", "naming", "send", "close", "ended"}]
    /\ fileName \in [Handles -> Objects \cup {None, Foreign}]
    /\ ch \in [Handles -> {"empty", "ready"}]
    /\ files \subseteq [path : Files, fd : Numbers]
    /\ result \in {"none", "ok", "error"} /\ missed \subseteq Handles

\* Each path is what a handle of the process referred to when it was duplicated, and is
\* reported with that duplicate; no two entries share a path or a duplicate.  The name that a
\* goroutine comes back with after its 100 ms, from whatever its handle's number then stands
\* for, gets into nobody's entry.
ReportedTruly ==
    \A f \in files :
        /\ \E h \in Handles : file[h] = f.fd /\ dup[h] = f.path
        /\ \A g \in files : f.path = g.path \/ f.fd = g.fd => f = g

\* However the call returns (the process is gone, the table cannot be read, the context is
\* done, the list is finished), it leaves no handle open.
NothingLeaks == pc = "done" => process # "open" /\ opened = {}

\* A hanging or failing handle costs only its own entry: when the call returns without an
\* error, every handle that was listed and could be looked at in time is accounted for.
RestReported ==
    result = "ok" =>
        /\ todo = {}
        /\ \A h \in Handles \ missed : dup[h] \in Files => \E f \in files : f.path = dup[h]

\* The call returns although goroutines hang and the table grows between two readings.
CallReturns == <>(pc = "done")
=============================================================================
