----------------------------- MODULE ReaderCode -----------------------------
(***************************************************************************)
(* Most of the library is readers: functions that open handles or files,   *)
(* read them, walk a list the kernel gave them, and return.  What can go   *)
(* wrong in one of them is decided by the order of its steps, by where     *)
(* each of its error branches leads and by what the kernel changes between *)
(* two of its steps; two calls only meet in the fields of a process handle *)
(* that some readers fill in and then return (see Refilled).  This module  *)
(* is the notation in which the catalogues (the modules whose names end in *)
(* Readers) write that down: a reader is a sequence of steps, one per call *)
(* that touches the system.  Module Readers executes them.                 *)
(*                                                                         *)
(* What a step touches, its "on":                                          *)
(*   "pid"      the process, looked up by its pid at this moment           *)
(*   "part"     the current item of a walk, found through the pid          *)
(*              (/proc/<pid>/fd/<n>, /proc/<pid>/task/<tid>/stat)          *)
(*   "item"     the current item of a walk, found by its own name          *)
(*   "machine"  what does not belong to one process (a table, a library)   *)
(*   otherwise  a handle, file or buffer the reader has opened             *)
(*                                                                         *)
(* A step that can fail lists where its error branches lead.  A call of    *)
(* another reader is one step: the callee has a program of its own.        *)
(***************************************************************************)
EXTENDS Integers

\* The branches out of a reader: its call fails, or succeeds.
Error == 0
Ok == -1

\* The branches inside it: the next item of the walk (continue), the next
\* step (the error is ignored); a positive number is the step to go on at.
Skip == -2
On == -3

Step(op, on, via, fails, to) ==
    [op |-> op, on |-> on, via |-> via, fails |-> fails, gone |-> fails, to |-> to]

\* The same step where the code tells "it is gone" from the other errors:
\* then only the branches `where' are taken.
WhenGone(step, where) == [step EXCEPT !.gone = where]

\* Open r through via, with its release deferred to the reader's return.
Open(r, via, fails) == Step("open", r, via, fails, 0)

\* Open r through via; only an explicit Close releases it.
OpenBare(r, via, fails) == Step("openBare", r, via, fails, 0)

Close(r) == Step("close", r, "machine", {}, 0)

\* r becomes the caller's, who is to release it.
HandOver(r) == Close(r)

\* Use what `on' names, in the way op says: "read" or "probe".
Use(op, on, fails) == Step(op, on, on, fails, 0)

\* Read, or act on, what `on' names.
Read(on, fails) == Use("read", on, fails)

\* The same when the answer does not go into the result: it only decides
\* how the reader goes on, or is dropped.
Probe(on, fails) == Use("probe", on, fails)

\* The fields of the handle are not protected by a lock: before the reader
\* returns them, a call of another goroutine may have filled them in, all or
\* some of them, from the process that has the pid then.
Refilled == Read("pid", {On})

\* Take the list the following walk goes through, or more of it.
List(on, fails) == Step("list", on, on, fails, 0)

\* The head of a walk: the next item, or step `to' when none is left.
Each(to) == Step("each", "machine", "machine", {}, to)

\* The same when the list is handed out entry by entry by a call that can
\* fail before its end.
EachEntry(to, fails) == Step("each", "machine", "machine", fails, to)

\* The code's condition on the current item: continue with the next one
\* when it does not hold.
Filter == Step("filter", "machine", "machine", {}, 0)

\* The current item goes into the result, and the walk to the next one.
Keep == Step("keep", "machine", "machine", {}, 0)

\* A branch on the data read: any of `where'.
Branch(where) == Step("branch", "machine", "machine", where, 0)

Return(x) == Step("return", "machine", "machine", {}, x)
=============================================================================
