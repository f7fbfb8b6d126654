----------------------- MODULE WindowsOpenFilesProofs -----------------------
(***************************************************************************)
(* For any number of handles, any objects and any size of the first        *)
(* buffer: OpenFiles reports each path once and with its own duplicate,    *)
(* loses only the handles that failed or timed out, and leaves no handle   *)
(* open.                                                                   *)
(***************************************************************************)
EXTENDS WindowsOpenFiles, FiniteSetTheorems, WellFoundedInduction, TLAPS

\* A set of numbers has a least one: the next handle of the list.
LEMMA Least == ASSUME NEW S \in SUBSET Nat, S # {} PROVE \E x \in S : \A y \in S : x <= y
  <1> DEFINE R == OpToRel(<, Nat)
  <1>1. IsWellFoundedOn(R, Nat)
    BY NatLessThanWellFounded
  <1>2. R = {ss \in Nat \X Nat : ss[1] < ss[2]}
    BY DEF OpToRel
  <1> HIDE DEF R
  <1>3. PICK x \in S : \A y \in S : ~(<<y, x>> \in R)
    BY <1>1, WFMin, Zenon
  <1>4. \A y \in S : x <= y
    <2> SUFFICES ASSUME NEW y \in S, ~(x <= y) PROVE FALSE
      OBVIOUS
    <2>1. x \in Nat /\ y \in Nat
      OBVIOUS
    <2>2. y < x
      BY <2>1
    <2>3. <<y, x>> \in R
      BY <1>2, <2>1, <2>2
    <2>4. QED
      BY <1>3, <2>3
  <1>5. QED
    BY <1>4

-----------------------------------------------------------------------------
(* The inductive invariant *)

\* Before the list is there, nothing has been done.
Untouched ==
    pc \in {"open", "query"} =>
        /\ todo = {} /\ opened = {} /\ files = {}
        /\ \A h \in Handles : dup[h] = None /\ file[h] = None /\ worker[h] = "none" /\ fileName[h] = None

\* A handle still on the list has no duplicate and no goroutine.
Waiting ==
    \A h \in todo : /\ dup[h] = None /\ file[h] = None /\ h \notin opened
                    /\ worker[h] = "none" /\ fileName[h] = None

\* The handle the loop is at is off the list, and its duplicate is open.
Current ==
    pc \in {"type", "select", "stat"} =>
        handle \in Handles /\ handle \notin todo /\ handle \in opened

\* As long as a duplicate is open, its goroutine names what was duplicated.
NamedTruly == \A h \in opened : fileName[h] \in {None, dup[h]}

\* Until the call returns every duplicate is open, and each is a handle of its own.
OneEach ==
    pc # "done" =>
        /\ \A h \in Handles : file[h] # None <=> h \in opened
        /\ \A g, h \in opened : file[g] = file[h] => g = h

\* Every file looked at is missed, reported, or being looked at.
Accounted ==
    \A h \in Handles \ missed : dup[h] \in Files =>
        \/ pc \in {"type", "select", "stat"} /\ h = handle
        \/ result = "error"
        \/ \E f \in files : f.path = dup[h]

\* How the call can have ended.
Ended ==
    /\ result # "none" <=> pc = "done"
    /\ result = "ok" => todo = {}
    /\ NothingLeaks

Safe == Untouched /\ Waiting /\ Current /\ NamedTruly /\ OneEach /\ ReportedTruly /\ Accounted /\ Ended

Inv == TypeOK /\ Safe

USE ConstantsAssumption DEF vars, kernelVars, workerVars, handleVars

LEMMA InitInv == Init => Inv
  <1> SUFFICES ASSUME Init PROVE Inv
    OBVIOUS
  <1> USE DEF Init
  <1>1. TypeOK
    BY DEF TypeOK, Handles
  <1>2. Untouched /\ Waiting /\ Current /\ NamedTruly /\ OneEach
    BY DEF Untouched, Waiting, Current, NamedTruly, OneEach
  <1>3. ReportedTruly /\ Accounted /\ Ended
    BY DEF ReportedTruly, Accounted, Ended, NothingLeaks, Objects
  <1>4. QED
    BY <1>1, <1>2, <1>3 DEF Inv, Safe

\* The length of the table is a number.
LEMMA LengthType == Cardinality(Entries) \in Nat
  <1>1. IsFiniteSet(Handles)
    BY FS_Interval DEF Handles
  <1>2. Entries \in SUBSET Handles
    BY DEF Entries
  <1>3. QED
    BY <1>1, <1>2, FS_Subset, FS_CardinalityType

\* The loop takes a handle of the list.
LEMMA NextHandle ==
    ASSUME todo \subseteq Handles, todo # {}
    PROVE  (CHOOSE x \in todo : \A y \in todo : x <= y) \in todo
  <1>1. todo \in SUBSET Nat
    BY DEF Handles
  <1>2. \E x \in todo : \A y \in todo : x <= y
    BY <1>1, Least
  <1>3. QED
    BY <1>2

\* What the loop does with the next handle h.
DuplicateNext(h) ==
    /\ todo' = todo \ {h}
    /\ \/ /\ table[h] # None
          /\ dup' = [dup EXCEPT ![h] = table[h]]
          /\ opened' = opened \cup {h}
          /\ \E n \in Numbers \ {file[g] : g \in opened} : file' = [file EXCEPT ![h] = n]
          /\ handle' = h /\ pc' = "type"
          /\ UNCHANGED missed
       \/ missed' = missed \cup {h} /\ UNCHANGED <<dup, opened, file, handle, pc>>
    /\ UNCHANGED <<kernelVars, ctx, process, buffer, workerVars, files, result>>

LEMMA DuplicateOne ==
    ASSUME TypeOK, Duplicate
    PROVE  pc = "loop" /\ \E h \in todo : DuplicateNext(h)
  <1> DEFINE h == CHOOSE x \in todo : \A y \in todo : x <= y
  <1>1. h \in todo
    BY NextHandle DEF Duplicate, TypeOK
  <1>2. pc = "loop" /\ DuplicateNext(h)
    BY DEF Duplicate, DuplicateNext
  <1> HIDE DEF h
  <1>3. QED
    BY <1>1, <1>2

LEMMA TypeStep == Inv /\ [Next]_vars => TypeOK'
  <1> SUFFICES ASSUME Inv, [Next]_vars PROVE TypeOK'
    OBVIOUS
  <1>a. TypeOK /\ Current
    BY DEF Inv, Safe
  <1> USE <1>a DEF TypeOK
  <1>1. ASSUME NEW h \in Handles, NEW o \in Objects, TargetOpen(h, o) PROVE TypeOK'
    BY <1>1 DEF TargetOpen
  <1>2. ASSUME NEW h \in Handles, TargetClose(h) PROVE TypeOK'
    BY <1>2 DEF TargetClose
  <1>3. ASSUME TargetExit PROVE TypeOK'
    BY <1>3 DEF TargetExit
  <1>4. ASSUME NEW n \in 0..MaxForeign, ForeignChange(n) PROVE TypeOK'
    BY <1>4 DEF ForeignChange
  <1>5. ASSUME Cancel PROVE TypeOK'
    BY <1>5 DEF Cancel
  <1>6. ASSUME OpenProcess PROVE TypeOK'
    BY <1>6 DEF OpenProcess, Return
  <1>7. ASSUME CallWithExpandingBuffer PROVE TypeOK'
    <2>1. Cardinality(Entries) + foreign \in Nat /\ Entries \subseteq Handles
      BY LengthType DEF Entries
    <2>2. buffer' \in Nat /\ todo' \subseteq Handles /\ pc' \in {"query", "loop"}
      BY <1>7, <2>1 DEF CallWithExpandingBuffer
    <2>3. QED
      BY <1>7, <2>2 DEF CallWithExpandingBuffer
  <1>8. ASSUME Duplicate PROVE TypeOK'
    <2>1. PICK h \in todo : DuplicateNext(h)
      BY <1>8, DuplicateOne
    <2>2. h \in Handles /\ h \in 0..MaxHandle /\ table[h] \in Objects \cup {None}
      BY DEF Handles
    <2>3. QED
      BY <2>1, <2>2 DEF DuplicateNext
  <1>9. ASSUME EndLoop PROVE TypeOK'
    BY <1>9 DEF EndLoop, Return
  <1>10. ASSUME FileType PROVE TypeOK'
    <2>1. handle \in Handles /\ handle' \in 0..MaxHandle
      BY <1>10 DEF FileType, Continue, Current
    <2>2. QED
      BY <1>10, <2>1 DEF FileType, Continue
  <1>11. ASSUME TimerFires PROVE TypeOK'
    <2>1. handle \in Handles /\ handle' \in 0..MaxHandle
      BY <1>11 DEF TimerFires, Continue, Current
    <2>2. QED
      BY <1>11, <2>1 DEF TimerFires, Continue
  <1>12. ASSUME Receive PROVE TypeOK'
    BY <1>12 DEF Receive
  <1>13. ASSUME CtxDone PROVE TypeOK'
    BY <1>13 DEF CtxDone, Return
  <1>14. ASSUME Stat PROVE TypeOK'
    <2>1. handle \in Handles /\ handle' \in 0..MaxHandle /\ file[handle] \in Numbers
      BY <1>14 DEF Stat, Continue, Inv, Safe, Current, OneEach
    <2>2. fileName[handle] \notin Others \cup {None} /\ fileName[handle] # Foreign
             => [path |-> fileName[handle], fd |-> file[handle]] \in [path : Files, fd : Numbers]
      BY <2>1 DEF Objects
    <2>3. fileName[handle] # Foreign
      BY <1>14 DEF Stat, Inv, Safe, Current, NamedTruly, Objects
    <2>4. files' \subseteq [path : Files, fd : Numbers] /\ missed' \subseteq Handles
      BY <1>14, <2>1, <2>2, <2>3 DEF Stat
    <2>5. QED
      BY <1>14, <2>1, <2>4 DEF Stat, Continue
  <1>15. ASSUME QueryFails PROVE TypeOK'
    BY <1>15 DEF QueryFails, Return
  <1>16. ASSUME NEW h \in Handles, FinalPathName(h) PROVE TypeOK'
    BY <1>16 DEF FinalPathName
  <1>17. ASSUME NEW h \in Handles, Send(h) PROVE TypeOK'
    BY <1>17 DEF Send
  <1>18. ASSUME NEW h \in Handles, Close(h) PROVE TypeOK'
    BY <1>18 DEF Close
  <1>19. CASE UNCHANGED vars
    BY <1>19
  <1>20. QED
    BY <1>1, <1>2, <1>3, <1>4, <1>5, <1>6, <1>7, <1>8, <1>9, <1>10, <1>11, <1>12, <1>13, <1>14, <1>15, <1>16, <1>17, <1>18, <1>19
       DEF Next, Machine, CallStep, Worker

LEMMA SafeStep == Inv /\ [Next]_vars => Safe'
  <1> SUFFICES ASSUME Inv, [Next]_vars PROVE Safe'
    OBVIOUS
  <1> USE DEF Inv, TypeOK, Safe, Untouched, Waiting, Current, NamedTruly, OneEach, ReportedTruly, Accounted, Ended, NothingLeaks
  <1>1. ASSUME NEW h \in Handles, NEW o \in Objects, TargetOpen(h, o) PROVE Safe'
    BY <1>1 DEF TargetOpen
  <1>2. ASSUME NEW h \in Handles, TargetClose(h) PROVE Safe'
    BY <1>2 DEF TargetClose
  <1>3. ASSUME TargetExit PROVE Safe'
    BY <1>3 DEF TargetExit
  <1>4. ASSUME NEW n \in 0..MaxForeign, ForeignChange(n) PROVE Safe'
    BY <1>4 DEF ForeignChange
  <1>5. ASSUME Cancel PROVE Safe'
    BY <1>5 DEF Cancel
  <1>6. ASSUME OpenProcess PROVE Safe'
    BY <1>6 DEF OpenProcess, Return
  <1>7. ASSUME CallWithExpandingBuffer PROVE Safe'
    <2>1. todo' \subseteq Handles
      BY <1>7 DEF CallWithExpandingBuffer, Entries
    <2>2. QED
      BY <1>7, <2>1 DEF CallWithExpandingBuffer
  <1>8. ASSUME Duplicate PROVE Safe'
    <2>1. PICK h \in todo : DuplicateNext(h)
      BY <1>8, DuplicateOne
    <2>2. pc = "loop"
      BY <1>8 DEF Duplicate
    <2>3. QED
      BY <2>1, <2>2 DEF DuplicateNext
  <1>9. ASSUME EndLoop PROVE Safe'
    BY <1>9 DEF EndLoop, Return
  <1>10. ASSUME FileType PROVE Safe'
    BY <1>10 DEF FileType, Continue
  <1>11. ASSUME TimerFires PROVE Safe'
    BY <1>11 DEF TimerFires, Continue
  <1>12. ASSUME Receive PROVE Safe'
    BY <1>12 DEF Receive
  <1>13. ASSUME CtxDone PROVE Safe'
    BY <1>13 DEF CtxDone, Return
  <1>14. ASSUME Stat PROVE Safe'
    <2>1. handle \in Handles /\ handle \notin todo /\ fileName[handle] \in {None, dup[handle]}
      BY <1>14 DEF Stat
    <2>2. CASE files' = files
      <3>1. dup[handle] \in Files => handle \in missed' \/ \E f \in files : f.path = dup[handle]
        <4> SUFFICES ASSUME dup[handle] \in Files, handle \notin missed'
                     PROVE  \E f \in files : f.path = dup[handle]
          OBVIOUS
        <4>1. handle \in missed' \/ fileName[handle] \in Others \/ fileName[handle] \notin Others \cup {None}
          BY <1>14 DEF Stat
        <4>2. fileName[handle] = dup[handle] /\ dup[handle] \notin Others \cup {None}
          BY <2>1, <4>1
        <4>3. (\E f \in files : f.path = dup[handle]) \/ [path |-> dup[handle], fd |-> file[handle]] \in files'
          BY <1>14, <4>2 DEF Stat
        <4>4. QED
          BY <2>2, <4>3
      <3>2. pc = "stat" /\ dup' = dup /\ result' = result /\ missed \subseteq missed'
        BY <1>14 DEF Stat
      <3>3. Accounted'
        <4> SUFFICES ASSUME NEW h \in Handles, h \notin missed', dup[h] \in Files
                     PROVE  result = "error" \/ \E f \in files : f.path = dup[h]
          BY <2>2, <3>2
        <4>1. CASE h = handle
          BY <3>1, <4>1
        <4>2. CASE h # handle
          BY <3>2, <4>2
        <4>3. QED
          BY <4>1, <4>2
      <3>4. Untouched' /\ Waiting' /\ Current' /\ NamedTruly' /\ Ended'
        BY <1>14 DEF Stat, Continue
      <3>5. ReportedTruly' /\ OneEach'
        BY <1>14, <2>2 DEF Stat
      <3>6. QED
        BY <3>3, <3>4, <3>5
    <2>3. CASE files' # files
      <3> DEFINE new == [path |-> dup[handle], fd |-> file[handle]]
      <3>1. /\ files' = files \cup {new} /\ missed' = missed
            /\ \A f \in files : f.path # dup[handle]
        BY <1>14, <2>1, <2>3 DEF Stat
      <3>2. new.path = dup[handle] /\ new.fd = file[handle]
        OBVIOUS
      <3> HIDE DEF new
      <3>3. ReportedTruly' /\ OneEach'
        BY <1>14, <2>1, <3>1, <3>2 DEF Stat
      <3>4. Accounted'
        BY <1>14, <2>1, <3>1, <3>2 DEF Stat, Continue
      <3>5. Untouched' /\ Waiting' /\ Current' /\ NamedTruly' /\ Ended'
        BY <1>14 DEF Stat, Continue
      <3>6. QED
        BY <3>3, <3>4, <3>5
    <2>4. QED
      BY <2>2, <2>3
  <1>15. ASSUME QueryFails PROVE Safe'
    BY <1>15 DEF QueryFails, Return
  <1>16. ASSUME NEW h \in Handles, FinalPathName(h) PROVE Safe'
    BY <1>16 DEF FinalPathName
  <1>17. ASSUME NEW h \in Handles, Send(h) PROVE Safe'
    BY <1>17 DEF Send
  <1>18. ASSUME NEW h \in Handles, Close(h) PROVE Safe'
    BY <1>18 DEF Close
  <1>19. CASE UNCHANGED vars
    BY <1>19
  <1>20. QED
    BY <1>1, <1>2, <1>3, <1>4, <1>5, <1>6, <1>7, <1>8, <1>9, <1>10, <1>11, <1>12, <1>13, <1>14, <1>15, <1>16, <1>17, <1>18, <1>19
       DEF Next, Machine, CallStep, Worker

LEMMA Invariance == Spec => []Inv
  <1>1. Inv /\ [Next]_vars => Inv'
    BY TypeStep, SafeStep DEF Inv
  <1>2. QED
    BY InitInv, <1>1, PTL DEF Spec

-----------------------------------------------------------------------------
\* What the call, its goroutines and the machine keep has its type.
THEOREM TypeCorrect == Spec => []TypeOK
  BY Invariance, PTL DEF Inv

\* Each path is reported once, with the duplicate of the handle that had it; the name a
\* late goroutine comes back with is in nobody's entry.
THEOREM ReportsTruly == Spec => []ReportedTruly
  BY Invariance, PTL DEF Inv, Safe

\* However OpenFiles returns, it leaves no handle open.
THEOREM LeaksNothing == Spec => []NothingLeaks
  BY Invariance, PTL DEF Inv, Safe, Ended

\* A handle that hangs or fails costs only its own entry.
THEOREM ReportsTheRest == Spec => []RestReported
  <1>1. Inv => RestReported
    BY DEF Inv, Safe, Ended, Accounted, RestReported
  <1>2. QED
    BY <1>1, Invariance, PTL
=============================================================================
