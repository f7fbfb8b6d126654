-------------------------- MODULE GoroutinesProofs --------------------------
(***************************************************************************)
(* The two components that leave work to a goroutine of their own.         *)
(*                                                                         *)
(* LoadAvg, for any number of callers: one sampler is started, and every   *)
(* call of AvgWithContext returns averages and an error of one and the     *)
(* same sample.                                                            *)
(*                                                                         *)
(* TimedCalls, for any length of the output and any size of the pipe: WMI  *)
(* queries and commands implement TimedCall, commands leave nothing        *)
(* behind, and what they returned is not written to.                       *)
(***************************************************************************)
EXTENDS LoadAvg, TimedCalls, TLAPS

-----------------------------------------------------------------------------
(* LoadAvg *)

\* The once lets one caller through to the go statement.
Started ==
    /\ \A c \in Callers : stage[c] = "start" => once = "busy"
    /\ \A c, d \in Callers : stage[c] = "start" /\ stage[d] = "start" => c = d
    /\ started = IF once = "done" THEN 1 ELSE 0
    /\ sampler # "none" => once = "done"

\* Who holds the mutex.
Locks ==
    /\ \A c \in Callers : c \in readers <=> stage[c] \in {"read", "return"}
    /\ writer = "held" <=> sampler \in {"update", "unlock"}
    /\ writer = "pending" => sampler = "lock"
    /\ writer = "held" => readers = {}

\* Outside the sampler's critical section the four variables are of one sample; inside it
\* those already assigned are of the current one.
Data ==
    /\ sampler # "update" => \A f, g \in 1..4 : data[f] = data[g]
    /\ sampler = "update" => \A f \in 1..4 : f < next => data[f] = current

\* What a caller has copied is still what is there.
Copies ==
    /\ \A c \in Callers : stage[c] = "read" =>
          /\ at[c] > 1 => copy[c][2] = data[2]
          /\ at[c] > 2 => copy[c][3] = data[3]
          /\ at[c] > 3 => copy[c][4] = data[4]
    /\ \A c \in Callers : stage[c] = "return" => \A f \in 1..4 : copy[c][f] = data[f]

LoadInv == LoadTypeOK /\ Started /\ Locks /\ Data /\ Copies

\* The two orders of the package variables.
LEMMA Orders ==
    /\ Len(Fields) = 4 /\ 1..Len(Fields) = 1..4
    /\ ReadOrder[1] = 2 /\ ReadOrder[2] = 3 /\ ReadOrder[3] = 4 /\ ReadOrder[4] = 1
    /\ \A i \in 1..4 : ReadOrder[i] \in 1..4
    /\ \A i \in 1..4 : i = 1 \/ i = 2 \/ i = 3 \/ i = 4
  BY DEF Fields, ReadOrder

LEMMA LoadInitInv == LoadInit => LoadInv
  <1> SUFFICES ASSUME LoadInit PROVE LoadInv
    OBVIOUS
  <1> USE Orders, ConstantsAssumption DEF LoadInit, Nothing, NoSample
  <1>1. LoadTypeOK
    BY DEF LoadTypeOK, SampleType
  <1>2. Started /\ Locks /\ Data /\ Copies
    BY DEF Started, Locks, Data, Copies
  <1>3. QED
    BY <1>1, <1>2 DEF LoadInv

LEMMA LoadTypeStep == LoadTypeOK /\ [LoadNext]_loadVars => LoadTypeOK'
  <1> SUFFICES ASSUME LoadTypeOK, [LoadNext]_loadVars PROVE LoadTypeOK'
    OBVIOUS
  <1> USE Orders, ConstantsAssumption DEF LoadTypeOK
  <1>1. ASSUME NEW c \in Callers, Call(c) PROVE LoadTypeOK'
    BY <1>1 DEF Call, samplerVars
  <1>2. ASSUME NEW c \in Callers, OnceEnter(c) PROVE LoadTypeOK'
    BY <1>2 DEF OnceEnter, samplerVars
  <1>3. ASSUME NEW c \in Callers, StartSampler(c) PROVE LoadTypeOK'
    BY <1>3 DEF StartSampler, samplerVars
  <1>4. ASSUME NEW c \in Callers, RLock(c) PROVE LoadTypeOK'
    BY <1>4 DEF RLock, samplerVars
  <1>5. ASSUME NEW c \in Callers, ReadField(c) PROVE LoadTypeOK'
    <2>1. ReadOrder[at[c]] \in 1..4 /\ at[c] \in 1..4
      BY DEF LoadTypeOK
    <2>2. copy' \in [Callers -> [1..Len(Fields) -> SampleType]]
      BY <1>5, <2>1 DEF ReadField
    <2>3. at' \in [Callers -> 1..Len(Fields)] /\ stage' \in [Callers -> {"idle", "once", "start", "rlock", "read", "return"}]
      BY <1>5, <2>1 DEF ReadField
    <2>4. QED
      BY <1>5, <2>2, <2>3 DEF ReadField, samplerVars
  <1>6. ASSUME NEW c \in Callers, ReturnAvg(c) PROVE LoadTypeOK'
    <2>1. Nothing \in [1..Len(Fields) -> SampleType]
      BY DEF Nothing, NoSample, SampleType
    <2>2. QED
      BY <1>6, <2>1 DEF ReturnAvg, samplerVars
  <1>7. CASE CreateCounter \/ Lock \/ Unlock \/ Tick \/ CtxDone \/ CancelFirst
    BY <1>7 DEF CreateCounter, Lock, Unlock, Tick, CtxDone, CancelFirst
  <1>8. CASE GetValue
    <2>1. (current.version + 1) % Versions \in 0..Versions - 1
      BY DEF SampleType
    <2>2. QED
      BY <1>8, <2>1 DEF GetValue, SampleType
  <1>9. CASE Update
    BY <1>9 DEF Update
  <1>10. CASE UNCHANGED loadVars
    BY <1>10 DEF loadVars, samplerVars
  <1>11. QED
    BY <1>1, <1>2, <1>3, <1>4, <1>5, <1>6, <1>7, <1>8, <1>9, <1>10 DEF LoadNext, Sampler, CallStep

LEMMA StartedStep == LoadInv /\ [LoadNext]_loadVars => Started'
  <1> SUFFICES ASSUME LoadInv, [LoadNext]_loadVars PROVE Started'
    OBVIOUS
  <1>0. Started /\ stage \in [Callers -> {"idle", "once", "start", "rlock", "read", "return"}]
        /\ started \in Nat
    BY DEF LoadInv, LoadTypeOK
  <1> USE <1>0 DEF Started
  <1>1. ASSUME NEW c \in Callers, Call(c) \/ RLock(c) \/ ReadField(c) \/ ReturnAvg(c) PROVE Started'
    BY <1>1 DEF Call, RLock, ReadField, ReturnAvg, samplerVars
  <1>2. ASSUME NEW c \in Callers, OnceEnter(c) PROVE Started'
    BY <1>2 DEF OnceEnter, samplerVars
  <1>3. ASSUME NEW c \in Callers, StartSampler(c) PROVE Started'
    BY <1>3 DEF StartSampler
  <1>4. CASE Sampler \/ CancelFirst
    BY <1>4 DEF Sampler, CancelFirst, CreateCounter, GetValue, Lock, Update, Unlock, Tick, CtxDone
  <1>5. CASE UNCHANGED loadVars
    BY <1>5 DEF loadVars, samplerVars
  <1>6. QED
    BY <1>1, <1>2, <1>3, <1>4, <1>5 DEF LoadNext, CallStep

LEMMA LocksStep == LoadInv /\ [LoadNext]_loadVars => Locks'
  <1> SUFFICES ASSUME LoadInv, [LoadNext]_loadVars PROVE Locks'
    OBVIOUS
  <1>0. /\ Locks /\ Started
        /\ stage \in [Callers -> {"idle", "once", "start", "rlock", "read", "return"}]
        /\ readers \subseteq Callers
    BY DEF LoadInv, LoadTypeOK
  <1> USE <1>0 DEF Locks
  <1>1. ASSUME NEW c \in Callers, Call(c) \/ OnceEnter(c) PROVE Locks'
    BY <1>1 DEF Call, OnceEnter, samplerVars
  <1>2. ASSUME NEW c \in Callers, StartSampler(c) PROVE Locks'
    BY <1>2 DEF StartSampler, Started
  <1>3. ASSUME NEW c \in Callers, RLock(c) PROVE Locks'
    BY <1>3 DEF RLock, samplerVars
  <1>4. ASSUME NEW c \in Callers, ReadField(c) PROVE Locks'
    BY <1>4 DEF ReadField, samplerVars
  <1>5. ASSUME NEW c \in Callers, ReturnAvg(c) PROVE Locks'
    BY <1>5 DEF ReturnAvg, samplerVars
  <1>6. CASE Sampler \/ CancelFirst
    BY <1>6 DEF Sampler, CancelFirst, CreateCounter, GetValue, Lock, Update, Unlock, Tick, CtxDone
  <1>7. CASE UNCHANGED loadVars
    BY <1>7 DEF loadVars, samplerVars
  <1>8. QED
    BY <1>1, <1>2, <1>3, <1>4, <1>5, <1>6, <1>7 DEF LoadNext, CallStep

LEMMA DataStep == LoadInv /\ [LoadNext]_loadVars => Data'
  <1> SUFFICES ASSUME LoadInv, [LoadNext]_loadVars PROVE Data'
    OBVIOUS
  <1>0. Data /\ Started /\ next \in 1..4 /\ data \in [1..4 -> SampleType]
    BY Orders DEF LoadInv, LoadTypeOK
  <1> USE <1>0 DEF Data
  <1>1. ASSUME NEW c \in Callers, Call(c) \/ CallStep(c) PROVE Data'
    BY <1>1 DEF Call, CallStep, OnceEnter, StartSampler, RLock, ReadField, ReturnAvg, samplerVars, Started
  <1>2. CASE CreateCounter \/ GetValue \/ Unlock \/ Tick \/ CtxDone \/ CancelFirst
    BY <1>2 DEF CreateCounter, GetValue, Unlock, Tick, CtxDone, CancelFirst
  <1>3. CASE Lock
    BY <1>3 DEF Lock
  <1>4. CASE Update
    BY <1>4, Orders DEF Update
  <1>5. CASE UNCHANGED loadVars
    BY <1>5 DEF loadVars, samplerVars
  <1>6. QED
    BY <1>1, <1>2, <1>3, <1>4, <1>5 DEF LoadNext, Sampler

LEMMA CopiesStep == LoadInv /\ [LoadNext]_loadVars => Copies'
  <1> SUFFICES ASSUME LoadInv, [LoadNext]_loadVars PROVE Copies'
    OBVIOUS
  <1>0. /\ Copies /\ Locks
        /\ stage \in [Callers -> {"idle", "once", "start", "rlock", "read", "return"}]
        /\ copy \in [Callers -> [1..4 -> SampleType]] /\ at \in [Callers -> 1..4]
    BY Orders DEF LoadInv, LoadTypeOK
  <1> USE <1>0 DEF Copies
  <1>1. ASSUME NEW c \in Callers, Call(c) \/ OnceEnter(c) \/ StartSampler(c) PROVE Copies'
    BY <1>1 DEF Call, OnceEnter, StartSampler, samplerVars
  <1>2. ASSUME NEW c \in Callers, RLock(c) PROVE Copies'
    BY <1>2 DEF RLock
  <1>3. ASSUME NEW c \in Callers, ReadField(c) PROVE Copies'
    BY <1>3, Orders DEF ReadField
  <1>4. ASSUME NEW c \in Callers, ReturnAvg(c) PROVE Copies'
    BY <1>4 DEF ReturnAvg
  <1>5. CASE CreateCounter \/ GetValue \/ Lock \/ Unlock \/ Tick \/ CtxDone \/ CancelFirst
    BY <1>5 DEF CreateCounter, GetValue, Lock, Unlock, Tick, CtxDone, CancelFirst
  <1>6. CASE Update
    <2>1. \A c \in Callers : stage[c] \notin {"read", "return"}
      BY <1>6 DEF Update, Locks
    <2>2. QED
      BY <1>6, <2>1 DEF Update
  <1>7. CASE UNCHANGED loadVars
    BY <1>7 DEF loadVars, samplerVars
  <1>8. QED
    BY <1>1, <1>2, <1>3, <1>4, <1>5, <1>6, <1>7 DEF LoadNext, Sampler, CallStep

LEMMA LoadInvariance == LoadSpec => []LoadInv
  <1>1. LoadInv /\ [LoadNext]_loadVars => LoadInv'
    BY LoadTypeStep, StartedStep, LocksStep, DataStep, CopiesStep DEF LoadInv
  <1>2. QED
    BY <1>1, LoadInitInv, PTL DEF LoadSpec

-----------------------------------------------------------------------------
\* The package variables of load_windows.go and the state of the goroutines keep their types.
THEOREM LoadTypeCorrect == LoadSpec => []LoadTypeOK
  <1>1. LoadInv => LoadTypeOK
    BY DEF LoadInv
  <1>2. QED
    BY <1>1, LoadInvariance, PTL

\* The once starts at most one sampler, however many callers race for it.
THEOREM OnlyOneSampler == LoadSpec => []OneSampler
  <1>1. LoadInv => OneSampler
    BY DEF LoadInv, Started, OneSampler
  <1>2. QED
    BY <1>1, LoadInvariance, PTL

\* What AvgWithContext returns is never a mixture of two samples.
THEOREM SnapshotsConsistent == LoadSpec => []SnapshotConsistent
  <1>1. LoadInv => SnapshotConsistent
    <2> SUFFICES ASSUME LoadInv, NEW c \in Callers, stage[c] = "return", NEW f \in 1..4, NEW g \in 1..4
                 PROVE  copy[c][f] = copy[c][g]
      BY Orders DEF SnapshotConsistent
    <2>1. sampler # "update"
      BY DEF LoadInv, Locks
    <2>2. QED
      BY <2>1 DEF LoadInv, Data, Copies
  <1>2. QED
    BY <1>1, LoadInvariance, PTL

-----------------------------------------------------------------------------
(* TimedCalls *)

\* How far the query's goroutine is, and what is in its channel.
Query ==
    kind = "wmi" =>
        /\ pc \in {"begin", "select", "returned"}
        /\ worker \in {"none", "querying"} => fate = "undecided" /\ errChan = <<>>
        /\ worker \in {"sending", "ended"} => fate \in {"good", "bad"}
        /\ worker = "sending" => errChan = <<>>
        /\ errChan = <<>> \/ errChan = <<fate>>
        /\ pc = "begin" => worker = "none"
        /\ outcome = "ok" => worker = "ended"

\* How far the child is, and who can still write to its pipe.
Child ==
    kind \in Commands =>
        /\ pc \in {"begin", "wait", "drain", "returned"}
        /\ pc = "begin" => child = "none"
        /\ pc = "wait" => child \in {"running", "exited"}
        /\ pc = "drain" => child = "reaped"
        /\ pc = "returned" => child \in {"none", "reaped"} /\ copier # "copying"
        /\ child \in {"none", "running"} => fate = "undecided"
        /\ child \in {"exited", "reaped"} => fate \in {"good", "bad"}
        /\ child = "none" <=> copier = "none"
        /\ copier # "copying" => ~descendant /\ child # "running" /\ pipe = 0

Inv == TypeOK /\ Query /\ Child /\ (outcome = "none" <=> pc # "returned")

USE DEF context, wmi, command, vars, Commands

LEMMA InitInv == Init => Inv
  <1> SUFFICES ASSUME Init PROVE Inv
    OBVIOUS
  <1>1. <<>> \in Seq({"good", "bad"})
    OBVIOUS
  <1>2. TypeOK
    BY <1>1 DEF Init, TypeOK
  <1>3. Query /\ Child
    BY DEF Init, Query, Child
  <1>4. QED
    BY <1>2, <1>3 DEF Init, Inv

\* What sending to the channel and receiving from it do to it.
LEMMA Channel ==
    ASSUME NEW e \in {"good", "bad"}
    PROVE  /\ Append(<<>>, e) = <<e>> /\ <<e>> \in Seq({"good", "bad"}) /\ <<e>> # <<>>
           /\ Head(<<e>>) = e /\ Tail(<<e>>) = <<>> /\ <<>> \in Seq({"good", "bad"})
  OBVIOUS

LEMMA NextInv == Inv /\ [Next]_vars => Inv'
  <1> SUFFICES ASSUME Inv, [Next]_vars PROVE Inv'
    OBVIOUS
  <1> USE DEF Inv, TypeOK, Query, Child
  <1>1. CASE BeginQuery
    BY <1>1 DEF BeginQuery
  <1>2. CASE QueryRow
    BY <1>2 DEF QueryRow
  <1>3. CASE QueryEnds
    BY <1>3 DEF QueryEnds
  <1>4. CASE Send
    <2>1. kind = "wmi" /\ errChan = <<>> /\ fate \in {"good", "bad"}
      BY <1>4 DEF Send
    <2>2. errChan' = <<fate>> /\ errChan' \in Seq({"good", "bad"})
      BY <1>4, <2>1, Channel DEF Send
    <2>3. QED
      BY <1>4, <2>1, <2>2 DEF Send
  <1>5. CASE SelectDone
    BY <1>5 DEF SelectDone, Return
  <1>6. CASE SelectResult
    <2>1. kind = "wmi" /\ errChan = <<fate>> /\ fate \in {"good", "bad"}
      BY <1>6 DEF SelectResult
    <2>2. errChan' = <<>> /\ errChan' \in Seq({"good", "bad"})
      BY <1>6, <2>1, Channel DEF SelectResult
    <2>3. QED
      BY <1>6, <2>1, <2>2 DEF SelectResult, Return
  <1>7. CASE StartCommand
    BY <1>7 DEF StartCommand
  <1>8. CASE StartFails
    BY <1>8 DEF StartFails, Return
  <1>9. CASE Write
    BY <1>9 DEF Write, Writers
  <1>10. CASE Fork
    BY <1>10 DEF Fork
  <1>11. CASE DescendantExits
    BY <1>11 DEF DescendantExits
  <1>12. CASE ChildExits
    BY <1>12 DEF ChildExits
  <1>13. CASE Kill
    BY <1>13 DEF Kill
  <1>14. CASE Reap
    BY <1>14 DEF Reap
  <1>15. CASE Copy
    BY <1>15 DEF Copy
  <1>16. CASE CopierEnds
    BY <1>16 DEF CopierEnds, Writers
  <1>17. CASE WaitReturns
    BY <1>17 DEF WaitReturns, Return
  <1>18. CASE DeadlinePasses
    BY <1>18 DEF DeadlinePasses
  <1>19. CASE Cancel
    BY <1>19 DEF Cancel
  <1>20. CASE UNCHANGED vars
    BY <1>20
  <1>21. QED
    BY <1>1, <1>2, <1>3, <1>4, <1>5, <1>6, <1>7, <1>8, <1>9, <1>10, <1>11, <1>12, <1>13, <1>14,
       <1>15, <1>16, <1>17, <1>18, <1>19, <1>20 DEF Next, Caller, Copier, Others

LEMMA Invariant == Spec => []Inv
  BY InitInv, NextInv, PTL DEF Spec

\* What a query and a command keep has its type at every moment.
THEOREM TypeCorrect == Spec => []TypeOK
  BY Invariant, PTL DEF Inv

\* CommandWithContext returns only when its child is reaped and nobody can
\* write to its pipe any more.
THEOREM LeavesNothing == Spec => []NothingLeftBehind
  <1>1. Inv => NothingLeftBehind
    BY DEF Inv, TypeOK, Child, NothingLeftBehind, Returned, Writers
  <1>2. QED
    BY <1>1, Invariant, PTL

\* What a command returned, and the rows of a query that succeeded, stay as
\* they are.
THEOREM ResultsQuiet == Spec => ResultQuiet
  <1>1. ASSUME Inv, [Next]_vars
        PROVE  [Returned /\ (kind \in Commands \/ outcome = "ok") => buf' = buf]_vars
    <2> SUFFICES ASSUME Next, Returned, kind \in Commands \/ outcome = "ok"
                 PROVE  buf' = buf
      BY <1>1
    <2>1. CASE QueryRow
      BY <1>1, <2>1 DEF Inv, TypeOK, Query, QueryRow
    <2>2. CASE Copy
      BY <1>1, <2>2 DEF Inv, TypeOK, Child, Returned, Copy
    <2>3. CASE BeginQuery \/ SelectDone \/ SelectResult \/ StartCommand \/ StartFails \/ Reap \/ WaitReturns
      BY <2>3 DEF BeginQuery, SelectDone, SelectResult, StartCommand, StartFails, Reap, WaitReturns
    <2>4. CASE CopierEnds \/ Send \/ Kill \/ DeadlinePasses
      BY <2>4 DEF CopierEnds, Send, Kill, DeadlinePasses
    <2>5. CASE QueryEnds \/ Write \/ Fork \/ DescendantExits \/ ChildExits \/ Cancel
      BY <2>5 DEF QueryEnds, Write, Fork, DescendantExits, ChildExits, Cancel
    <2>6. QED
      BY <2>1, <2>2, <2>3, <2>4, <2>5 DEF Next, Caller, Copier, Others
  <1>2. QED
    BY <1>1, Invariant, PTL DEF Spec, ResultQuiet

-----------------------------------------------------------------------------
(* The refinement: every step is one of TimedCall or changes nothing there. *)

LEMMA InitImplements == Init => TC!Init
  BY DEF Init, TC!Init, TC!Pending

LEMMA NextImplements == Inv /\ [Next]_vars => [TC!Next]_TC!vars
  <1> SUFFICES ASSUME Inv, [Next]_vars PROVE TC!Next \/ UNCHANGED TC!vars
    BY DEF TC!vars
  <1> USE DEF Inv, TypeOK, Query, Child, TC!vars, TC!Pending, TC!Failed
  <1>1. CASE BeginQuery
    BY <1>1 DEF BeginQuery
  <1>2. CASE QueryRow
    <2>1. TC!Work
      BY <1>2 DEF QueryRow, TC!Work
    <2>2. QED
      BY <2>1 DEF TC!Next
  <1>3. CASE QueryEnds
    <2>1. kind = "wmi" /\ kind' = kind /\ fate = "undecided" /\ fate' \in {"good", "bad"}
      BY <1>3 DEF QueryEnds
    <2>2. worker' \notin {"none", "querying"} /\ UNCHANGED <<buf, pipe, outcome, given>>
      BY <1>3 DEF QueryEnds
    <2>3. (IF kind = "wmi" THEN worker \in {"none", "querying"}
             ELSE child \in {"none", "running"} \/ descendant)' = FALSE
      BY <2>1, <2>2
    <2>4. TC!Settle
      BY <2>1, <2>2, <2>3 DEF TC!Settle
    <2>5. QED
      BY <2>4 DEF TC!Next
  <1>4. CASE Send
    BY <1>4 DEF Send
  <1>5. CASE SelectDone
    <2>1. TC!GiveUp
      BY <1>5 DEF SelectDone, Return, TC!GiveUp
    <2>2. QED
      BY <2>1 DEF TC!Next
  <1>6. CASE SelectResult
    <2>1. kind = "wmi" /\ worker = "ended" /\ Head(errChan) = fate
      BY <1>6, Channel DEF SelectResult
    <2>2. CASE fate = "good"
      <3>1. TC!Answer
        BY <1>6, <2>1, <2>2 DEF SelectResult, Return, TC!Answer
      <3>2. QED
        BY <3>1 DEF TC!Next
    <2>3. CASE fate # "good"
      <3>1. TC!GiveUp
        BY <1>6, <2>1, <2>3 DEF SelectResult, Return, TC!GiveUp
      <3>2. QED
        BY <3>1 DEF TC!Next
    <2>4. QED
      BY <2>2, <2>3
  <1>7. CASE StartCommand
    BY <1>7 DEF StartCommand
  <1>8. CASE StartFails
    <2>1. TC!GiveUp
      BY <1>8 DEF StartFails, Return, TC!GiveUp
    <2>2. QED
      BY <2>1 DEF TC!Next
  <1>9. CASE Write
    <2>1. TC!Work
      BY <1>9 DEF Write, Writers, TC!Work
    <2>2. QED
      BY <2>1 DEF TC!Next
  <1>10. CASE Fork
    BY <1>10 DEF Fork
  <1>11. CASE DescendantExits
    <2>1. CASE child = "running"
      BY <1>11, <2>1 DEF DescendantExits
    <2>2. CASE child # "running"
      <3>1. TC!Close
        BY <1>11, <2>2 DEF DescendantExits, TC!Close
      <3>2. QED
        BY <3>1 DEF TC!Next
    <2>3. QED
      BY <2>1, <2>2
  <1>12. CASE ChildExits
    <2>1. TC!Settle
      BY <1>12 DEF ChildExits, TC!Settle
    <2>2. QED
      BY <2>1 DEF TC!Next
  <1>13. CASE Kill
    <2>1. CASE child = "running"
      <3>1. TC!Settle
        BY <1>13, <2>1 DEF Kill, TC!Settle
      <3>2. QED
        BY <3>1 DEF TC!Next
    <2>2. CASE child = "exited"
      BY <1>13, <2>2 DEF Kill
    <2>3. QED
      BY <1>13, <2>1, <2>2 DEF Kill
  <1>14. CASE Reap
    BY <1>14 DEF Reap
  <1>15. CASE Copy
    BY <1>15 DEF Copy
  <1>16. CASE CopierEnds
    BY <1>16 DEF CopierEnds
  <1>17. CASE WaitReturns
    <2>1. CASE fate = "good" /\ ~killed
      <3>1. TC!Answer
        BY <1>17, <2>1 DEF WaitReturns, Return, TC!Answer
      <3>2. QED
        BY <3>1 DEF TC!Next
    <2>2. CASE ~(fate = "good" /\ ~killed)
      <3>1. TC!GiveUp
        BY <1>17, <2>2 DEF WaitReturns, Return, TC!GiveUp
      <3>2. QED
        BY <3>1 DEF TC!Next
    <2>3. QED
      BY <2>1, <2>2
  <1>18. CASE DeadlinePasses
    BY <1>18 DEF DeadlinePasses
  <1>19. CASE Cancel
    BY <1>19 DEF Cancel
  <1>20. CASE UNCHANGED vars
    BY <1>20
  <1>21. QED
    BY <1>1, <1>2, <1>3, <1>4, <1>5, <1>6, <1>7, <1>8, <1>9, <1>10, <1>11, <1>12, <1>13, <1>14,
       <1>15, <1>16, <1>17, <1>18, <1>19, <1>20 DEF Next, Caller, Copier, Others

\* A WMI query and a command keep the promise of TimedCall: without an error
\* the caller gets all there is, after it is complete and ended well.
THEOREM ImplementsTimedCall == Spec => Implements
  BY InitImplements, NextImplements, Invariant, PTL DEF Spec, Implements, TC!Spec
=============================================================================
