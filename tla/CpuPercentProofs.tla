-------------------------- MODULE CpuPercentProofs --------------------------
(***************************************************************************)
(* Proofs about CpuPercent, for any number of goroutines, CPUs, ticks and  *)
(* calls: type correctness, the mutual exclusion of the section of         *)
(* percentUsedFromLastCallWithContext, that the intervals reported tile,   *)
(* that a baseline survives a failed read, and that a returned value is a  *)
(* percentage, namely the busy share when no counter went back.            *)
(***************************************************************************)
EXTENDS CpuPercent, FiniteSetTheorems, TLAPS

(* What the arithmetic returns. *)

\* getAllBusy gives two integers.
LEMMA AllBusyType ==
    ASSUME NEW os, NEW t \in TimesStat
    PROVE  getAllBusy(os, t) \in [all : Int, busy : Int]
  BY DEF getAllBusy, Total, TimesStat

\* calculateBusy gives an integer.
LEMMA BusyType ==
    ASSUME NEW os, NEW t1 \in TimesStat, NEW t2 \in TimesStat
    PROVE  calculateBusy(os, t1, t2) \in Int
<1> DEFINE a == getAllBusy(os, t1)
           b == getAllBusy(os, t2)
           q == ((b.busy - a.busy) * 100) \div (b.all - a.all)
<1>1. a \in [all : Int, busy : Int] /\ b \in [all : Int, busy : Int]
  BY AllBusyType
<1> HIDE DEF a, b
<1>2. CASE b.busy > a.busy /\ b.all > a.all
  <2>1. (b.busy - a.busy) * 100 \in Int /\ b.all - a.all \in Nat \ {0}
    BY <1>1, <1>2
  <2>2. q \in Int
    BY <2>1
  <2>3. Clamp(q) \in Int
    BY <2>2 DEF Clamp
  <2>4. calculateBusy(os, t1, t2) = Clamp(q)
    BY <1>1, <1>2 DEF calculateBusy, a, b
  <2> QED
    BY <2>3, <2>4
<1> QED
  BY <1>1, <1>2 DEF calculateBusy, a, b

\* calculateAllBusy gives a result record.
LEMMA AllBusyResult ==
    ASSUME NEW os, NEW t1 \in Seq(TimesStat), NEW t2 \in Seq(TimesStat)
    PROVE  calculateAllBusy(os, t1, t2) \in Result
<1>1. CASE Len(t1) # Len(t2)
  BY <1>1 DEF calculateAllBusy, Failed, Result, Errors
<1>2. CASE Len(t1) = Len(t2)
  <2> DEFINE v == [i \in 1..Len(t2) |-> calculateBusy(os, t1[i], t2[i])]
  <2>1. \A i \in 1..Len(t2) : calculateBusy(os, t1[i], t2[i]) \in Int
    BY <1>2, BusyType
  <2>2. v \in Seq(Int)
    BY <2>1
  <2>3. calculateAllBusy(os, t1, t2) = [ok |-> TRUE, err |-> "none", val |-> v]
    BY <1>2 DEF calculateAllBusy
  <2> HIDE DEF v
  <2> QED
    BY <2>2, <2>3 DEF Result, Errors
<1> QED
  BY <1>1, <1>2

-----------------------------------------------------------------------------
(* The inductive invariant: besides the properties, which calls hold a sample and what the
   owner of the mutex has read. *)

SamplesHeld ==
    \A c \in Callers :
        /\ pc[c] \in {"lock", "read", "store", "unlock", "compute"} => cur[c] # Nil
        /\ pc[c] \in {"sleeping", "second", "compute"} => base[c] # Nil

OwnerUpToDate ==
    \A c \in Callers : pc[c] = "store" => took[c] = version[percpu[c]]

Safe == SamplesHeld /\ MutexHeldInSection /\ OwnerUpToDate /\ IntervalsTile

Inv == TypeOK /\ Safe

\* Every read is a list of lines of the kernel.
LEMMA ReadLines ==
    ASSUME NEW m \in BOOLEAN, NEW s \in TimesWithContext(m), s # Nil, online \in SUBSET (1..MaxCPU)
    PROVE  \E n \in Nat : \E f \in [1..n -> 0..MaxCPU] :
               s = [at |-> now, times |-> [i \in 1..n |-> counters[f[i]]]]
<1> USE ConstantsAssumption
<1>1. PICK S \in SUBSET Listed(m) : s \in ReadNow(S)
  BY DEF TimesWithContext
<1>2. S \in SUBSET (0..MaxCPU)
  <2>1. 1..MaxCPU \subseteq 0..MaxCPU /\ 0 \in 0..MaxCPU
    OBVIOUS
  <2> QED
    BY <2>1 DEF Listed
<1>3. Cardinality(S) \in Nat
  <2>1. IsFiniteSet(0..MaxCPU)
    BY FS_Interval
  <2> QED
    BY <1>2, <2>1, FS_Subset, FS_CardinalityType
<1>4. PICK f \in [1..Cardinality(S) -> S] :
          s = [at |-> now, times |-> [i \in DOMAIN f |-> counters[f[i]]]]
  BY <1>1 DEF ReadNow, InOrder
<1>5. f \in [1..Cardinality(S) -> 0..MaxCPU] /\ DOMAIN f = 1..Cardinality(S)
  BY <1>2, <1>4
<1> QED
  BY <1>3, <1>4, <1>5

\* A read gives a sample or nil.
LEMMA ReadType ==
    ASSUME counters \in [0..MaxCPU -> TimesStat], now \in Nat, online \in SUBSET (1..MaxCPU),
           NEW m \in BOOLEAN
    PROVE  TimesWithContext(m) \subseteq SampleOrNil
<1> SUFFICES ASSUME NEW s \in TimesWithContext(m), s # Nil PROVE s \in Sample
  BY DEF SampleOrNil
<1>1. PICK n \in Nat : \E f \in [1..n -> 0..MaxCPU] :
               s = [at |-> now, times |-> [i \in 1..n |-> counters[f[i]]]]
  BY ReadLines
<1>2. PICK f \in [1..n -> 0..MaxCPU] : s = [at |-> now, times |-> [i \in 1..n |-> counters[f[i]]]]
  BY <1>1
<1>3. [i \in 1..n |-> counters[f[i]]] \in Seq(TimesStat)
  BY <1>2
<1> QED
  BY <1>2, <1>3 DEF Sample

\* The start of the program satisfies the invariant.
LEMMA InitInv == Init => Inv
<1> SUFFICES ASSUME Init PROVE Inv
  OBVIOUS
<1>3. counters \in [0..MaxCPU -> TimesStat]
  BY ConstantsAssumption DEF Init, Boot, TimesStat
<1>4. \A m \in BOOLEAN : TimesWithContext(m) \subseteq SampleOrNil
  BY <1>3, ReadType DEF Init
<1>5. lastTimes \in [BOOLEAN -> SampleOrNil]
  BY <1>4 DEF Init
<1>6. Nothing \in Result
  BY DEF Nothing, Result, Errors
<1>7. TypeOK
  <2>1. online \in SUBSET (1..MaxCPU) /\ now \in Nat
    BY ConstantsAssumption DEF Init
  <2> QED
    BY <2>1, <1>3, <1>5, <1>6 DEF Init, TypeOK, SampleOrNil
<1>8. Safe
  BY ConstantsAssumption
  DEF Init, Safe, SamplesHeld, MutexHeldInSection, InSection, OwnerUpToDate, IntervalsTile
<1> QED
  BY <1>7, <1>8 DEF Inv

\* A tick leaves every counter a counter.
LEMMA BumpType ==
    ASSUME NEW t \in TimesStat, NEW k, k = "back" => t.quiet > 0
    PROVE  Bump(t, k) \in TimesStat
  BY ConstantsAssumption DEF Bump, TimesStat

\* Every step keeps the types.
LEMMA TypeStep == Inv /\ [Next]_vars => TypeOK'
<1> SUFFICES ASSUME Inv, [Next]_vars PROVE TypeOK'
  OBVIOUS
<1> USE DEF Inv
<1>1. ASSUME NEW w \in Work, Tick(w[1], w[2]) PROVE TypeOK'
  <2> DEFINE k == IF w[2] = "guest" /\ goos # "linux" THEN "user" ELSE w[2]
  <2>1. w[1] \in 1..MaxCPU /\ counters[0] \in TimesStat /\ counters[w[1]] \in TimesStat
    BY ConstantsAssumption DEF TypeOK
  <2>2. k = "back" => counters[0].quiet > 0 /\ counters[w[1]].quiet > 0
    BY <1>1 DEF Tick
  <2>3. Bump(counters[0], k) \in TimesStat /\ Bump(counters[w[1]], k) \in TimesStat
    BY <2>1, <2>2, BumpType
  <2>4. counters' = [counters EXCEPT ![0] = Bump(counters[0], k),
                                     ![w[1]] = Bump(counters[w[1]], k)]
    BY <1>1, <2>1 DEF Tick
  <2>5. counters' \in [0..MaxCPU -> TimesStat]
    BY <2>1, <2>3, <2>4 DEF TypeOK
  <2> QED
    BY <1>1, <2>5 DEF Tick, TypeOK, callVars, ghostVars
<1>2. CASE Hotplug
  BY <1>2 DEF Hotplug, TypeOK, callVars, ghostVars
<1>3. ASSUME NEW c \in Callers, NEW m \in BOOLEAN, NEW interval \in BOOLEAN,
             Begin(c, m, interval)
      PROVE  TypeOK'
  BY <1>3 DEF Begin, TypeOK, kernelVars, ghostVars
<1>4. ASSUME NEW c \in Callers, Cancel(c) PROVE TypeOK'
  BY <1>4 DEF Cancel, TypeOK, kernelVars, ghostVars
<1>5. ASSUME NEW c \in Callers, Step(c) PROVE TypeOK'
  <2>0. /\ \A e \in Errors : Failed(e) \in Result
        /\ Nothing \in Result
        /\ Nil \in SampleOrNil
    BY DEF Failed, Nothing, Result, Errors, SampleOrNil
  <2>r. TimesWithContext(percpu[c]) \subseteq SampleOrNil
    BY ReadType DEF TypeOK
  <2>1. CASE FirstSample(c)
    <3>1. PICK s \in SampleOrNil :
             \/ s = Nil /\ Return(c, Failed("times")) /\ UNCHANGED base
             \/ /\ s # Nil
                /\ base' = [base EXCEPT ![c] = s]
                /\ pc' = [pc EXCEPT ![c] = "sleeping"]
                /\ UNCHANGED result
      BY <2>1, <2>r DEF FirstSample
    <3>2. UNCHANGED <<kernelVars, lastTimes, mutex, percpu, cancelled, cur, calls, ghostVars>>
      BY <2>1 DEF FirstSample
    <3>3. CASE s = Nil
      <4>1. Return(c, Failed("times")) /\ UNCHANGED base
        BY <3>1, <3>3
      <4> QED
        BY <2>0, <3>2, <4>1 DEF Return, Errors, TypeOK, kernelVars, ghostVars
    <3>4. CASE s # Nil
      <4>1. /\ base' = [base EXCEPT ![c] = s]
            /\ pc' = [pc EXCEPT ![c] = "sleeping"]
            /\ UNCHANGED result
        BY <3>1, <3>4
      <4> QED
        BY <3>2, <4>1 DEF TypeOK, kernelVars, ghostVars
    <3> QED
      BY <3>3, <3>4
  <2>2. CASE TimerFires(c)
    BY <2>2 DEF TimerFires, TypeOK, kernelVars, ghostVars
  <2>3. CASE SleepCancelled(c)
    BY <2>0, <2>3 DEF SleepCancelled, Return, Errors, TypeOK, kernelVars, ghostVars
  <2>4. CASE SecondSample(c)
    <3>1. PICK s \in SampleOrNil :
             \/ s = Nil /\ Return(c, Failed("times")) /\ UNCHANGED cur
             \/ /\ s # Nil
                /\ cur' = [cur EXCEPT ![c] = s]
                /\ pc' = [pc EXCEPT ![c] = "compute"]
                /\ UNCHANGED result
      BY <2>4, <2>r DEF SecondSample
    <3>2. UNCHANGED <<kernelVars, lastTimes, mutex, percpu, cancelled, base, calls, ghostVars>>
      BY <2>4 DEF SecondSample
    <3>3. CASE s = Nil
      <4>1. Return(c, Failed("times")) /\ UNCHANGED cur
        BY <3>1, <3>3
      <4> QED
        BY <2>0, <3>2, <4>1 DEF Return, Errors, TypeOK, kernelVars, ghostVars
    <3>4. CASE s # Nil
      <4>1. /\ cur' = [cur EXCEPT ![c] = s]
            /\ pc' = [pc EXCEPT ![c] = "compute"]
            /\ UNCHANGED result
        BY <3>1, <3>4
      <4> QED
        BY <3>2, <4>1 DEF TypeOK, kernelVars, ghostVars
    <3> QED
      BY <3>3, <3>4
  <2>5. CASE ReturnInterval(c)
    <3>1. base[c] \in Sample /\ cur[c] \in Sample
      BY <2>5 DEF ReturnInterval, Safe, SamplesHeld, TypeOK, SampleOrNil
    <3>2. calculateAllBusy(goos, base[c].times, cur[c].times) \in Result
      BY <3>1, AllBusyResult DEF Sample
    <3> QED
      BY <2>5, <3>2 DEF ReturnInterval, Return, TypeOK, kernelVars, ghostVars
  <2>6. CASE LastCallSample(c)
    <3>1. PICK s \in SampleOrNil :
             \/ s = Nil /\ Return(c, Failed("times")) /\ UNCHANGED cur
             \/ /\ s # Nil
                /\ cur' = [cur EXCEPT ![c] = s]
                /\ pc' = [pc EXCEPT ![c] = "lock"]
                /\ UNCHANGED result
      BY <2>6, <2>r DEF LastCallSample
    <3>2. UNCHANGED <<kernelVars, lastTimes, mutex, percpu, cancelled, base, calls, ghostVars>>
      BY <2>6 DEF LastCallSample
    <3>3. CASE s = Nil
      <4>1. Return(c, Failed("times")) /\ UNCHANGED cur
        BY <3>1, <3>3
      <4> QED
        BY <2>0, <3>2, <4>1 DEF Return, Errors, TypeOK, kernelVars, ghostVars
    <3>4. CASE s # Nil
      <4>1. /\ cur' = [cur EXCEPT ![c] = s]
            /\ pc' = [pc EXCEPT ![c] = "lock"]
            /\ UNCHANGED result
        BY <3>1, <3>4
      <4> QED
        BY <3>2, <4>1 DEF TypeOK, kernelVars, ghostVars
    <3> QED
      BY <3>3, <3>4
  <2>7. CASE LockLast(c)
    BY <2>7 DEF LockLast, TypeOK, kernelVars, ghostVars
  <2>8. CASE ReadLast(c)
    BY <2>8 DEF ReadLast, TypeOK, kernelVars
  <2>9. CASE StoreLast(c)
    BY <2>9 DEF StoreLast, TypeOK, kernelVars
  <2>10. CASE ReturnLast(c)
    <3>1. cur[c] \in Sample /\ (base[c] # Nil => base[c] \in Sample)
      BY <2>10 DEF ReturnLast, Safe, SamplesHeld, TypeOK, SampleOrNil
    <3> DEFINE r == IF base[c] = Nil THEN Failed("nil")
                    ELSE calculateAllBusy(goos, base[c].times, cur[c].times)
    <3>2. r \in Result
      BY <2>0, <3>1, AllBusyResult DEF Sample, Errors
    <3> QED
      BY <2>10, <3>2 DEF ReturnLast, Return, TypeOK, kernelVars, ghostVars
  <2>11. CASE Finish(c)
    BY <2>0, <2>11 DEF Finish, TypeOK, kernelVars
  <2> QED
    BY <1>5, <2>1, <2>2, <2>3, <2>4, <2>5, <2>6, <2>7, <2>8, <2>9, <2>10, <2>11 DEF Step
<1>6. CASE UNCHANGED vars
  BY <1>6 DEF vars, kernelVars, callVars, ghostVars, TypeOK
<1> QED
  BY <1>1, <1>2, <1>3, <1>4, <1>5, <1>6 DEF Next, Kernel

\* Every step keeps the rest of the invariant.
LEMMA SafeStep == Inv /\ [Next]_vars => Safe'
<1> SUFFICES ASSUME Inv, [Next]_vars PROVE Safe'
  OBVIOUS
<1> USE DEF Inv, Safe, SamplesHeld, MutexHeldInSection, InSection, OwnerUpToDate,
            IntervalsTile
<1>1. ASSUME NEW w \in Work, Tick(w[1], w[2]) PROVE Safe'
  BY <1>1 DEF Tick, callVars, ghostVars
<1>2. CASE Hotplug
  BY <1>2 DEF Hotplug, callVars, ghostVars
<1>3. ASSUME NEW c \in Callers, NEW m \in BOOLEAN, NEW interval \in BOOLEAN,
             Begin(c, m, interval)
      PROVE  Safe'
  BY <1>3 DEF Begin, TypeOK, ghostVars
<1>4. ASSUME NEW c \in Callers, Cancel(c) PROVE Safe'
  BY <1>4 DEF Cancel, ghostVars
<1>5. ASSUME NEW c \in Callers, Step(c) PROVE Safe'
  <2>1. CASE FirstSample(c)
    <3>1. PICK s :
             \/ s = Nil /\ Return(c, Failed("times")) /\ UNCHANGED base
             \/ /\ s # Nil
                /\ base' = [base EXCEPT ![c] = s]
                /\ pc' = [pc EXCEPT ![c] = "sleeping"]
                /\ UNCHANGED result
      BY <2>1 DEF FirstSample
    <3>2. /\ pc[c] = "first"
          /\ UNCHANGED <<lastTimes, mutex, percpu, cur, ghostVars>>
      BY <2>1 DEF FirstSample
    <3>3. CASE s = Nil
      <4>1. pc' = [pc EXCEPT ![c] = "done"] /\ UNCHANGED base
        BY <3>1, <3>3 DEF Return
      <4> QED
        BY <3>2, <4>1 DEF TypeOK, ghostVars
    <3>4. CASE s # Nil
      <4>1. /\ base' = [base EXCEPT ![c] = s]
            /\ pc' = [pc EXCEPT ![c] = "sleeping"]
        BY <3>1, <3>4
      <4> QED
        BY <3>2, <3>4, <4>1 DEF TypeOK, ghostVars
    <3> QED
      BY <3>3, <3>4
  <2>2. CASE TimerFires(c)
    BY <2>2 DEF TimerFires, TypeOK, ghostVars
  <2>3. CASE SleepCancelled(c)
    BY <2>3 DEF SleepCancelled, Return, TypeOK, ghostVars
  <2>4. CASE SecondSample(c)
    <3>1. PICK s :
             \/ s = Nil /\ Return(c, Failed("times")) /\ UNCHANGED cur
             \/ /\ s # Nil
                /\ cur' = [cur EXCEPT ![c] = s]
                /\ pc' = [pc EXCEPT ![c] = "compute"]
                /\ UNCHANGED result
      BY <2>4 DEF SecondSample
    <3>2. /\ pc[c] = "second"
          /\ UNCHANGED <<lastTimes, mutex, percpu, base, ghostVars>>
      BY <2>4 DEF SecondSample
    <3>3. CASE s = Nil
      <4>1. pc' = [pc EXCEPT ![c] = "done"] /\ UNCHANGED cur
        BY <3>1, <3>3 DEF Return
      <4> QED
        BY <3>2, <4>1 DEF TypeOK, ghostVars
    <3>4. CASE s # Nil
      <4>1. /\ cur' = [cur EXCEPT ![c] = s]
            /\ pc' = [pc EXCEPT ![c] = "compute"]
        BY <3>1, <3>4
      <4> QED
        BY <3>2, <3>4, <4>1 DEF TypeOK, ghostVars
    <3> QED
      BY <3>3, <3>4
  <2>5. CASE ReturnInterval(c)
    BY <2>5 DEF ReturnInterval, Return, TypeOK, ghostVars
  <2>6. CASE LastCallSample(c)
    <3>1. PICK s :
             \/ s = Nil /\ Return(c, Failed("times")) /\ UNCHANGED cur
             \/ /\ s # Nil
                /\ cur' = [cur EXCEPT ![c] = s]
                /\ pc' = [pc EXCEPT ![c] = "lock"]
                /\ UNCHANGED result
      BY <2>6 DEF LastCallSample
    <3>2. /\ pc[c] = "sample"
          /\ UNCHANGED <<lastTimes, mutex, percpu, base, ghostVars>>
      BY <2>6 DEF LastCallSample
    <3>3. CASE s = Nil
      <4>1. pc' = [pc EXCEPT ![c] = "done"] /\ UNCHANGED cur
        BY <3>1, <3>3 DEF Return
      <4> QED
        BY <3>2, <4>1 DEF TypeOK, ghostVars
    <3>4. CASE s # Nil
      <4>1. /\ cur' = [cur EXCEPT ![c] = s]
            /\ pc' = [pc EXCEPT ![c] = "lock"]
        BY <3>1, <3>4
      <4> QED
        BY <3>2, <3>4, <4>1 DEF TypeOK, ghostVars
    <3> QED
      BY <3>3, <3>4
  <2>7. CASE LockLast(c)
    BY <2>7, ConstantsAssumption DEF LockLast, TypeOK, ghostVars
  <2>8. CASE ReadLast(c)
    BY <2>8 DEF ReadLast, TypeOK
  <2>9. CASE StoreLast(c)
    \* Only the owner is in the section, so no other call's baseline is overtaken.
    <3>1. \A d \in Callers \ {c} : ~InSection(d)
      BY <2>9 DEF StoreLast
    <3>2. SamplesHeld' /\ MutexHeldInSection'
      BY <2>9 DEF StoreLast, TypeOK
    <3>3. OwnerUpToDate'
      BY <2>9, <3>1 DEF StoreLast, TypeOK
    <3>4. IntervalsTile'
      BY <2>9, <3>1 DEF StoreLast, TypeOK
    <3> QED
      BY <3>2, <3>3, <3>4
  <2>10. CASE ReturnLast(c)
    BY <2>10, ConstantsAssumption DEF ReturnLast, Return, TypeOK, ghostVars
  <2>11. CASE Finish(c)
    BY <2>11 DEF Finish, TypeOK
  <2> QED
    BY <1>5, <2>1, <2>2, <2>3, <2>4, <2>5, <2>6, <2>7, <2>8, <2>9, <2>10, <2>11 DEF Step
<1>6. CASE UNCHANGED vars
  BY <1>6 DEF vars, callVars, ghostVars
<1> QED
  BY <1>1, <1>2, <1>3, <1>4, <1>5, <1>6 DEF Next, Kernel

\* The invariant is inductive.
THEOREM Invariance == Spec => []Inv
<1>1. Inv /\ [Next]_vars => Inv'
  BY TypeStep, SafeStep DEF Inv
<1> QED
  BY InitInv, <1>1, PTL DEF Spec

\* Every variable keeps its type, the results included: calculateAllBusy never divides by
\* zero and always returns integers.
THEOREM TypeCorrect == Spec => []TypeOK
  BY Invariance, PTL DEF Inv

\* The mutex of lastCPUPercent is held exactly inside the section.
THEOREM MutualExclusion == Spec => []MutexHeldInSection
  BY Invariance, PTL DEF Inv, Safe

\* The intervals reported by calls with interval 0 tile, for any number of goroutines.
THEOREM Tiling == Spec => []IntervalsTile
  BY Invariance, PTL DEF Inv, Safe

\* A failed read never costs the baseline.
THEOREM BaselineKept == Spec => BaselineSurvives
<1> DEFINE Kept == \A m \in BOOLEAN : lastTimes[m] # Nil => lastTimes'[m] # Nil
<1>1. Inv /\ [Next]_vars => [Kept]_vars
  <2> SUFFICES ASSUME Inv, Next PROVE Kept
    OBVIOUS
  <2>1. CASE UNCHANGED lastTimes
    BY <2>1
  <2>2. ASSUME NEW c \in Callers, StoreLast(c) PROVE Kept
    BY <2>2 DEF StoreLast, Inv, Safe, SamplesHeld, TypeOK
  <2> QED
    BY <2>1, <2>2
    DEF Next, Kernel, Step, Tick, Hotplug, Begin, Cancel, FirstSample, TimerFires,
        SleepCancelled, SecondSample, ReturnInterval, LastCallSample, LockLast, ReadLast,
        ReturnLast, Finish
<1> QED
  BY Invariance, <1>1, PTL DEF Spec, BaselineSurvives

-----------------------------------------------------------------------------
(* What calculateBusy computes *)

\* The percentage of a part is one.
LEMMA ShareInRange ==
    ASSUME NEW x \in Nat, NEW d \in Nat \ {0}, x <= d
    PROVE  (x * 100) \div d \in 0..100
<1> DEFINE q == (x * 100) \div d
<1>1. q \in Int /\ d * q <= x * 100 /\ x * 100 < d * q + d
  OBVIOUS
<1> HIDE DEF q
<1>2. q <= 100
  <2> SUFFICES ASSUME q >= 101 PROVE FALSE
    BY <1>1
  <2>1. d * (q - 101) >= 0
    BY <1>1
  <2>2. d * q = d * (q - 101) + 101 * d
    BY <1>1
  <2> QED
    BY <1>1, <2>1, <2>2
<1>3. q >= 0
  <2> SUFFICES ASSUME q <= -1 PROVE FALSE
    BY <1>1
  <2>1. d * (-1 - q) >= 0
    BY <1>1
  <2>2. d * q = -d - d * (-1 - q)
    BY <1>1
  <2> QED
    BY <1>1, <2>1, <2>2
<1> QED
  BY <1>1, <1>2, <1>3 DEF q

\* calculateBusy gives a percentage, whatever the two samples.
LEMMA BusyInRange ==
    ASSUME NEW os, NEW t1 \in TimesStat, NEW t2 \in TimesStat
    PROVE  calculateBusy(os, t1, t2) \in 0..100
<1> DEFINE a == getAllBusy(os, t1)
           b == getAllBusy(os, t2)
           q == ((b.busy - a.busy) * 100) \div (b.all - a.all)
<1>1. a \in [all : Int, busy : Int] /\ b \in [all : Int, busy : Int]
  BY AllBusyType
<1> HIDE DEF a, b
<1>2. CASE b.busy > a.busy /\ b.all > a.all
  <2>1. (b.busy - a.busy) * 100 \in Int /\ b.all - a.all \in Nat \ {0}
    BY <1>1, <1>2
  <2>2. q \in Int
    BY <2>1
  <2>3. Clamp(q) \in 0..100
    BY <2>2 DEF Clamp
  <2>4. calculateBusy(os, t1, t2) = Clamp(q)
    BY <1>1, <1>2 DEF calculateBusy, a, b
  <2> QED
    BY <2>3, <2>4
<1> QED
  BY <1>1, <1>2 DEF calculateBusy, a, b

\* Between counters that grew it gives the busy share, if guest time is only reported where
\* it is subtracted.
LEMMA BusyIsShare ==
    ASSUME NEW os, NEW t1 \in TimesStat, NEW t2 \in TimesStat, Grew(t1, t2),
           os # "linux" => t1.guest = 0 /\ t2.guest = 0
    PROVE  calculateBusy(os, t1, t2) = BusyShare(t1, t2)
<1> DEFINE a == getAllBusy(os, t1)
           b == getAllBusy(os, t2)
           x == t2.user - t1.user
           z == t2.quiet - t1.quiet
<1>0. /\ t1.user \in Nat /\ t1.guest \in Nat /\ t1.quiet \in Nat
      /\ t2.user \in Nat /\ t2.guest \in Nat /\ t2.quiet \in Nat
  BY DEF TimesStat
<1>1. /\ a = [all |-> t1.user + t1.quiet, busy |-> t1.user]
      /\ b = [all |-> t2.user + t2.quiet, busy |-> t2.user]
  BY <1>0 DEF getAllBusy, Total
<1>2. x \in Nat /\ z \in Nat /\ b.busy - a.busy = x /\ b.all - a.all = x + z
  BY <1>0, <1>1 DEF Grew
<1>3. b.busy \in Int /\ a.busy \in Int /\ b.all \in Int /\ a.all \in Int
  BY <1>0, <1>1
<1>4. calculateBusy(os, t1, t2) = IF b.busy <= a.busy THEN 0
                                  ELSE IF b.all <= a.all THEN 100
                                  ELSE Clamp(((b.busy - a.busy) * 100) \div (b.all - a.all))
  BY DEF calculateBusy
<1>5. BusyShare(t1, t2) = IF x + z = 0 THEN 0 ELSE (x * 100) \div (x + z)
  BY DEF BusyShare
<1> HIDE DEF a, b, x, z
<1>6. CASE x = 0
  <2>1. calculateBusy(os, t1, t2) = 0
    BY <1>2, <1>3, <1>4, <1>6
  <2>2. z # 0 => (0 * 100) \div z = 0
    BY <1>2
  <2> QED
    BY <1>2, <1>5, <1>6, <2>1, <2>2
<1>7. CASE x # 0
  <2>1. calculateBusy(os, t1, t2) = Clamp((x * 100) \div (x + z))
    BY <1>2, <1>3, <1>4, <1>7
  <2>2. (x * 100) \div (x + z) \in 0..100
    BY <1>2, <1>7, ShareInRange
  <2>3. Clamp((x * 100) \div (x + z)) = (x * 100) \div (x + z)
    BY <2>2 DEF Clamp
  <2> QED
    BY <1>2, <1>5, <1>7, <2>1, <2>3
<1> QED
  BY <1>6, <1>7

-----------------------------------------------------------------------------
(* The second inductive invariant, on top of the first: what a returned value was computed
   from, and where guest time is reported. *)

\* The result of a call was computed from the samples it still holds.
FromSamples ==
    \A c \in Callers : Answered(c) =>
        /\ base[c] # Nil /\ cur[c] # Nil
        /\ result[c] = calculateAllBusy(goos, base[c].times, cur[c].times)

NoGuest(s) == s # Nil => \A i \in 1..Len(s.times) : s.times[i].guest = 0

\* Outside Linux no sample holds guest time.
GuestOnlyOnLinux ==
    goos # "linux" =>
        /\ \A i \in 0..MaxCPU : counters[i].guest = 0
        /\ \A m \in BOOLEAN : NoGuest(lastTimes[m])
        /\ \A c \in Callers : NoGuest(base[c]) /\ NoGuest(cur[c])

\* What is read outside Linux holds no guest time.
LEMMA ReadNoGuest ==
    ASSUME NEW m \in BOOLEAN, NEW s \in TimesWithContext(m),
           \A i \in 0..MaxCPU : counters[i].guest = 0, online \in SUBSET (1..MaxCPU)
    PROVE  NoGuest(s)
<1> SUFFICES ASSUME s # Nil PROVE \A i \in 1..Len(s.times) : s.times[i].guest = 0
  BY DEF NoGuest
<1>1. PICK n \in Nat : \E f \in [1..n -> 0..MaxCPU] :
               s = [at |-> now, times |-> [i \in 1..n |-> counters[f[i]]]]
  BY ReadLines
<1>2. PICK f \in [1..n -> 0..MaxCPU] : s = [at |-> now, times |-> [i \in 1..n |-> counters[f[i]]]]
  BY <1>1
<1>3. s.times = [i \in 1..n |-> counters[f[i]]]
  BY <1>2
<1>4. Len(s.times) = n /\ \A i \in 1..n : s.times[i] = counters[f[i]] /\ f[i] \in 0..MaxCPU
  BY <1>2, <1>3
<1> QED
  BY <1>4

LEMMA ValuesInit == Init => FromSamples /\ GuestOnlyOnLinux
<1> SUFFICES ASSUME Init PROVE FromSamples /\ GuestOnlyOnLinux
  OBVIOUS
<1>1. FromSamples
  BY DEF Init, FromSamples, Answered
<1>2. \A i \in 0..MaxCPU : counters[i].guest = 0
  BY DEF Init, Boot
<1>3. online \in SUBSET (1..MaxCPU)
  BY ConstantsAssumption DEF Init
<1>4. goos # "linux" => \A m \in BOOLEAN : NoGuest(lastTimes[m])
  BY <1>2, <1>3, ReadNoGuest DEF Init
<1>5. \A c \in Callers : NoGuest(base[c]) /\ NoGuest(cur[c])
  BY DEF Init, NoGuest
<1> QED
  BY <1>1, <1>2, <1>4, <1>5 DEF GuestOnlyOnLinux

\* Where the samples of a step come from.
SampleFrom(s) == s = Nil \/ (\E m \in BOOLEAN : s \in TimesWithContext(m) \cup {lastTimes[m]})

LEMMA GuestStep == Inv /\ GuestOnlyOnLinux /\ [Next]_vars => GuestOnlyOnLinux'
<1> SUFFICES ASSUME Inv, GuestOnlyOnLinux, [Next]_vars PROVE GuestOnlyOnLinux'
  OBVIOUS
<1>0. goos' = goos
  BY DEF Next, Kernel, Step, Tick, Hotplug, Begin, Cancel, FirstSample, TimerFires,
         SleepCancelled, SecondSample, ReturnInterval, LastCallSample, LockLast, ReadLast,
         StoreLast, ReturnLast, Finish, kernelVars, vars
<1> SUFFICES ASSUME goos # "linux" PROVE GuestOnlyOnLinux'
  BY <1>0 DEF GuestOnlyOnLinux
<1>a. TypeOK
  BY DEF Inv
<1>b. /\ \A i \in 0..MaxCPU : counters[i].guest = 0
      /\ \A m \in BOOLEAN : NoGuest(lastTimes[m])
      /\ \A c \in Callers : NoGuest(base[c]) /\ NoGuest(cur[c])
  BY DEF GuestOnlyOnLinux
<1>c. \A m \in BOOLEAN : \A s \in TimesWithContext(m) : NoGuest(s)
  BY <1>a, <1>b, ReadNoGuest DEF TypeOK
<1>d. NoGuest(Nil) /\ percpu \in [Callers -> BOOLEAN]
  BY <1>a DEF NoGuest, TypeOK
<1> USE DEF GuestOnlyOnLinux
<1>1. ASSUME NEW w \in Work, Tick(w[1], w[2]) PROVE GuestOnlyOnLinux'
  <2> DEFINE k == IF w[2] = "guest" /\ goos # "linux" THEN "user" ELSE w[2]
  <2>1. w[1] \in 1..MaxCPU /\ w[1] \in 0..MaxCPU /\ 0 \in 0..MaxCPU
    BY ConstantsAssumption
  <2>2. k # "guest"
    OBVIOUS
  <2>3. counters' = [counters EXCEPT ![0] = Bump(counters[0], k),
                                     ![w[1]] = Bump(counters[w[1]], k)]
    BY <1>1, <1>a, <2>1 DEF Tick, TypeOK
  <2> HIDE DEF k
  <2>4. \A i \in 0..MaxCPU : Bump(counters[i], k).guest = 0
    BY <1>b, <2>2 DEF Bump
  <2>5. \A i \in 0..MaxCPU : counters'[i].guest = 0
    BY <1>a, <1>b, <2>1, <2>3, <2>4 DEF TypeOK
  <2>6. UNCHANGED <<lastTimes, base, cur>>
    BY <1>1 DEF Tick, callVars
  <2> QED
    BY <1>b, <2>5, <2>6 DEF NoGuest
<1>2. ASSUME NEW c \in Callers, StoreLast(c) PROVE GuestOnlyOnLinux'
  <2>1. \A m \in BOOLEAN : lastTimes'[m] \in {lastTimes[m], cur[c]}
    BY <1>2, <1>a DEF StoreLast, TypeOK
  <2>2. UNCHANGED <<counters, base, cur>>
    BY <1>2 DEF StoreLast, kernelVars
  <2> QED
    BY <1>b, <2>1, <2>2 DEF NoGuest
<1>3. ASSUME UNCHANGED <<counters, lastTimes>>,
             \A d \in Callers : /\ base'[d] = base[d] \/ SampleFrom(base'[d])
                                /\ cur'[d] = cur[d] \/ SampleFrom(cur'[d])
      PROVE  GuestOnlyOnLinux'
  <2>1. \A s : SampleFrom(s) => NoGuest(s)
    BY <1>b, <1>c, <1>d DEF SampleFrom
  <2>2. \A d \in Callers : NoGuest(base'[d]) /\ NoGuest(cur'[d])
    BY <1>3, <1>b, <2>1
  <2> QED
    BY <1>3, <1>b, <2>2 DEF NoGuest
<1>4. ASSUME NEW c \in Callers, FirstSample(c) \/ SecondSample(c) \/ LastCallSample(c)
      PROVE  /\ UNCHANGED <<counters, lastTimes>>
             /\ \A d \in Callers : /\ base'[d] = base[d] \/ SampleFrom(base'[d])
                                   /\ cur'[d] = cur[d] \/ SampleFrom(cur'[d])
  <2>1. PICK s \in TimesWithContext(percpu[c]) :
           /\ base' = base \/ base' = [base EXCEPT ![c] = s]
           /\ cur' = cur \/ cur' = [cur EXCEPT ![c] = s]
    BY <1>4 DEF FirstSample, SecondSample, LastCallSample
  <2>2. SampleFrom(s)
    BY <1>d DEF SampleFrom
  <2>3. UNCHANGED <<counters, lastTimes>>
    BY <1>4 DEF FirstSample, SecondSample, LastCallSample, kernelVars
  <2> QED
    BY <1>a, <2>1, <2>2, <2>3 DEF TypeOK
<1>5. ASSUME NEW c \in Callers, ReadLast(c)
      PROVE  /\ UNCHANGED <<counters, lastTimes>>
             /\ \A d \in Callers : /\ base'[d] = base[d] \/ SampleFrom(base'[d])
                                   /\ cur'[d] = cur[d] \/ SampleFrom(cur'[d])
  BY <1>5, <1>a DEF ReadLast, SampleFrom, TypeOK, kernelVars
<1>6. ASSUME NEW c \in Callers, Finish(c)
      PROVE  /\ UNCHANGED <<counters, lastTimes>>
             /\ \A d \in Callers : /\ base'[d] = base[d] \/ SampleFrom(base'[d])
                                   /\ cur'[d] = cur[d] \/ SampleFrom(cur'[d])
  BY <1>6, <1>a DEF Finish, SampleFrom, TypeOK, kernelVars
<1>7. CASE UNCHANGED <<counters, lastTimes, base, cur>>
  BY <1>3, <1>7
<1>8. \/ \E w \in Work : Tick(w[1], w[2])
      \/ \E c \in Callers : \/ StoreLast(c) \/ FirstSample(c) \/ SecondSample(c)
                            \/ LastCallSample(c) \/ ReadLast(c) \/ Finish(c)
      \/ UNCHANGED <<counters, lastTimes, base, cur>>
  BY DEF Next, Kernel, Step, Hotplug, Begin, Cancel, TimerFires, SleepCancelled,
         ReturnInterval, LockLast, ReturnLast, kernelVars, callVars, vars
<1> QED
  BY <1>1, <1>2, <1>3, <1>4, <1>5, <1>6, <1>7, <1>8

LEMMA FromSamplesStep == Inv /\ FromSamples /\ [Next]_vars => FromSamples'
<1> SUFFICES ASSUME Inv, FromSamples, [Next]_vars PROVE FromSamples'
  OBVIOUS
<1>a. TypeOK /\ SamplesHeld
  BY DEF Inv, Safe
<1>b. goos' = goos
  BY DEF Next, Kernel, Step, Tick, Hotplug, Begin, Cancel, FirstSample, TimerFires,
         SleepCancelled, SecondSample, ReturnInterval, LastCallSample, LockLast, ReadLast,
         StoreLast, ReturnLast, Finish, kernelVars, vars
<1> USE DEF FromSamples, Answered
<1>1. ASSUME UNCHANGED <<base, cur, result, pc>> PROVE FromSamples'
  BY <1>1, <1>b
\* A call that does not return a value by its step.
<1>2. ASSUME NEW c \in Callers, pc'[c] = "done" => ~result'[c].ok,
             \A d \in Callers \ {c} : /\ pc'[d] = pc[d] /\ result'[d] = result[d]
                                      /\ base'[d] = base[d] /\ cur'[d] = cur[d]
      PROVE  FromSamples'
  BY <1>2, <1>b
<1>3. ASSUME NEW c \in Callers, NEW m \in BOOLEAN, NEW interval \in BOOLEAN, Begin(c, m, interval)
      PROVE  FromSamples'
  <2>1. pc'[c] # "done" /\ \A d \in Callers \ {c} : pc'[d] = pc[d]
    BY <1>3, <1>a DEF Begin, TypeOK
  <2>2. UNCHANGED <<base, cur, result>>
    BY <1>3 DEF Begin
  <2> QED
    BY <1>2, <2>1, <2>2
<1>4. ASSUME NEW c \in Callers,
             FirstSample(c) \/ SecondSample(c) \/ LastCallSample(c)
      PROVE  FromSamples'
  <2>1. PICK s \in TimesWithContext(percpu[c]), l \in {"sleeping", "compute", "lock"} :
           /\ base' = base \/ base' = [base EXCEPT ![c] = s]
           /\ cur' = cur \/ cur' = [cur EXCEPT ![c] = s]
           /\ \/ Return(c, Failed("times"))
              \/ pc' = [pc EXCEPT ![c] = l] /\ result' = result
    BY <1>4 DEF FirstSample, SecondSample, LastCallSample
  <2>2. pc'[c] = "done" => ~result'[c].ok
    BY <1>a, <2>1 DEF Return, Failed, TypeOK
  <2>3. \A d \in Callers \ {c} : /\ pc'[d] = pc[d] /\ result'[d] = result[d]
                                 /\ base'[d] = base[d] /\ cur'[d] = cur[d]
    BY <1>a, <2>1 DEF Return, TypeOK
  <2> QED
    BY <1>2, <2>2, <2>3
<1>5. ASSUME NEW c \in Callers, TimerFires(c) \/ LockLast(c) \/ ReadLast(c) \/ StoreLast(c)
      PROVE  FromSamples'
  <2>1. PICK l \in {"second", "read", "store", "unlock"} : pc' = [pc EXCEPT ![c] = l]
    BY <1>5 DEF TimerFires, LockLast, ReadLast, StoreLast
  <2>2. \A d \in Callers \ {c} : result'[d] = result[d] /\ base'[d] = base[d] /\ cur'[d] = cur[d]
    BY <1>5, <1>a DEF TimerFires, LockLast, ReadLast, StoreLast, TypeOK
  <2> QED
    BY <1>2, <1>a, <2>1, <2>2 DEF TypeOK
<1>6. ASSUME NEW c \in Callers, SleepCancelled(c) PROVE FromSamples'
  <2>1. pc'[c] = "done" /\ result'[c] = Failed("context") /\ UNCHANGED <<base, cur>>
    BY <1>6, <1>a DEF SleepCancelled, Return, TypeOK
  <2>2. \A d \in Callers \ {c} : pc'[d] = pc[d] /\ result'[d] = result[d]
    BY <1>6, <1>a DEF SleepCancelled, Return, TypeOK
  <2> QED
    BY <1>2, <2>1, <2>2 DEF Failed
<1>7. ASSUME NEW c \in Callers, ReturnInterval(c) \/ ReturnLast(c) PROVE FromSamples'
  <2>1. /\ cur[c] # Nil /\ pc'[c] = "done" /\ UNCHANGED <<base, cur>>
        /\ \/ result'[c] = Failed("nil")
           \/ base[c] # Nil /\ result'[c] = calculateAllBusy(goos, base[c].times, cur[c].times)
    BY <1>7, <1>a DEF ReturnInterval, ReturnLast, Return, SamplesHeld, TypeOK
  <2>2. \A d \in Callers \ {c} : pc'[d] = pc[d] /\ result'[d] = result[d]
    BY <1>7, <1>a DEF ReturnInterval, ReturnLast, Return, TypeOK
  <2>3. ~Failed("nil").ok
    BY DEF Failed
  <2> QED
    BY <1>b, <2>1, <2>2, <2>3
<1>8. ASSUME NEW c \in Callers, Finish(c) PROVE FromSamples'
  <2>1. pc'[c] = "idle" /\ \A d \in Callers \ {c} : /\ pc'[d] = pc[d] /\ result'[d] = result[d]
                                                    /\ base'[d] = base[d] /\ cur'[d] = cur[d]
    BY <1>8, <1>a DEF Finish, TypeOK
  <2> QED
    BY <1>2, <2>1
<1>9. ASSUME (\E w \in Work : Tick(w[1], w[2])) \/ Hotplug \/ (\E c \in Callers : Cancel(c)) \/ UNCHANGED vars
      PROVE  UNCHANGED <<base, cur, result, pc>>
  BY <1>9 DEF Tick, Hotplug, Cancel, callVars, vars
<1> QED
  BY <1>1, <1>3, <1>4, <1>5, <1>6, <1>7, <1>8, <1>9 DEF Next, Kernel, Step

\* Both hold throughout, together with the first invariant.
THEOREM ValuesInvariance == Spec => [](Inv /\ FromSamples /\ GuestOnlyOnLinux)
<1>1. Init => FromSamples /\ GuestOnlyOnLinux
  BY ValuesInit
<1> QED
  BY <1>1, Invariance, FromSamplesStep, GuestStep, PTL DEF Spec

\* The values of a call that has returned them, one by one.
LEMMA ReturnedValues ==
    ASSUME TypeOK, FromSamples, NEW c \in Callers, Answered(c), NEW i \in 1..Len(result[c].val)
    PROVE  /\ base[c].times \in Seq(TimesStat) /\ cur[c].times \in Seq(TimesStat)
           /\ i \in 1..Len(base[c].times) /\ i \in 1..Len(cur[c].times)
           /\ result[c].val[i] = calculateBusy(goos, base[c].times[i], cur[c].times[i])
<1> DEFINE t1 == base[c].times
           t2 == cur[c].times
<1>1. base[c] \in Sample /\ cur[c] \in Sample
  BY DEF TypeOK, FromSamples, SampleOrNil
<1>2. t1 \in Seq(TimesStat) /\ t2 \in Seq(TimesStat)
  BY <1>1 DEF Sample
<1>3. result[c] = calculateAllBusy(goos, t1, t2) /\ result[c].ok
  BY DEF FromSamples, Answered
<1> HIDE DEF t1, t2
<1>4. Len(t1) = Len(t2)
  BY <1>3 DEF calculateAllBusy, Failed
<1>5. result[c].val = [j \in 1..Len(t2) |-> calculateBusy(goos, t1[j], t2[j])]
  BY <1>3, <1>4 DEF calculateAllBusy
<1>6. Len(result[c].val) = Len(t2)
  BY <1>2, <1>5
<1> QED
  BY <1>2, <1>4, <1>5, <1>6 DEF t1, t2

\* Whatever the counters did between the two samples, for any number of CPUs and calls a
\* returned value is a percentage.
THEOREM AlwaysAPercentage == Spec => []PercentInRange
<1>1. TypeOK /\ FromSamples => PercentInRange
  <2> SUFFICES ASSUME TypeOK, FromSamples, NEW c \in Callers, Answered(c),
                      NEW i \in 1..Len(result[c].val)
               PROVE  result[c].val[i] \in 0..100
    BY DEF PercentInRange
  <2>1. /\ base[c].times \in Seq(TimesStat) /\ cur[c].times \in Seq(TimesStat)
        /\ i \in 1..Len(base[c].times) /\ i \in 1..Len(cur[c].times)
        /\ result[c].val[i] = calculateBusy(goos, base[c].times[i], cur[c].times[i])
    BY ReturnedValues
  <2>2. base[c].times[i] \in TimesStat /\ cur[c].times[i] \in TimesStat
    BY <2>1
  <2> QED
    BY <2>1, <2>2, BusyInRange
<1>2. Inv => TypeOK
  BY DEF Inv
<1> QED
  BY <1>1, <1>2, ValuesInvariance, PTL

\* When no counter went back, a returned value is exactly the busy share of its CPU between
\* the two samples of the call, on Linux and elsewhere.
THEOREM ExactShare == Spec => []PercentIsBusyShare
<1>1. TypeOK /\ FromSamples /\ GuestOnlyOnLinux => PercentIsBusyShare
  <2> SUFFICES ASSUME TypeOK, FromSamples, GuestOnlyOnLinux, NEW c \in Callers, Answered(c),
                      NEW i \in 1..Len(result[c].val),
                      Grew(base[c].times[i], cur[c].times[i])
               PROVE  result[c].val[i] = BusyShare(base[c].times[i], cur[c].times[i])
    BY DEF PercentIsBusyShare
  <2>1. /\ base[c].times \in Seq(TimesStat) /\ cur[c].times \in Seq(TimesStat)
        /\ i \in 1..Len(base[c].times) /\ i \in 1..Len(cur[c].times)
        /\ result[c].val[i] = calculateBusy(goos, base[c].times[i], cur[c].times[i])
    BY ReturnedValues
  <2>2. base[c].times[i] \in TimesStat /\ cur[c].times[i] \in TimesStat
    BY <2>1
  <2>3. base[c] # Nil /\ cur[c] # Nil
    BY DEF FromSamples
  <2>4. goos # "linux" => base[c].times[i].guest = 0 /\ cur[c].times[i].guest = 0
    BY <2>1, <2>3 DEF GuestOnlyOnLinux, NoGuest
  <2> QED
    BY <2>1, <2>2, <2>4, BusyIsShare
<1>2. Inv => TypeOK
  BY DEF Inv
<1> QED
  BY <1>1, <1>2, ValuesInvariance, PTL
=============================================================================
