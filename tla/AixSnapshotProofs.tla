-------------------------- MODULE AixSnapshotProofs --------------------------
(***************************************************************************)
(* For any goroutines, pids, batches and ages: the shared snapshot of the  *)
(* process table never makes a running process look gone, forgets one that *)
(* has exited in time, and never takes a counter back.                     *)
(***************************************************************************)
EXTENDS AixSnapshot, FiniteSetTheorems, WellFoundedInduction, TLAPS

(* Sets of pids. *)

\* A set of numbers has a least one.
LEMMA Least == ASSUME NEW S \in SUBSET Nat, S # {} PROVE \E x \in S : \A y \in S : x <= y
  <1> DEFINE R == OpToRel(<, Nat)
  <1>1. IsWellFoundedOn(R, Nat)
    BY NatLessThanWellFounded
  <1>2. R = {ss \in Nat \X Nat : ss[1] < ss[2]}
    BY DEF OpToRel
  <1> HIDE DEF R
  <1>3. PICK x \in S : \A y \in S : ~(<<y, x>> \in R)
    BY <1>1, WFMin, Zenon
  <1>4. \A y \in S : x <= y
    <2> SUFFICES ASSUME NEW y \in S, ~(x <= y) PROVE FALSE
      OBVIOUS
    <2>1. x \in Nat /\ y \in Nat
      OBVIOUS
    <2>2. y < x
      BY <2>1
    <2>3. <<y, x>> \in R
      BY <1>2, <2>1, <2>2
    <2>4. QED
      BY <1>3, <2>3
  <1>5. QED
    BY <1>4

\* A set of pids has a greatest one.
LEMMA Greatest ==
    ASSUME NEW S \in SUBSET Pids, S # {}
    PROVE  Max(S) \in S /\ \A y \in S : Max(S) >= y
  <1> USE ConstantsAssumption
  <1> DEFINE T == {MaxPid - x : x \in S}
  <1>1. T \in SUBSET Nat /\ T # {}
    <2>1. \A x \in S : MaxPid - x \in Nat
      BY DEF Pids
    <2>2. QED
      BY <2>1
  <1>2. PICK t \in T : \A u \in T : t <= u
    BY <1>1, Least
  <1>3. PICK x \in S : t = MaxPid - x
    BY <1>2
  <1>4. \A y \in S : x >= y
    <2> SUFFICES ASSUME NEW y \in S PROVE x >= y
      OBVIOUS
    <2>1. MaxPid - y \in T
      OBVIOUS
    <2>2. t <= MaxPid - y
      BY <1>2, <2>1
    <2>3. x \in Int /\ y \in Int /\ MaxPid \in Int
      BY DEF Pids
    <2>4. QED
      BY <1>3, <2>2, <2>3
  <1>5. QED
    BY <1>4 DEF Max

\* Sets of pids are finite, and a part has no more elements than the whole.
LEMMA SomePids ==
    ASSUME NEW S \in SUBSET Pids, NEW T \in SUBSET S
    PROVE  /\ IsFiniteSet(S) /\ Cardinality(S) \in Nat /\ Cardinality(T) \in Nat
           /\ Cardinality(T) <= Cardinality(S)
  <1>1. IsFiniteSet(Pids)
    BY ConstantsAssumption, FS_Interval DEF Pids
  <1>2. IsFiniteSet(S)
    BY <1>1, FS_Subset
  <1>3. QED
    BY <1>2, FS_Subset, FS_CardinalityType

\* What one getprocs64 call returns of the pids that are left.
FirstOf(after) == {p \in after : Cardinality({q \in after : q < p}) < Batch}

\* They are the first of them: no pid up to the last one is passed over, and a short answer
\* holds all of them.
LEMMA BatchIsPrefix ==
    ASSUME NEW after \in SUBSET Pids
    PROVE  /\ \A p \in after : FirstOf(after) # {} /\ p <= Max(FirstOf(after)) => p \in FirstOf(after)
           /\ Cardinality(FirstOf(after)) < Batch => FirstOf(after) = after
  <1> USE ConstantsAssumption
  <1> DEFINE got == FirstOf(after)
             below(p) == {q \in after : q < p}
  <1>0. got \in SUBSET after /\ got \in SUBSET Pids
    BY DEF FirstOf
  <1>1. ASSUME NEW p \in after, got # {}, p <= Max(got) PROVE p \in got
    <2>1. Max(got) \in got
      BY <1>0, <1>1, Greatest
    <2>2. Cardinality(below(Max(got))) < Batch
      BY <2>1 DEF FirstOf
    <2>3. below(p) \in SUBSET below(Max(got)) /\ below(Max(got)) \in SUBSET Pids
      <3>1. \A q \in Pids : q \in Int
        BY DEF Pids
      <3>2. \A q \in after : q < p => q < Max(got)
        BY <1>0, <1>1, <2>1, <3>1
      <3>3. QED
        BY <3>2
    <2>4. /\ Cardinality(below(p)) <= Cardinality(below(Max(got)))
          /\ Cardinality(below(p)) \in Nat /\ Cardinality(below(Max(got))) \in Nat
      BY <2>3, SomePids
    <2>5. Cardinality(below(p)) < Batch
      BY <2>2, <2>4
    <2>6. QED
      BY <2>5 DEF FirstOf
  <1>2. ASSUME Cardinality(got) < Batch, got # after PROVE FALSE
    <2> DEFINE rest == after \ got
    <2>1. rest \in SUBSET Nat /\ rest # {}
      <3>1. Pids \subseteq Nat
        BY DEF Pids
      <3>2. QED
        BY <1>0, <1>2, <3>1
    <2>2. PICK p \in rest : \A y \in rest : p <= y
      BY <2>1, Least
    <2>3. below(p) \in SUBSET got
      <3> SUFFICES ASSUME NEW q \in after, q < p, q \notin got PROVE FALSE
        OBVIOUS
      <3>1. q \in Int /\ p \in Int
        BY DEF Pids
      <3>2. p <= q
        BY <2>2
      <3>3. QED
        BY <3>1, <3>2
    <2>4. /\ Cardinality(below(p)) <= Cardinality(got)
          /\ Cardinality(below(p)) \in Nat /\ Cardinality(got) \in Nat
      BY <1>0, <2>3, SomePids
    <2>5. Cardinality(below(p)) < Batch
      BY <1>2, <2>4
    <2>6. QED
      BY <2>2, <2>5 DEF FirstOf
  <1>3. QED
    BY <1>1, <1>2

-----------------------------------------------------------------------------
(* The inductive invariant *)

Walking(c) == pc[c] \in {"walk", "publish"}

\* The mutex is held from the look at the age to the answer.
Mutex == \A c \in Callers : lock = c <=> pc[c] \in {"check", "walk", "publish", "lookup"}

\* A call has its answer only when it is done.
Answered == \A c \in Callers : answer[c] # "none" => pc[c] = "done"

\* A pid that belongs to nobody during a call has been noted.
Noted == \A c \in Callers : pc[c] # "idle" /\ table[pid[c]] = None => absent[c]

\* A pid the pass over the table has left behind without an entry was gone.
PassedOver ==
    \A c \in Callers :
        Walking(c) /\ walk[c][pid[c]] = None /\ (pc[c] = "publish" \/ pid[c] <= index[c])
            => absent[c]

\* A pid missing from the snapshot the call has taken was gone.
Believed ==
    \A c \in Callers : pc[c] = "lookup" /\ fresh[c] /\ byPID[pid[c]] = None => absent[c]

\* When the entries were read, and how old the snapshot was.
Ages ==
    /\ \A p \in Pids : byPID[p] # None => byPID[p].at >= began
    /\ \A c \in Callers :
          /\ checked[c] <= clock
          /\ Walking(c) => /\ since[c] <= clock /\ fresh[c] /\ checked[c] <= since[c]
                           /\ \A p \in Pids : walk[c][p] # None => walk[c][p].at >= since[c]
          /\ pc[c] = "lookup" => checked[c] <= began \/ checked[c] - taken < MaxAge

\* The entry e is no later than f.
NoLater(e, f) == e # None /\ f # None /\ e.who = f.who => e.count <= f.count

\* What was answered is no later than the snapshot, and the snapshot than the table.
Ordered ==
    \A p \in Pids :
        /\ NoLater(seen[p], byPID[p]) /\ NoLater(seen[p], table[p]) /\ NoLater(byPID[p], table[p])
        /\ \A c \in Callers : Walking(c) => NoLater(seen[p], walk[c][p]) /\ NoLater(walk[c][p], table[p])

\* An entry is of a process that has been started.
Known(e) == e # None => e.who <= spawned

AllKnown ==
    \A p \in Pids : /\ Known(table[p]) /\ Known(seen[p]) /\ Known(byPID[p])
                    /\ \A c \in Callers : Known(walk[c][p])

\* An entry was read while its process was there.
WhileThere(e) == e # None => e.at <= clock /\ (left[e.who] = -1 \/ left[e.who] >= e.at)

AllWhileThere ==
    \A p \in Pids : WhileThere(byPID[p]) /\ \A c \in Callers : WhileThere(walk[c][p])

\* The processes of the table have not exited and are different ones, nor have those to come.
Alive ==
    /\ \A p \in Pids : table[p] # None => left[table[p].who] = -1
    /\ \A p, q \in Pids : table[p] # None /\ table[q] # None /\ table[p].who = table[q].who => p = q
    /\ \A w \in 1..MaxIncarnation : w > spawned => left[w] = -1

Inv == /\ TypeOK /\ Mutex /\ Answered /\ Noted /\ PassedOver /\ Believed /\ NotRunningIsTrue
       /\ Ages /\ Ordered /\ AllKnown /\ AllWhileThere /\ Alive

USE ConstantsAssumption DEF vars, kernelVars, snapVars, walkVars, callVars, Goto

\* A map without entries is a map.
LEMMA EmptyType == Empty \in [Pids -> Entry \cup {None}] /\ 1 \in Pids /\ 0 \in 0..MaxPid
  BY DEF Empty, Pids

LEMMA InitInv == Init => Inv
  <1> SUFFICES ASSUME Init PROVE Inv
    OBVIOUS
  <1> USE DEF Init
  <1>1. TypeOK
    <2>1. table \in [Pids -> [who : 1..MaxIncarnation, count : Nat] \cup {None}]
      BY DEF Empty
    <2>2. spawned \in 0..MaxIncarnation /\ clock \in Nat /\ taken \in 0..clock /\ began \in 0..taken
      OBVIOUS
    <2>3. QED
      BY <2>1, <2>2, EmptyType DEF TypeOK
  <1> USE DEF Empty
  <1>2. Mutex /\ Answered /\ Noted /\ PassedOver /\ Believed /\ NotRunningIsTrue
    BY DEF Mutex, Answered, Noted, PassedOver, Believed, NotRunningIsTrue, Walking
  <1>3. Ages /\ Ordered /\ AllKnown /\ AllWhileThere /\ Alive
    BY DEF Ages, Ordered, AllKnown, AllWhileThere, Alive, NoLater, Known, WhileThere, Walking
  <1>4. QED
    BY <1>1, <1>2, <1>3 DEF Inv

\* An entry is not None.
LEMMA EntryIsSome ==
    /\ \A w \in 1..MaxIncarnation, n \in Nat : [who |-> w, count |-> n] # None
    /\ \A w \in 1..MaxIncarnation, n \in Nat, t \in Nat : [who |-> w, count |-> n, at |-> t] # None
  <1>1. ASSUME NEW w \in 1..MaxIncarnation, NEW n \in Nat, NEW t \in Nat
        PROVE  /\ [who |-> w, count |-> n] \in [who : Nat, count : Nat]
               /\ [who |-> w, count |-> n, at |-> t] \in [who : Nat, count : Nat, at : Nat]
    OBVIOUS
  <1>2. QED
    BY <1>1, NoneAssumption

\* GetProcs in terms of the pids that are left and of those it returns.
BatchRead(c, after, got) ==
    /\ after = {p \in Pids : table[p] # None /\ p > index[c]} /\ got \in SUBSET after
    /\ \A p \in after : got # {} /\ p <= Max(got) => p \in got
    /\ Cardinality(got) < Batch => got = after
    /\ walk' = [walk EXCEPT ![c] = [p \in Pids |->
          IF p \in got THEN [who |-> table[p].who, count |-> table[p].count, at |-> clock]
          ELSE walk[c][p]]]
    /\ index' = [index EXCEPT ![c] = IF got = {} THEN @ ELSE Max(got)]
    /\ IF got = {} THEN index'[c] = index[c] ELSE index'[c] = Max(got) /\ index'[c] \in got
    /\ pc[c] = "walk"
    /\ pc' = [pc EXCEPT ![c] = IF Cardinality(got) < Batch THEN "publish" ELSE "walk"]

LEMMA GetProcsStep ==
    ASSUME TypeOK, NEW c \in Callers, GetProcs(c)
    PROVE  \E after \in SUBSET Pids, got \in SUBSET Pids : BatchRead(c, after, got)
  <1> DEFINE after == {p \in Live : p > index[c]}
             got == {p \in after : Cardinality({q \in after : q < p}) < Batch}
  <1>1. after \in SUBSET Pids /\ after = {p \in Pids : table[p] # None /\ p > index[c]}
    BY DEF Live
  <1>2. got = FirstOf(after) /\ got \in SUBSET after /\ got \in SUBSET Pids
    BY <1>1 DEF FirstOf
  <1>3. /\ walk' = [walk EXCEPT ![c] = [p \in Pids |->
              IF p \in got THEN [who |-> table[p].who, count |-> table[p].count, at |-> clock]
              ELSE walk[c][p]]]
        /\ index' = [index EXCEPT ![c] = IF got = {} THEN @ ELSE Max(got)]
        /\ pc[c] = "walk" /\ pc' = [pc EXCEPT ![c] = IF Cardinality(got) < Batch THEN "publish" ELSE "walk"]
    BY DEF GetProcs
  <1> HIDE DEF after, got
  <1>4. got # {} => Max(got) \in got
    BY <1>2, Greatest
  <1>5. IF got = {} THEN index'[c] = index[c] ELSE index'[c] = Max(got) /\ index'[c] \in got
    BY <1>3, <1>4 DEF TypeOK
  <1>6. QED
    <2>1. /\ \A p \in after : got # {} /\ p <= Max(got) => p \in got
          /\ Cardinality(got) < Batch => got = after
      BY <1>1, <1>2, BatchIsPrefix
    <2>2. QED
      BY <1>1, <1>2, <1>3, <1>5, <2>1 DEF BatchRead

LEMMA TypeStep == Inv /\ [Next]_vars => TypeOK'
  <1> SUFFICES ASSUME Inv, [Next]_vars PROVE TypeOK'
    OBVIOUS
  <1>a. TypeOK
    BY DEF Inv
  <1>b. /\ clock \in Nat /\ taken \in 0..clock /\ began \in 0..taken /\ spawned \in 0..MaxIncarnation
        /\ \A c \in Callers : since[c] \in Nat /\ index[c] \in 0..MaxPid
    BY <1>a DEF TypeOK
  <1>c. /\ clock \in Nat /\ index \in [Callers -> 0..MaxPid] /\ since \in [Callers -> Nat]
        /\ checked \in [Callers -> Nat]
        /\ pc \in [Callers -> {"idle", "lock", "check", "walk", "publish", "lookup", "done"}]
    BY <1>a DEF TypeOK
  <1>1. ASSUME Tick PROVE TypeOK'
    <2>1. clock' \in Nat /\ taken' \in 0..clock' /\ began' \in 0..taken'
      BY <1>1, <1>b DEF Tick
    <2>2. QED
      BY <1>1, <1>a, <2>1 DEF Tick, TypeOK
  <1>2. ASSUME NEW p \in Pids, Work(p) PROVE TypeOK'
    <2>1. table[p] \in [who : 1..MaxIncarnation, count : Nat]
      BY <1>2, <1>a DEF Work, TypeOK
    <2>2. [table[p] EXCEPT !.count = table[p].count + 1] \in [who : 1..MaxIncarnation, count : Nat]
      BY <2>1
    <2>3. table' \in [Pids -> [who : 1..MaxIncarnation, count : Nat] \cup {None}]
      BY <1>2, <1>a, <2>2 DEF Work, TypeOK
    <2>4. QED
      BY <1>2, <1>a, <2>3 DEF Work, TypeOK
  <1>3. ASSUME NEW p \in Pids, Exit(p) PROVE TypeOK'
    <2>1. left' \in [1..MaxIncarnation -> Nat \cup {-1}]
      BY <1>3, <1>a, <1>b DEF Exit, TypeOK
    <2>2. QED
      BY <1>3, <1>a, <2>1 DEF Exit, TypeOK
  <1>4. ASSUME NEW p \in Pids, Spawn(p) PROVE TypeOK'
    <2>1. [who |-> spawned + 1, count |-> 0] \in [who : 1..MaxIncarnation, count : Nat]
      BY <1>4, <1>b DEF Spawn
    <2>2. table' \in [Pids -> [who : 1..MaxIncarnation, count : Nat] \cup {None}]
      BY <1>4, <1>a, <2>1 DEF Spawn, TypeOK
    <2>3. spawned' \in 0..MaxIncarnation
      BY <1>4, <1>b DEF Spawn
    <2>4. QED
      BY <1>4, <1>a, <2>2, <2>3 DEF Spawn, TypeOK
  <1>5. ASSUME NEW c \in Callers, NEW p \in Pids, Call(c, p) PROVE TypeOK'
    BY <1>5, <1>a DEF Call, TypeOK
  <1>6. ASSUME NEW c \in Callers, Lock(c) PROVE TypeOK'
    BY <1>6, <1>a DEF Lock, TypeOK
  <1>7. ASSUME NEW c \in Callers, Check(c) PROVE TypeOK'
    <2>1. walk' \in [Callers -> [Pids -> Entry \cup {None}]]
      BY <1>7, <1>a, EmptyType DEF Check, BeginWalk, TypeOK
    <2>2. index' \in [Callers -> 0..MaxPid] /\ since' \in [Callers -> Nat] /\ checked' \in [Callers -> Nat]
      <3>1. checked' \in [Callers -> Nat]
        BY <1>7, <1>c DEF Check
      <3>2. CASE Stale
        BY <1>7, <1>c, <3>1, <3>2, EmptyType DEF Check, BeginWalk
      <3>3. CASE ~Stale
        BY <1>7, <1>c, <3>1, <3>3 DEF Check
      <3>4. QED
        BY <3>2, <3>3
    <2>3. fresh' \in [Callers -> BOOLEAN]
      BY <1>7, <1>a DEF Check, Stale, TypeOK
    <2>4. pc' \in [Callers -> {"idle", "lock", "check", "walk", "publish", "lookup", "done"}]
      BY <1>7, <1>a DEF Check, BeginWalk, TypeOK
    <2>5. QED
      BY <1>7, <1>a, <2>1, <2>2, <2>3, <2>4 DEF Check, TypeOK
  <1>8. ASSUME NEW c \in Callers, GetProcs(c) PROVE TypeOK'
    <2>1. PICK after \in SUBSET Pids, got \in SUBSET Pids : BatchRead(c, after, got)
      BY <1>8, <1>a, GetProcsStep
    <2> USE DEF BatchRead
    <2>2. ASSUME NEW p \in got
          PROVE  [who |-> table[p].who, count |-> table[p].count, at |-> clock] \in Entry
      <3>1. table[p] \in [who : 1..MaxIncarnation, count : Nat]
        BY <1>a, <2>1, <2>2 DEF TypeOK
      <3>2. QED
        BY <1>b, <3>1 DEF Entry
    <2>3. walk' \in [Callers -> [Pids -> Entry \cup {None}]]
      <3> DEFINE pass == [p \in Pids |->
                    IF p \in got THEN [who |-> table[p].who, count |-> table[p].count, at |-> clock]
                    ELSE walk[c][p]]
      <3>1. walk \in [Callers -> [Pids -> Entry \cup {None}]] /\ walk' = [walk EXCEPT ![c] = pass]
        BY <1>a, <2>1 DEF TypeOK
      <3>2. pass \in [Pids -> Entry \cup {None}]
        BY <2>2, <3>1
      <3> HIDE DEF pass
      <3>3. QED
        BY <3>1, <3>2
    <2>4. index' \in [Callers -> 0..MaxPid]
      <3>1. \A p \in Pids : p \in 0..MaxPid
        BY DEF Pids
      <3>2. QED
        BY <1>a, <2>1, <3>1 DEF TypeOK
    <2>5. pc' \in [Callers -> {"idle", "lock", "check", "walk", "publish", "lookup", "done"}]
      BY <1>a, <2>1 DEF TypeOK
    <2>6. QED
      BY <1>8, <1>a, <2>3, <2>4, <2>5 DEF GetProcs, TypeOK
  <1>9. ASSUME NEW c \in Callers, GetProcsFails(c) PROVE TypeOK'
    BY <1>9, <1>a DEF GetProcsFails, Return, TypeOK
  <1>10. ASSUME NEW c \in Callers, Publish(c) PROVE TypeOK'
    <2>1. since[c] <= clock
      BY <1>10 DEF Publish, Inv, Ages, Walking
    <2>2. taken' \in 0..clock' /\ began' \in 0..taken'
      BY <1>10, <1>b, <2>1 DEF Publish
    <2>3. byPID' \in [Pids -> Entry \cup {None}]
      BY <1>10, <1>a DEF Publish, TypeOK
    <2>4. QED
      BY <1>10, <1>a, <2>2, <2>3 DEF Publish, TypeOK
  <1>11. ASSUME NEW c \in Callers, Found(c) PROVE TypeOK'
    BY <1>11, <1>a DEF Found, Return, TypeOK
  <1>12. ASSUME NEW c \in Callers, Missing(c) PROVE TypeOK'
    <2>1. walk' \in [Callers -> [Pids -> Entry \cup {None}]]
      BY <1>12, <1>a, EmptyType DEF Missing, BeginWalk, TypeOK
    <2>2. index' \in [Callers -> 0..MaxPid] /\ since' \in [Callers -> Nat]
      <3>1. CASE fresh[c]
        BY <1>12, <1>c, <3>1 DEF Missing
      <3>2. CASE ~fresh[c]
        <4>1. index' = [index EXCEPT ![c] = 0] /\ since' = [since EXCEPT ![c] = clock]
          BY <1>12, <3>2 DEF Missing, BeginWalk
        <4>2. QED
          BY <1>c, <4>1, EmptyType
      <3>3. QED
        BY <3>1, <3>2
    <2>3. fresh' \in [Callers -> BOOLEAN] /\ lock' \in Callers \cup {NoOne}
      BY <1>12, <1>a DEF Missing, TypeOK
    <2>4. pc' \in [Callers -> {"idle", "lock", "check", "walk", "publish", "lookup", "done"}]
      <3>1. CASE fresh[c]
        BY <1>12, <1>c, <3>1 DEF Missing, Return
      <3>2. CASE ~fresh[c]
        BY <1>12, <1>c, <3>2 DEF Missing, BeginWalk
      <3>3. QED
        BY <3>1, <3>2
    <2>5. answer' \in [Callers -> {"none", "entry", "not running", "error"}]
      BY <1>12, <1>a DEF Missing, Return, TypeOK
    <2>6. QED
      BY <1>12, <1>a, <2>1, <2>2, <2>3, <2>4, <2>5 DEF Missing, TypeOK
  <1>13. ASSUME NEW c \in Callers, Finish(c) PROVE TypeOK'
    BY <1>13, <1>a, EmptyType DEF Finish, TypeOK
  <1>14. CASE UNCHANGED vars
    BY <1>14, <1>a DEF TypeOK
  <1>15. QED
    BY <1>1, <1>2, <1>3, <1>4, <1>5, <1>6, <1>7, <1>8, <1>9, <1>10, <1>11, <1>12, <1>13, <1>14
       DEF Next, Machine, Step


\* What a step of another goroutine leaves to the call of d.
Same(d) ==
    /\ pc'[d] = pc[d] /\ pid'[d] = pid[d] /\ fresh'[d] = fresh[d] /\ walk'[d] = walk[d]
    /\ index'[d] = index[d] /\ since'[d] = since[d] /\ checked'[d] = checked[d]
    /\ absent'[d] = absent[d] /\ answer'[d] = answer[d]

\* A process that works stays the same one.
LEMMA WorkStep ==
    ASSUME TypeOK, NEW p \in Pids, Work(p)
    PROVE  /\ \A q \in Pids : table'[q] = None <=> table[q] = None
           /\ \A q \in Pids : table[q] # None => /\ table'[q].who = table[q].who
                                                 /\ table'[q].count >= table[q].count
  <1>1. \A q \in Pids \ {p} : table'[q] = table[q]
    BY DEF Work, TypeOK
  <1>2. /\ table[p] # None /\ table[p] \in [who : 1..MaxIncarnation, count : Nat]
        /\ table'[p] = [table[p] EXCEPT !.count = table[p].count + 1]
    BY DEF Work, TypeOK
  <1>3. table'[p] = [who |-> table[p].who, count |-> table[p].count + 1]
    BY <1>2
  <1>4. table[p].who \in 1..MaxIncarnation /\ table[p].count \in Nat
    BY <1>2
  <1>5. table'[p] # None
    BY <1>3, <1>4, EntryIsSome
  <1>6. \A q \in Pids : table[q] # None => table[q].count \in Nat
    BY DEF TypeOK
  <1>7. QED
    BY <1>1, <1>2, <1>3, <1>4, <1>5, <1>6

LEMMA OthersSame ==
    ASSUME TypeOK, NEW c \in Callers, Step(c) \/ \E p \in Pids : Call(c, p)
    PROVE  \A d \in Callers \ {c} : Same(d)
  <1> USE DEF Same
  <1> SUFFICES ASSUME NEW d \in Callers, d # c PROVE Same(d)
    OBVIOUS
  <1>0. /\ DOMAIN pc = Callers /\ DOMAIN pid = Callers /\ DOMAIN fresh = Callers
        /\ DOMAIN walk = Callers /\ DOMAIN index = Callers /\ DOMAIN since = Callers
        /\ DOMAIN checked = Callers /\ DOMAIN absent = Callers /\ DOMAIN answer = Callers
    BY DEF TypeOK
  <1>1. ASSUME NEW p \in Pids, Call(c, p) PROVE Same(d)
    BY <1>0, <1>1 DEF Call
  <1>2. CASE Lock(c)
    BY <1>0, <1>2 DEF Lock
  <1>3. CASE Check(c)
    BY <1>0, <1>3 DEF Check, BeginWalk
  <1>4. CASE GetProcs(c)
    BY <1>0, <1>4 DEF GetProcs
  <1>5. CASE GetProcsFails(c)
    BY <1>0, <1>5 DEF GetProcsFails, Return
  <1>6. CASE Publish(c)
    BY <1>0, <1>6 DEF Publish
  <1>7. CASE Found(c)
    BY <1>0, <1>7 DEF Found, Return
  <1>8. CASE Missing(c)
    BY <1>0, <1>8 DEF Missing, BeginWalk, Return
  <1>9. CASE Finish(c)
    BY <1>0, <1>9 DEF Finish
  <1>10. QED
    BY <1>1, <1>2, <1>3, <1>4, <1>5, <1>6, <1>7, <1>8, <1>9 DEF Step

\* What a step does to the call that takes it.
CheckDone(c) ==
    /\ pc[c] = "check" /\ checked'[c] = clock /\ pid'[c] = pid[c]
    /\ absent'[c] = absent[c] /\ answer'[c] = answer[c] /\ UNCHANGED <<kernelVars, lock, snapVars, seen>>
    /\ \/ /\ pc'[c] = "walk" /\ fresh'[c] = TRUE /\ walk'[c] = Empty /\ index'[c] = 0 /\ since'[c] = clock
       \/ /\ pc'[c] = "lookup" /\ fresh'[c] = FALSE /\ clock - taken < MaxAge
          /\ walk'[c] = walk[c] /\ index'[c] = index[c] /\ since'[c] = since[c]

MissingDone(c) ==
    /\ pc[c] = "lookup" /\ byPID[pid[c]] = None /\ checked'[c] = checked[c] /\ pid'[c] = pid[c]
    /\ absent'[c] = absent[c] /\ fresh'[c] = TRUE /\ UNCHANGED <<kernelVars, snapVars, seen>>
    /\ \/ /\ ~fresh[c] /\ pc'[c] = "walk" /\ lock' = lock /\ answer'[c] = answer[c]
          /\ walk'[c] = Empty /\ index'[c] = 0 /\ since'[c] = clock
       \/ /\ fresh[c] /\ pc'[c] = "done" /\ lock' = NoOne /\ answer'[c] = "not running"
          /\ walk'[c] = walk[c] /\ index'[c] = index[c] /\ since'[c] = since[c]

LEMMA OwnStep ==
    ASSUME TypeOK, NEW c \in Callers
    PROVE  /\ Check(c) => CheckDone(c)
           /\ Missing(c) => MissingDone(c)
  <1>0. /\ DOMAIN pc = Callers /\ DOMAIN pid = Callers /\ DOMAIN fresh = Callers
        /\ DOMAIN walk = Callers /\ DOMAIN index = Callers /\ DOMAIN since = Callers
        /\ DOMAIN checked = Callers /\ DOMAIN absent = Callers /\ DOMAIN answer = Callers
    BY DEF TypeOK
  <1>a. clock \in Nat /\ taken \in 0..clock /\ fresh[c] \in BOOLEAN
    BY DEF TypeOK
  <1>1. ASSUME Check(c), Stale PROVE CheckDone(c)
    BY <1>0, <1>1 DEF Check, BeginWalk, CheckDone
  <1>2. ASSUME Check(c), ~Stale PROVE CheckDone(c)
    <2>1. clock - taken < MaxAge
      BY <1>2, <1>a DEF Stale
    <2>2. QED
      BY <1>0, <1>2, <2>1 DEF Check, CheckDone
  <1>3. ASSUME Missing(c), fresh[c] PROVE MissingDone(c)
    BY <1>0, <1>a, <1>3 DEF Missing, Return, MissingDone
  <1>4. ASSUME Missing(c), ~fresh[c] PROVE MissingDone(c)
    BY <1>0, <1>4 DEF Missing, BeginWalk, MissingDone
  <1>5. QED
    BY <1>1, <1>2, <1>3, <1>4

LEMMA LockStep == Inv /\ [Next]_vars => Mutex' /\ Answered'
  <1> SUFFICES ASSUME Inv, [Next]_vars PROVE Mutex' /\ Answered'
    OBVIOUS
  <1>a. TypeOK /\ Mutex /\ Answered /\ NoOne \notin Callers
    BY DEF Inv
  <1> USE DEF Mutex, Answered
  <1>1. ASSUME Tick PROVE Mutex' /\ Answered'
    BY <1>1, <1>a DEF Tick, TypeOK
  <1>2. ASSUME NEW p \in Pids, Work(p) PROVE Mutex' /\ Answered'
    BY <1>2, <1>a DEF Work, TypeOK
  <1>3. ASSUME NEW p \in Pids, Exit(p) PROVE Mutex' /\ Answered'
    BY <1>3, <1>a DEF Exit, TypeOK
  <1>4. ASSUME NEW p \in Pids, Spawn(p) PROVE Mutex' /\ Answered'
    BY <1>4, <1>a DEF Spawn, TypeOK
  <1>5. ASSUME NEW c \in Callers, NEW p \in Pids, Call(c, p) PROVE Mutex' /\ Answered'
    BY <1>5, <1>a DEF Call, TypeOK
  <1>6. ASSUME NEW c \in Callers, Lock(c) PROVE Mutex' /\ Answered'
    BY <1>6, <1>a DEF Lock, TypeOK
  <1>7. ASSUME NEW c \in Callers, Check(c) PROVE Mutex' /\ Answered'
    BY <1>7, <1>a DEF Check, BeginWalk, Stale, TypeOK
  <1>8. ASSUME NEW c \in Callers, GetProcs(c) PROVE Mutex' /\ Answered'
    BY <1>8, <1>a DEF GetProcs, TypeOK
  <1>9. ASSUME NEW c \in Callers, GetProcsFails(c) PROVE Mutex' /\ Answered'
    BY <1>9, <1>a DEF GetProcsFails, Return, TypeOK
  <1>10. ASSUME NEW c \in Callers, Publish(c) PROVE Mutex' /\ Answered'
    BY <1>10, <1>a DEF Publish, TypeOK
  <1>11. ASSUME NEW c \in Callers, Found(c) PROVE Mutex' /\ Answered'
    BY <1>11, <1>a DEF Found, Return, TypeOK
  <1>12. ASSUME NEW c \in Callers, Missing(c) PROVE Mutex' /\ Answered'
    <2>1. MissingDone(c) /\ \A d \in Callers \ {c} : Same(d)
      BY <1>12, <1>a, OwnStep, OthersSame DEF Step
    <2>2. \A d \in Callers : answer'[d] # "none" => pc'[d] = "done"
      BY <1>a, <2>1 DEF MissingDone, Same
    <2>3. \A d \in Callers : lock' = d <=> pc'[d] \in {"check", "walk", "publish", "lookup"}
      <3>1. CASE fresh[c]
        BY <1>a, <2>1, <3>1 DEF MissingDone, Same
      <3>2. CASE ~fresh[c]
        <4>1. pc[c] = "lookup" /\ pc'[c] = "walk" /\ lock' = lock /\ \A d \in Callers \ {c} : pc'[d] = pc[d]
          BY <2>1, <3>2 DEF MissingDone, Same
        <4>2. QED
          BY <1>a, <4>1
      <3>3. QED
        BY <3>1, <3>2
    <2>4. QED
      BY <2>2, <2>3
  <1>13. ASSUME NEW c \in Callers, Finish(c) PROVE Mutex' /\ Answered'
    BY <1>13, <1>a DEF Finish, TypeOK
  <1>14. CASE UNCHANGED vars
    BY <1>14, <1>a DEF TypeOK
  <1>15. QED
    BY <1>1, <1>2, <1>3, <1>4, <1>5, <1>6, <1>7, <1>8, <1>9, <1>10, <1>11, <1>12, <1>13, <1>14
       DEF Next, Machine, Step


\* Who has been noted as gone.
LEMMA NotedStep == Inv /\ [Next]_vars => Noted' /\ PassedOver'
  <1> SUFFICES ASSUME Inv, [Next]_vars PROVE Noted' /\ PassedOver'
    OBVIOUS
  <1>a. TypeOK /\ Noted /\ PassedOver
    BY DEF Inv
  <1>b. /\ \A c \in Callers : pid[c] \in Pids /\ walk[c] \in [Pids -> Entry \cup {None}]
        /\ \A c \in Callers : index[c] \in 0..MaxPid /\ absent[c] \in BOOLEAN
        /\ DOMAIN table = Pids /\ DOMAIN absent = Callers
    BY <1>a DEF TypeOK
  <1>c. \A c \in Callers : (Step(c) \/ \E p \in Pids : Call(c, p)) => \A d \in Callers \ {c} : Same(d)
    BY <1>a, OthersSame
  <1> USE DEF Noted, PassedOver, Walking
  <1>1. ASSUME Tick PROVE Noted' /\ PassedOver'
    BY <1>1, <1>a, <1>b DEF Tick
  <1>2. ASSUME NEW p \in Pids, Work(p) PROVE Noted' /\ PassedOver'
    <2>1. \A q \in Pids : table'[q] = None <=> table[q] = None
      BY <1>2, <1>a, WorkStep
    <2>2. QED
      BY <1>2, <1>a, <1>b, <2>1 DEF Work
  <1>3. ASSUME NEW p \in Pids, Exit(p) PROVE Noted' /\ PassedOver'
    <2>1. \A d \in Callers : absent'[d] = (absent[d] \/ (pc[d] # "idle" /\ pid[d] = p))
      BY <1>3 DEF Exit
    <2>2. \A q \in Pids \ {p} : table'[q] = table[q]
      BY <1>3, <1>b DEF Exit
    <2>3. UNCHANGED <<pc, pid, walk, index>>
      BY <1>3 DEF Exit
    <2>4. QED
      BY <1>a, <1>b, <2>1, <2>2, <2>3
  <1>4. ASSUME NEW p \in Pids, Spawn(p) PROVE Noted' /\ PassedOver'
    BY <1>4, <1>a, <1>b DEF Spawn
  <1>5. ASSUME NEW c \in Callers, NEW p \in Pids, Call(c, p) PROVE Noted' /\ PassedOver'
    <2>1. \A d \in Callers \ {c} : Same(d)
      BY <1>5, <1>c
    <2>2. pc'[c] = "lock" /\ pid'[c] = p /\ (table[p] = None => absent'[c]) /\ table' = table
      BY <1>5, <1>a DEF Call, TypeOK
    <2>3. Noted'
      BY <1>a, <2>1, <2>2 DEF Same
    <2>4. PassedOver'
      BY <1>a, <2>1, <2>2 DEF Same
    <2>5. QED
      BY <2>3, <2>4
  <1>6. ASSUME NEW c \in Callers, Lock(c) PROVE Noted' /\ PassedOver'
    BY <1>6, <1>a, <1>b DEF Lock
  <1>7. ASSUME NEW c \in Callers, Check(c) PROVE Noted' /\ PassedOver'
    <2>1. CheckDone(c) /\ \A d \in Callers \ {c} : Same(d)
      BY <1>7, <1>a, <1>c, OwnStep DEF Step
    <2>2. Noted'
      BY <1>a, <2>1 DEF Same, CheckDone
    <2>3. ~(pid'[c] <= 0)
      BY <1>b, <2>1 DEF CheckDone, Pids
    <2>4. PassedOver'
      BY <1>a, <2>1, <2>3 DEF Same, CheckDone
    <2>5. QED
      BY <2>2, <2>4
  <1>8. ASSUME NEW c \in Callers, GetProcs(c) PROVE Noted' /\ PassedOver'
    <2>1. PICK after \in SUBSET Pids, got \in SUBSET Pids : BatchRead(c, after, got)
      BY <1>8, <1>a, GetProcsStep
    <2> USE DEF BatchRead
    <2>2. \A d \in Callers \ {c} : Same(d)
      BY <1>8, <1>c DEF Step
    <2>3. UNCHANGED <<table, pid, absent>> /\ pc'[c] \in {"walk", "publish"}
      BY <1>8, <1>a, <2>1 DEF GetProcs, TypeOK
    <2>4. Noted'
      BY <1>a, <2>1, <2>2, <2>3 DEF Same
    <2> DEFINE q == pid[c]
    <2>5. ASSUME walk'[c][q] = None, pc'[c] = "publish" \/ q <= index'[c] PROVE absent[c]
      <3>1. q \notin got /\ walk[c][q] = None
        <4>1. walk'[c] = [p \in Pids |->
                    IF p \in got THEN [who |-> table[p].who, count |-> table[p].count, at |-> clock]
                    ELSE walk[c][p]]
          BY <1>a, <2>1 DEF TypeOK
        <4>2. q \in got => walk'[c][q] # None
          <5> SUFFICES ASSUME q \in got PROVE walk'[c][q] # None
            OBVIOUS
          <5>1. table[q] \in [who : 1..MaxIncarnation, count : Nat] /\ clock \in Nat
            BY <1>a, <2>1 DEF TypeOK
          <5>2. table[q].who \in 1..MaxIncarnation /\ table[q].count \in Nat
            BY <5>1
          <5>3. QED
            BY <1>b, <4>1, <5>1, <5>2, EntryIsSome
        <4>3. QED
          BY <1>b, <2>5, <4>1, <4>2
      <3>2. CASE q <= index[c]
        BY <1>a, <2>1, <3>1, <3>2
      <3>3. CASE ~(q <= index[c])
        <4>1. q > index[c]
          BY <1>b, <3>3 DEF Pids
        <4>2. q \notin after
          <5>1. CASE pc'[c] = "publish"
            BY <1>a, <2>1, <3>1, <5>1 DEF TypeOK
          <5>2. CASE q <= index'[c]
            BY <2>1, <3>1, <3>3, <5>2
          <5>3. QED
            BY <2>5, <5>1, <5>2
        <4>3. table[q] = None
          BY <1>b, <2>1, <4>1, <4>2
        <4>4. QED
          BY <1>a, <2>1, <4>3
      <3>4. QED
        BY <3>2, <3>3
    <2> HIDE DEF q
    <2>6. PassedOver'
      BY <1>a, <2>2, <2>3, <2>5 DEF Same, q
    <2>7. QED
      BY <2>4, <2>6
  <1>9. ASSUME NEW c \in Callers, GetProcsFails(c) PROVE Noted' /\ PassedOver'
    BY <1>9, <1>a, <1>b DEF GetProcsFails, Return
  <1>10. ASSUME NEW c \in Callers, Publish(c) PROVE Noted' /\ PassedOver'
    BY <1>10, <1>a, <1>b DEF Publish
  <1>11. ASSUME NEW c \in Callers, Found(c) PROVE Noted' /\ PassedOver'
    BY <1>11, <1>a, <1>b DEF Found, Return
  <1>12. ASSUME NEW c \in Callers, Missing(c) PROVE Noted' /\ PassedOver'
    <2>1. MissingDone(c) /\ \A d \in Callers \ {c} : Same(d)
      BY <1>12, <1>a, <1>c, OwnStep DEF Step
    <2>2. /\ pid'[c] = pid[c] /\ absent'[c] = absent[c] /\ table' = table /\ pc[c] = "lookup"
          /\ (pc'[c] = "walk" /\ index'[c] = 0) \/ pc'[c] = "done"
      BY <2>1 DEF MissingDone
    <2>3. Noted'
      BY <1>a, <2>1, <2>2 DEF Same
    <2>4. ~(pid'[c] <= 0)
      BY <1>b, <2>2 DEF Pids
    <2>5. PassedOver'
      BY <1>a, <2>1, <2>2, <2>4 DEF Same
    <2>6. QED
      BY <2>3, <2>5
  <1>13. ASSUME NEW c \in Callers, Finish(c) PROVE Noted' /\ PassedOver'
    <2>1. pc'[c] = "idle" /\ table' = table /\ \A d \in Callers \ {c} : Same(d)
      BY <1>13, <1>a, <1>c DEF Finish, Step, TypeOK
    <2>2. QED
      BY <1>a, <2>1 DEF Same
  <1>14. CASE UNCHANGED vars
    BY <1>14, <1>a, <1>b
  <1>15. QED
    BY <1>1, <1>2, <1>3, <1>4, <1>5, <1>6, <1>7, <1>8, <1>9, <1>10, <1>11, <1>12, <1>13, <1>14
       DEF Next, Machine, Step

\* What is believed of the snapshot is true.
LEMMA BelievedStep == Inv /\ [Next]_vars => Believed' /\ NotRunningIsTrue'
  <1> SUFFICES ASSUME Inv, [Next]_vars PROVE Believed' /\ NotRunningIsTrue'
    OBVIOUS
  <1>a. TypeOK /\ Believed /\ NotRunningIsTrue /\ PassedOver /\ Mutex /\ Answered
    BY DEF Inv
  <1>b. /\ \A c \in Callers : absent[c] \in BOOLEAN /\ fresh[c] \in BOOLEAN
        /\ DOMAIN absent = Callers
    BY <1>a DEF TypeOK
  <1>c. \A c \in Callers : (Step(c) \/ \E p \in Pids : Call(c, p)) => \A d \in Callers \ {c} : Same(d)
    BY <1>a, OthersSame
  <1> USE DEF Believed, NotRunningIsTrue
  <1>1. ASSUME Tick PROVE Believed' /\ NotRunningIsTrue'
    BY <1>1, <1>a, <1>b DEF Tick
  <1>2. ASSUME NEW p \in Pids, Work(p) PROVE Believed' /\ NotRunningIsTrue'
    BY <1>2, <1>a, <1>b DEF Work
  <1>3. ASSUME NEW p \in Pids, Exit(p) PROVE Believed' /\ NotRunningIsTrue'
    <2>1. \A d \in Callers : absent'[d] = (absent[d] \/ (pc[d] # "idle" /\ pid[d] = p))
      BY <1>3 DEF Exit
    <2>2. UNCHANGED <<pc, pid, fresh, byPID, answer>>
      BY <1>3 DEF Exit
    <2>3. QED
      BY <1>a, <1>b, <2>1, <2>2
  <1>4. ASSUME NEW p \in Pids, Spawn(p) PROVE Believed' /\ NotRunningIsTrue'
    BY <1>4, <1>a, <1>b DEF Spawn
  <1>5. ASSUME NEW c \in Callers, NEW p \in Pids, Call(c, p) PROVE Believed' /\ NotRunningIsTrue'
    <2>1. \A d \in Callers \ {c} : Same(d)
      BY <1>5, <1>c
    <2>2. pc[c] = "idle" /\ pc'[c] = "lock" /\ answer'[c] = answer[c] /\ byPID' = byPID
      BY <1>5, <1>a DEF Call, TypeOK
    <2>3. answer[c] = "none"
      BY <1>a, <2>2 DEF Answered
    <2>4. QED
      BY <1>a, <2>1, <2>2, <2>3 DEF Same
  <1>6. ASSUME NEW c \in Callers, Lock(c) PROVE Believed' /\ NotRunningIsTrue'
    <2>1. \A d \in Callers \ {c} : Same(d)
      BY <1>6, <1>c DEF Step
    <2>2. UNCHANGED <<byPID, answer, absent>> /\ pc'[c] = "check"
      BY <1>6, <1>a DEF Lock, TypeOK
    <2>3. QED
      BY <1>a, <2>1, <2>2 DEF Same
  <1>7. ASSUME NEW c \in Callers, Check(c) PROVE Believed' /\ NotRunningIsTrue'
    <2>1. CheckDone(c) /\ \A d \in Callers \ {c} : Same(d)
      BY <1>7, <1>a, <1>c, OwnStep DEF Step
    <2>2. /\ byPID' = byPID /\ absent'[c] = absent[c] /\ answer'[c] = answer[c]
          /\ pc'[c] = "walk" \/ (pc'[c] = "lookup" /\ fresh'[c] = FALSE)
      BY <2>1 DEF CheckDone
    <2>3. QED
      BY <1>a, <2>1, <2>2 DEF Same
  <1>8. ASSUME NEW c \in Callers, GetProcs(c) PROVE Believed' /\ NotRunningIsTrue'
    <2>1. \A d \in Callers \ {c} : Same(d)
      BY <1>8, <1>c DEF Step
    <2>2. byPID' = byPID /\ absent' = absent /\ answer' = answer /\ pc'[c] \in {"walk", "publish"}
      BY <1>8, <1>a DEF GetProcs, TypeOK
    <2>3. QED
      BY <1>a, <2>1, <2>2 DEF Same
  <1>9. ASSUME NEW c \in Callers, GetProcsFails(c) PROVE Believed' /\ NotRunningIsTrue'
    <2>1. \A d \in Callers \ {c} : Same(d)
      BY <1>9, <1>c DEF Step
    <2>2. byPID' = byPID /\ answer'[c] = "error" /\ pc'[c] = "done"
      BY <1>9, <1>a DEF GetProcsFails, Return, TypeOK
    <2>3. QED
      BY <1>a, <2>1, <2>2 DEF Same
  <1>10. ASSUME NEW c \in Callers, Publish(c) PROVE Believed' /\ NotRunningIsTrue'
    <2>1. \A d \in Callers \ {c} : Same(d)
      BY <1>10, <1>c DEF Step
    <2>2. /\ byPID' = walk[c] /\ absent' = absent /\ answer' = answer /\ pid' = pid
          /\ pc[c] = "publish" /\ pc'[c] = "lookup"
      BY <1>10, <1>a DEF Publish, TypeOK
    <2>3. \A d \in Callers \ {c} : pc[d] # "lookup"
      BY <1>a, <2>2 DEF Mutex
    <2>4. walk[c][pid[c]] = None => absent[c]
      BY <1>a, <2>2 DEF PassedOver, Walking
    <2>5. QED
      BY <1>a, <2>1, <2>2, <2>3, <2>4 DEF Same
  <1>11. ASSUME NEW c \in Callers, Found(c) PROVE Believed' /\ NotRunningIsTrue'
    <2>1. \A d \in Callers \ {c} : Same(d)
      BY <1>11, <1>c DEF Step
    <2>2. byPID' = byPID /\ answer'[c] = "entry" /\ pc'[c] = "done"
      BY <1>11, <1>a DEF Found, Return, TypeOK
    <2>3. QED
      BY <1>a, <2>1, <2>2 DEF Same
  <1>12. ASSUME NEW c \in Callers, Missing(c) PROVE Believed' /\ NotRunningIsTrue'
    <2>1. MissingDone(c) /\ \A d \in Callers \ {c} : Same(d)
      BY <1>12, <1>a, <1>c, OwnStep DEF Step
    <2>2. /\ byPID' = byPID /\ absent'[c] = absent[c] /\ pc[c] = "lookup" /\ byPID[pid[c]] = None
          /\ (pc'[c] = "walk" /\ answer'[c] = answer[c]) \/ (pc'[c] = "done" /\ fresh[c])
      BY <2>1 DEF MissingDone
    <2>3. QED
      BY <1>a, <2>1, <2>2 DEF Same
  <1>13. ASSUME NEW c \in Callers, Finish(c) PROVE Believed' /\ NotRunningIsTrue'
    <2>1. pc'[c] = "idle" /\ answer'[c] = "none" /\ byPID' = byPID /\ \A d \in Callers \ {c} : Same(d)
      BY <1>13, <1>a, <1>c DEF Finish, Step, TypeOK
    <2>2. QED
      BY <1>a, <2>1 DEF Same
  <1>14. CASE UNCHANGED vars
    BY <1>14, <1>a, <1>b
  <1>15. QED
    BY <1>1, <1>2, <1>3, <1>4, <1>5, <1>6, <1>7, <1>8, <1>9, <1>10, <1>11, <1>12, <1>13, <1>14
       DEF Next, Machine, Step

\* How old the snapshot is.
LEMMA AgesStep == Inv /\ [Next]_vars => Ages'
  <1> SUFFICES ASSUME Inv, [Next]_vars PROVE Ages'
    OBVIOUS
  <1>a. TypeOK /\ Ages /\ Mutex
    BY DEF Inv
  <1>b. /\ clock \in Nat /\ taken \in 0..clock /\ began \in 0..taken
        /\ \A c \in Callers : since[c] \in Nat /\ checked[c] \in Nat
    BY <1>a DEF TypeOK
  <1>c. \A c \in Callers : (Step(c) \/ \E p \in Pids : Call(c, p)) => \A d \in Callers \ {c} : Same(d)
    BY <1>a, OthersSame
  <1> USE DEF Ages, Walking
  <1>1. ASSUME Tick PROVE Ages'
    BY <1>1, <1>a, <1>b DEF Tick
  <1>2. ASSUME NEW p \in Pids, Work(p) PROVE Ages'
    BY <1>2, <1>a, <1>b DEF Work
  <1>3. ASSUME NEW p \in Pids, Exit(p) PROVE Ages'
    BY <1>3, <1>a, <1>b DEF Exit
  <1>4. ASSUME NEW p \in Pids, Spawn(p) PROVE Ages'
    BY <1>4, <1>a, <1>b DEF Spawn
  <1>5. ASSUME NEW c \in Callers, NEW p \in Pids, Call(c, p) PROVE Ages'
    <2>1. \A d \in Callers \ {c} : Same(d)
      BY <1>5, <1>c
    <2>2. UNCHANGED <<clock, taken, began, byPID, checked>> /\ pc'[c] = "lock"
      BY <1>5, <1>a DEF Call, TypeOK
    <2>3. QED
      BY <1>a, <1>b, <2>1, <2>2 DEF Same
  <1>6. ASSUME NEW c \in Callers, Lock(c) PROVE Ages'
    <2>1. \A d \in Callers \ {c} : Same(d)
      BY <1>6, <1>c DEF Step
    <2>2. UNCHANGED <<clock, taken, began, byPID, checked>> /\ pc'[c] = "check"
      BY <1>6, <1>a DEF Lock, TypeOK
    <2>3. QED
      BY <1>a, <1>b, <2>1, <2>2 DEF Same
  <1>7. ASSUME NEW c \in Callers, Check(c) PROVE Ages'
    <2>1. CheckDone(c) /\ \A d \in Callers \ {c} : Same(d)
      BY <1>7, <1>a, <1>c, OwnStep DEF Step
    <2>2. UNCHANGED <<clock, taken, began, byPID>> /\ checked'[c] = clock
      BY <2>1 DEF CheckDone
    <2>3. \/ pc'[c] = "walk" /\ fresh'[c] /\ since'[c] = clock /\ \A p \in Pids : walk'[c][p] = None
          \/ pc'[c] = "lookup" /\ clock - taken < MaxAge
      BY <2>1 DEF CheckDone, Empty
    <2>4. QED
      BY <1>a, <1>b, <2>1, <2>2, <2>3 DEF Same
  <1>8. ASSUME NEW c \in Callers, GetProcs(c) PROVE Ages'
    <2>1. PICK after \in SUBSET Pids, got \in SUBSET Pids : BatchRead(c, after, got)
      BY <1>8, <1>a, GetProcsStep
    <2> USE DEF BatchRead
    <2>2. \A d \in Callers \ {c} : Same(d)
      BY <1>8, <1>c DEF Step
    <2>3. UNCHANGED <<clock, taken, began, byPID, since, fresh, checked>> /\ pc'[c] \in {"walk", "publish"}
      BY <1>8, <1>a, <2>1 DEF GetProcs, TypeOK
    <2>4. ASSUME NEW p \in Pids, walk'[c][p] # None PROVE walk'[c][p].at >= since[c]
      <3>1. walk'[c][p] = IF p \in got THEN [who |-> table[p].who, count |-> table[p].count, at |-> clock]
                          ELSE walk[c][p]
        BY <1>a, <2>1 DEF TypeOK
      <3>2. CASE p \in got
        <4>1. walk'[c][p].at = clock
          BY <3>1, <3>2
        <4>2. since[c] <= clock
          BY <1>a, <2>1
        <4>3. QED
          BY <1>b, <4>1, <4>2
      <3>3. CASE p \notin got
        BY <1>a, <2>1, <2>4, <3>1, <3>3
      <3>4. QED
        BY <3>2, <3>3
    <2>5. QED
      BY <1>a, <2>1, <2>2, <2>3, <2>4 DEF Same
  <1>9. ASSUME NEW c \in Callers, GetProcsFails(c) PROVE Ages'
    <2>1. \A d \in Callers \ {c} : Same(d)
      BY <1>9, <1>c DEF Step
    <2>2. UNCHANGED <<clock, taken, began, byPID, checked>> /\ pc'[c] = "done"
      BY <1>9, <1>a DEF GetProcsFails, Return, TypeOK
    <2>3. QED
      BY <1>a, <1>b, <2>1, <2>2 DEF Same
  <1>10. ASSUME NEW c \in Callers, Publish(c) PROVE Ages'
    <2>1. \A d \in Callers \ {c} : Same(d)
      BY <1>10, <1>c DEF Step
    <2>2. /\ byPID' = walk[c] /\ began' = since[c] /\ UNCHANGED <<clock, fresh, checked>>
          /\ pc[c] = "publish" /\ pc'[c] = "lookup"
      BY <1>10, <1>a DEF Publish, TypeOK
    <2>3. \A d \in Callers \ {c} : pc[d] # "lookup"
      BY <1>a, <2>2 DEF Mutex
    <2>4. QED
      BY <1>a, <2>1, <2>2, <2>3 DEF Same
  <1>11. ASSUME NEW c \in Callers, Found(c) PROVE Ages'
    <2>1. \A d \in Callers \ {c} : Same(d)
      BY <1>11, <1>c DEF Step
    <2>2. UNCHANGED <<clock, taken, began, byPID, checked>> /\ pc'[c] = "done"
      BY <1>11, <1>a DEF Found, Return, TypeOK
    <2>3. QED
      BY <1>a, <1>b, <2>1, <2>2 DEF Same
  <1>12. ASSUME NEW c \in Callers, Missing(c) PROVE Ages'
    <2>1. MissingDone(c) /\ \A d \in Callers \ {c} : Same(d)
      BY <1>12, <1>a, <1>c, OwnStep DEF Step
    <2>2. UNCHANGED <<clock, taken, began, byPID>> /\ checked'[c] = checked[c]
      BY <2>1 DEF MissingDone
    <2>3. \/ pc'[c] = "walk" /\ fresh'[c] /\ since'[c] = clock /\ \A p \in Pids : walk'[c][p] = None
          \/ pc'[c] = "done"
      BY <2>1 DEF MissingDone, Empty
    <2>4. QED
      BY <1>a, <1>b, <2>1, <2>2, <2>3 DEF Same
  <1>13. ASSUME NEW c \in Callers, Finish(c) PROVE Ages'
    <2>1. \A d \in Callers \ {c} : Same(d)
      BY <1>13, <1>c DEF Step
    <2>2. UNCHANGED <<clock, taken, began, byPID>> /\ pc'[c] = "idle" /\ checked'[c] = 0
      BY <1>13, <1>a DEF Finish, TypeOK
    <2>3. QED
      BY <1>a, <1>b, <2>1, <2>2 DEF Same
  <1>14. CASE UNCHANGED vars
    BY <1>14, <1>a, <1>b
  <1>15. QED
    BY <1>1, <1>2, <1>3, <1>4, <1>5, <1>6, <1>7, <1>8, <1>9, <1>10, <1>11, <1>12, <1>13, <1>14
       DEF Next, Machine, Step

\* The number of a process, and its counter.
LEMMA EntryTypes ==
    ASSUME TypeOK
    PROVE  /\ \A p \in Pids : table[p] # None => table[p].who \in 1..MaxIncarnation /\ table[p].count \in Nat
           /\ \A p \in Pids : byPID[p] # None => byPID[p].who \in Nat /\ byPID[p].count \in Nat
           /\ \A p \in Pids : seen[p] # None => seen[p].who \in Nat /\ seen[p].count \in Nat
           /\ \A c \in Callers, p \in Pids : walk[c][p] # None =>
                 walk[c][p].who \in Nat /\ walk[c][p].count \in Nat
           /\ \A p \in Pids : byPID[p] # None => byPID[p].at \in Nat /\ byPID[p].who \in 1..MaxIncarnation
           /\ \A c \in Callers, p \in Pids : walk[c][p] # None =>
                 walk[c][p].at \in Nat /\ walk[c][p].who \in 1..MaxIncarnation
  <1>1. \A e \in Entry : e.who \in Nat /\ e.count \in Nat /\ e.at \in Nat /\ e.who \in 1..MaxIncarnation
    BY DEF Entry
  <1>2. \A p \in Pids : table[p] # None => table[p].who \in 1..MaxIncarnation /\ table[p].count \in Nat
    BY DEF TypeOK
  <1>3. \A p \in Pids : /\ byPID[p] # None => byPID[p] \in Entry
                        /\ seen[p] # None => seen[p] \in Entry
    BY DEF TypeOK
  <1>4. \A c \in Callers, p \in Pids : walk[c][p] # None => walk[c][p] \in Entry
    <2>1. \A c \in Callers : walk[c] \in [Pids -> Entry \cup {None}]
      BY DEF TypeOK
    <2>2. QED
      BY <2>1
  <1>5. QED
    BY <1>1, <1>2, <1>3, <1>4

\* What getprocs64 has written over the entries of the pass.
LEMMA WalkStep ==
    ASSUME TypeOK, NEW c \in Callers, GetProcs(c), NEW p \in Pids
    PROVE  \/ walk'[c][p] = walk[c][p]
           \/ /\ table[p] # None /\ walk'[c][p] # None
              /\ walk'[c][p].who = table[p].who /\ walk'[c][p].count = table[p].count
              /\ walk'[c][p].at = clock
  <1>1. PICK got \in SUBSET Pids :
            /\ \A q \in got : table[q] # None
            /\ walk' = [walk EXCEPT ![c] = [q \in Pids |->
                  IF q \in got THEN [who |-> table[q].who, count |-> table[q].count, at |-> clock]
                  ELSE walk[c][q]]]
    BY GetProcsStep DEF BatchRead
  <1>2. walk'[c][p] = IF p \in got THEN [who |-> table[p].who, count |-> table[p].count, at |-> clock]
                      ELSE walk[c][p]
    BY <1>1 DEF TypeOK
  <1>3. CASE p \in got
    <2>1. table[p] # None /\ clock \in Nat
      BY <1>1, <1>3 DEF TypeOK
    <2>2. table[p].who \in 1..MaxIncarnation /\ table[p].count \in Nat
      BY <2>1, EntryTypes
    <2>3. walk'[c][p] = [who |-> table[p].who, count |-> table[p].count, at |-> clock]
      BY <1>2, <1>3
    <2>4. walk'[c][p] # None
      BY <2>1, <2>2, <2>3, EntryIsSome
    <2>5. QED
      BY <2>1, <2>3, <2>4
  <1>4. QED
    BY <1>2, <1>3

\* Every entry is of a process that has been started.
LEMMA KnownStep == Inv /\ [Next]_vars => AllKnown'
  <1> SUFFICES ASSUME Inv, [Next]_vars PROVE AllKnown'
    OBVIOUS
  <1>a. TypeOK /\ AllKnown
    BY DEF Inv
  <1>b. spawned \in Nat
    <2>1. spawned \in 0..MaxIncarnation
      BY <1>a DEF TypeOK
    <2>2. QED
      BY <2>1
  <1>c. \A c \in Callers : (Step(c) \/ \E p \in Pids : Call(c, p)) => \A d \in Callers \ {c} : Same(d)
    BY <1>a, OthersSame
  <1> USE DEF AllKnown, Known
  <1>1. ASSUME Tick PROVE AllKnown'
    BY <1>1, <1>a, <1>b DEF Tick
  <1>2. ASSUME NEW p \in Pids, Work(p) PROVE AllKnown'
    <2>1. \A q \in Pids : table'[q] # None => table[q] # None /\ table'[q].who = table[q].who
      BY <1>2, <1>a, WorkStep
    <2>2. UNCHANGED <<spawned, seen, byPID, walk>>
      BY <1>2 DEF Work
    <2>3. QED
      BY <1>a, <2>1, <2>2
  <1>3. ASSUME NEW p \in Pids, Exit(p) PROVE AllKnown'
    <2>1. \A q \in Pids : table'[q] \in {table[q], None}
      BY <1>3, <1>a DEF Exit, TypeOK
    <2>2. UNCHANGED <<spawned, seen, byPID, walk>>
      BY <1>3 DEF Exit
    <2>3. QED
      BY <1>a, <2>1, <2>2
  <1>4. ASSUME NEW p \in Pids, Spawn(p) PROVE AllKnown'
    <2>1. \A q \in Pids : table'[q] = table[q] \/ table'[q].who = spawned + 1
      BY <1>4, <1>a DEF Spawn, TypeOK
    <2>2. UNCHANGED <<seen, byPID, walk>> /\ spawned' = spawned + 1
      BY <1>4 DEF Spawn
    <2>3. \A n \in Int : n <= spawned => n <= spawned + 1
      BY <1>b
    <2>4. spawned + 1 <= spawned + 1
      BY <1>b
    <2>5. /\ \A q \in Pids : table[q] # None => table[q].who \in Int
          /\ \A q \in Pids : byPID[q] # None => byPID[q].who \in Int
          /\ \A q \in Pids : seen[q] # None => seen[q].who \in Int
          /\ \A c \in Callers, q \in Pids : walk[c][q] # None => walk[c][q].who \in Int
      BY <1>a, EntryTypes
    <2>6. QED
      BY <1>a, <2>1, <2>2, <2>3, <2>4, <2>5
  <1>5. ASSUME NEW c \in Callers, NEW p \in Pids, Call(c, p) PROVE AllKnown'
    BY <1>5, <1>a, <1>b DEF Call
  <1>6. ASSUME NEW c \in Callers, Lock(c) PROVE AllKnown'
    BY <1>6, <1>a, <1>b DEF Lock
  <1>7. ASSUME NEW c \in Callers, Check(c) PROVE AllKnown'
    <2>1. CheckDone(c) /\ \A d \in Callers \ {c} : Same(d)
      BY <1>7, <1>a, <1>c, OwnStep DEF Step
    <2>2. UNCHANGED <<spawned, table, seen, byPID>> /\ \A p \in Pids : walk'[c][p] \in {walk[c][p], None}
      BY <2>1 DEF CheckDone, Empty
    <2>3. QED
      BY <1>a, <2>1, <2>2 DEF Same
  <1>8. ASSUME NEW c \in Callers, GetProcs(c) PROVE AllKnown'
    <2>1. \A d \in Callers \ {c} : Same(d)
      BY <1>8, <1>c DEF Step
    <2>2. UNCHANGED <<spawned, table, seen, byPID>>
      BY <1>8 DEF GetProcs
    <2>3. \A p \in Pids : walk'[c][p] = walk[c][p] \/ (table[p] # None /\ walk'[c][p].who = table[p].who)
      BY <1>8, <1>a, WalkStep
    <2>4. QED
      BY <1>a, <2>1, <2>2, <2>3 DEF Same
  <1>9. ASSUME NEW c \in Callers, GetProcsFails(c) PROVE AllKnown'
    BY <1>9, <1>a, <1>b DEF GetProcsFails, Return
  <1>10. ASSUME NEW c \in Callers, Publish(c) PROVE AllKnown'
    <2>1. UNCHANGED <<spawned, table, seen, walk>> /\ byPID' = walk[c]
      BY <1>10 DEF Publish
    <2>2. QED
      BY <1>a, <2>1
  <1>11. ASSUME NEW c \in Callers, Found(c) PROVE AllKnown'
    <2>1. UNCHANGED <<spawned, table, byPID, walk>>
      BY <1>11 DEF Found
    <2>2. \A p \in Pids : seen'[p] \in {seen[p], byPID[p]}
      BY <1>11, <1>a DEF Found, TypeOK
    <2>3. QED
      BY <1>a, <2>1, <2>2
  <1>12. ASSUME NEW c \in Callers, Missing(c) PROVE AllKnown'
    <2>1. MissingDone(c) /\ \A d \in Callers \ {c} : Same(d)
      BY <1>12, <1>a, <1>c, OwnStep DEF Step
    <2>2. UNCHANGED <<spawned, table, seen, byPID>> /\ \A p \in Pids : walk'[c][p] \in {walk[c][p], None}
      BY <2>1 DEF MissingDone, Empty
    <2>3. QED
      BY <1>a, <2>1, <2>2 DEF Same
  <1>13. ASSUME NEW c \in Callers, Finish(c) PROVE AllKnown'
    <2>1. \A d \in Callers \ {c} : Same(d)
      BY <1>13, <1>c DEF Step
    <2>2. UNCHANGED <<spawned, table, seen, byPID>> /\ \A p \in Pids : walk'[c][p] = None
      BY <1>13, <1>a DEF Finish, TypeOK, Empty
    <2>3. QED
      BY <1>a, <2>1, <2>2 DEF Same
  <1>14. CASE UNCHANGED vars
    BY <1>14, <1>a, <1>b
  <1>15. QED
    BY <1>1, <1>2, <1>3, <1>4, <1>5, <1>6, <1>7, <1>8, <1>9, <1>10, <1>11, <1>12, <1>13, <1>14
       DEF Next, Machine, Step

\* Of one process, nothing later is seen before something earlier.
LEMMA OrderedStep == Inv /\ [Next]_vars => Ordered'
  <1> SUFFICES ASSUME Inv, [Next]_vars PROVE Ordered'
    OBVIOUS
  <1>a. TypeOK /\ Ordered /\ AllKnown /\ Mutex
    BY DEF Inv
  <1>b. /\ \A p \in Pids : table[p] # None => table[p].count \in Nat
        /\ \A p \in Pids : byPID[p] # None => byPID[p].count \in Nat
        /\ \A p \in Pids : seen[p] # None => seen[p].count \in Nat
        /\ \A c \in Callers, p \in Pids : walk[c][p] # None => walk[c][p].count \in Nat
    BY <1>a, EntryTypes
  <1>c. \A c \in Callers : (Step(c) \/ \E p \in Pids : Call(c, p)) => \A d \in Callers \ {c} : Same(d)
    BY <1>a, OthersSame
  <1> USE DEF Ordered, Walking, NoLater
  <1>1. ASSUME Tick PROVE Ordered'
    BY <1>1, <1>a, <1>b DEF Tick
  <1>2. ASSUME NEW p \in Pids, Work(p) PROVE Ordered'
    <2>1. \A q \in Pids : table'[q] # None => /\ table[q] # None /\ table'[q].who = table[q].who
                                                 /\ table'[q].count >= table[q].count
      BY <1>2, <1>a, WorkStep
    <2>2. UNCHANGED <<seen, byPID, walk, pc>>
      BY <1>2 DEF Work
    <2>3. \A q \in Pids : table'[q] # None => table'[q].count \in Nat
      <3>1. TypeOK'
        BY TypeStep
      <3>2. \A q \in Pids : table'[q] # None => table'[q] \in [who : 1..MaxIncarnation, count : Nat]
        BY <3>1 DEF TypeOK
      <3>3. QED
        BY <3>2
    <2>4. \A q \in Pids : NoLater(seen[q], table'[q]) /\ NoLater(byPID[q], table'[q])
      BY <1>a, <1>b, <2>1, <2>3
    <2>5. \A q \in Pids, d \in Callers : Walking(d) => NoLater(walk[d][q], table'[q])
      BY <1>a, <1>b, <2>1, <2>3
    <2>6. QED
      BY <1>a, <2>2, <2>4, <2>5
  <1>3. ASSUME NEW p \in Pids, Exit(p) PROVE Ordered'
    <2>1. \A q \in Pids : table'[q] \in {table[q], None}
      BY <1>3, <1>a DEF Exit, TypeOK
    <2>2. UNCHANGED <<seen, byPID, walk, pc>>
      BY <1>3 DEF Exit
    <2>3. QED
      BY <1>a, <2>1, <2>2
  <1>4. ASSUME NEW p \in Pids, Spawn(p) PROVE Ordered'
    <2>1. \A q \in Pids : table'[q] = table[q] \/ table'[q].who = spawned + 1
      BY <1>4, <1>a DEF Spawn, TypeOK
    <2>2. UNCHANGED <<seen, byPID, walk, pc>>
      BY <1>4 DEF Spawn
    <2>3. spawned \in Int /\ ~(spawned + 1 <= spawned)
      <3>1. spawned \in 0..MaxIncarnation
        BY <1>a DEF TypeOK
      <3>2. QED
        BY <3>1
    <2>4. /\ \A q \in Pids : seen[q] # None => seen[q].who # spawned + 1
          /\ \A q \in Pids : byPID[q] # None => byPID[q].who # spawned + 1
          /\ \A q \in Pids, c \in Callers : walk[c][q] # None => walk[c][q].who # spawned + 1
      BY <1>a, <2>3 DEF AllKnown, Known
    <2>5. QED
      BY <1>a, <2>1, <2>2, <2>4
  <1>5. ASSUME NEW c \in Callers, NEW p \in Pids, Call(c, p) PROVE Ordered'
    <2>1. \A d \in Callers \ {c} : Same(d)
      BY <1>5, <1>c
    <2>2. UNCHANGED <<table, seen, byPID>> /\ pc'[c] = "lock"
      BY <1>5, <1>a DEF Call, TypeOK
    <2>3. QED
      BY <1>a, <2>1, <2>2 DEF Same
  <1>6. ASSUME NEW c \in Callers, Lock(c) PROVE Ordered'
    <2>1. \A d \in Callers \ {c} : Same(d)
      BY <1>6, <1>c DEF Step
    <2>2. UNCHANGED <<table, seen, byPID>> /\ pc'[c] = "check"
      BY <1>6, <1>a DEF Lock, TypeOK
    <2>3. QED
      BY <1>a, <2>1, <2>2 DEF Same
  <1>7. ASSUME NEW c \in Callers, Check(c) PROVE Ordered'
    <2>1. CheckDone(c) /\ \A d \in Callers \ {c} : Same(d)
      BY <1>7, <1>a, <1>c, OwnStep DEF Step
    <2>2. /\ UNCHANGED <<table, seen, byPID>>
          /\ pc'[c] = "lookup" \/ \A p \in Pids : walk'[c][p] = None
      BY <2>1 DEF CheckDone, Empty
    <2>3. QED
      BY <1>a, <2>1, <2>2 DEF Same
  <1>8. ASSUME NEW c \in Callers, GetProcs(c) PROVE Ordered'
    <2>1. \A d \in Callers \ {c} : Same(d)
      BY <1>8, <1>c DEF Step
    <2>2. UNCHANGED <<table, seen, byPID>> /\ pc[c] = "walk"
      BY <1>8 DEF GetProcs
    <2>3. \A p \in Pids : \/ walk'[c][p] = walk[c][p]
                          \/ /\ table[p] # None /\ walk'[c][p] # None
                             /\ walk'[c][p].who = table[p].who /\ walk'[c][p].count = table[p].count
      BY <1>8, <1>a, WalkStep
    <2>4. \A p \in Pids : NoLater(seen[p], walk'[c][p]) /\ NoLater(walk'[c][p], table[p])
      BY <1>a, <1>b, <2>2, <2>3
    <2>5. QED
      BY <1>a, <2>1, <2>2, <2>4 DEF Same
  <1>9. ASSUME NEW c \in Callers, GetProcsFails(c) PROVE Ordered'
    <2>1. \A d \in Callers \ {c} : Same(d)
      BY <1>9, <1>c DEF Step
    <2>2. UNCHANGED <<table, seen, byPID>> /\ pc'[c] = "done"
      BY <1>9, <1>a DEF GetProcsFails, Return, TypeOK
    <2>3. QED
      BY <1>a, <2>1, <2>2 DEF Same
  <1>10. ASSUME NEW c \in Callers, Publish(c) PROVE Ordered'
    <2>1. UNCHANGED <<table, seen, walk>> /\ byPID' = walk[c] /\ pc[c] = "publish" /\ pc'[c] = "lookup"
      BY <1>10, <1>a DEF Publish, TypeOK
    <2>2. \A d \in Callers \ {c} : Same(d)
      BY <1>10, <1>c DEF Step
    <2>3. QED
      BY <1>a, <2>1, <2>2 DEF Same
  <1>11. ASSUME NEW c \in Callers, Found(c) PROVE Ordered'
    <2>1. UNCHANGED <<table, byPID>> /\ pc[c] = "lookup" /\ pc'[c] = "done"
      BY <1>11, <1>a DEF Found, Return, TypeOK
    <2>2. \A p \in Pids : seen'[p] \in {seen[p], byPID[p]}
      BY <1>11, <1>a DEF Found, TypeOK
    <2>3. \A d \in Callers \ {c} : Same(d)
      BY <1>11, <1>c DEF Step
    <2>4. \A d \in Callers : ~Walking(d)'
      BY <1>a, <2>1, <2>3 DEF Mutex, Same
    <2>5. \A p \in Pids : NoLater(byPID[p], byPID[p])
      BY <1>b
    <2>6. QED
      BY <1>a, <2>1, <2>2, <2>4, <2>5
  <1>12. ASSUME NEW c \in Callers, Missing(c) PROVE Ordered'
    <2>1. MissingDone(c) /\ \A d \in Callers \ {c} : Same(d)
      BY <1>12, <1>a, <1>c, OwnStep DEF Step
    <2>2. /\ UNCHANGED <<table, seen, byPID>>
          /\ pc'[c] = "done" \/ \A p \in Pids : walk'[c][p] = None
      BY <2>1 DEF MissingDone, Empty
    <2>3. QED
      BY <1>a, <2>1, <2>2 DEF Same
  <1>13. ASSUME NEW c \in Callers, Finish(c) PROVE Ordered'
    <2>1. \A d \in Callers \ {c} : Same(d)
      BY <1>13, <1>c DEF Step
    <2>2. UNCHANGED <<table, seen, byPID>> /\ pc'[c] = "idle"
      BY <1>13, <1>a DEF Finish, TypeOK
    <2>3. QED
      BY <1>a, <2>1, <2>2 DEF Same
  <1>14. CASE UNCHANGED vars
    BY <1>14, <1>a, <1>b
  <1>15. QED
    BY <1>1, <1>2, <1>3, <1>4, <1>5, <1>6, <1>7, <1>8, <1>9, <1>10, <1>11, <1>12, <1>13, <1>14
       DEF Next, Machine, Step

\* The living have not left, and nobody is there twice.
LEMMA AliveStep == Inv /\ [Next]_vars => Alive'
  <1> SUFFICES ASSUME Inv, [Next]_vars PROVE Alive'
    OBVIOUS
  <1>a. TypeOK /\ Alive /\ AllKnown
    BY DEF Inv
  <1>b. /\ spawned \in 0..MaxIncarnation /\ left \in [1..MaxIncarnation -> Nat \cup {-1}]
        /\ \A q \in Pids : table[q] # None => table[q].who \in 1..MaxIncarnation /\ table[q].who <= spawned
    BY <1>a, EntryTypes DEF TypeOK, AllKnown, Known
  <1> USE DEF Alive
  <1>1. ASSUME NEW p \in Pids, Work(p) PROVE Alive'
    <2>1. \A q \in Pids : table'[q] # None => table[q] # None /\ table'[q].who = table[q].who
      BY <1>1, <1>a, WorkStep
    <2>2. UNCHANGED <<spawned, left>>
      BY <1>1 DEF Work
    <2>3. QED
      BY <1>a, <2>1, <2>2
  <1>2. ASSUME NEW p \in Pids, Exit(p) PROVE Alive'
    <2>1. table[p] # None /\ table'[p] = None /\ \A q \in Pids \ {p} : table'[q] = table[q]
      BY <1>2, <1>a DEF Exit, TypeOK
    <2>2. \A w \in 1..MaxIncarnation \ {table[p].who} : left'[w] = left[w]
      BY <1>2, <1>b DEF Exit
    <2>3. spawned' = spawned
      BY <1>2 DEF Exit
    <2>4. \A w \in 1..MaxIncarnation : w > spawned => w # table[p].who
      BY <1>b, <2>1
    <2>5. QED
      BY <1>a, <1>b, <2>1, <2>2, <2>3, <2>4
  <1>3. ASSUME NEW p \in Pids, Spawn(p) PROVE Alive'
    <2>1. /\ table'[p] = [who |-> spawned + 1, count |-> 0] /\ \A q \in Pids \ {p} : table'[q] = table[q]
          /\ spawned + 1 \in 1..MaxIncarnation /\ spawned' = spawned + 1 /\ left' = left
      <3>1. spawned + 1 \in 1..MaxIncarnation
        BY <1>3, <1>b DEF Spawn
      <3>2. QED
        BY <1>3, <1>a, <3>1 DEF Spawn, TypeOK
    <2>2. left[spawned + 1] = -1
      BY <1>a, <1>b, <2>1
    <2>3. \A q \in Pids : table[q] # None => table[q].who # spawned + 1
      BY <1>b
    <2>4. \A w \in 1..MaxIncarnation : w > spawned + 1 => w > spawned
      BY <1>b
    <2>5. QED
      BY <1>a, <2>1, <2>2, <2>3, <2>4
  <1>4. CASE UNCHANGED <<table, spawned, left>>
    BY <1>a, <1>4
  <1>5. \/ \E p \in Pids : Work(p) \/ Exit(p) \/ Spawn(p)
        \/ UNCHANGED <<table, spawned, left>>
    BY DEF Next, Machine, Step, Tick, Call, Lock, Check, GetProcs, GetProcsFails, Publish, Found, Missing,
           Finish
  <1>6. QED
    BY <1>1, <1>2, <1>3, <1>4, <1>5

\* What is in the snapshot or in a pass was read while its process was there.
LEMMA WhileThereStep == Inv /\ [Next]_vars => AllWhileThere'
  <1> SUFFICES ASSUME Inv, [Next]_vars PROVE AllWhileThere'
    OBVIOUS
  <1>a. TypeOK /\ AllWhileThere /\ Alive
    BY DEF Inv
  <1>b. /\ clock \in Nat /\ left \in [1..MaxIncarnation -> Nat \cup {-1}]
        /\ \A q \in Pids : byPID[q] # None => byPID[q].at \in Nat /\ byPID[q].who \in 1..MaxIncarnation
        /\ \A c \in Callers, q \in Pids : walk[c][q] # None =>
              walk[c][q].at \in Nat /\ walk[c][q].who \in 1..MaxIncarnation
    BY <1>a, EntryTypes DEF TypeOK
  <1> USE DEF AllWhileThere, WhileThere
  <1>1. ASSUME Tick PROVE AllWhileThere'
    <2>1. clock' = clock + 1 /\ UNCHANGED <<left, byPID, walk>>
      BY <1>1 DEF Tick
    <2>2. \A n \in Nat : n <= clock => n <= clock + 1
      BY <1>b
    <2>3. QED
      BY <1>a, <1>b, <2>1, <2>2
  <1>2. ASSUME NEW p \in Pids, Exit(p) PROVE AllWhileThere'
    <2>1. UNCHANGED <<clock, byPID, walk>> /\ left' = [left EXCEPT ![table[p].who] = clock]
      BY <1>2 DEF Exit
    <2>2. \A w \in 1..MaxIncarnation : left'[w] \in {left[w], clock}
      BY <1>b, <2>1
    <2>3. QED
      BY <1>a, <1>b, <2>1, <2>2
  <1>3. ASSUME NEW c \in Callers, GetProcs(c) PROVE AllWhileThere'
    <2>1. \A d \in Callers \ {c} : Same(d)
      BY <1>3, <1>a, OthersSame DEF Step
    <2>2. UNCHANGED <<clock, left, byPID>>
      BY <1>3 DEF GetProcs
    <2>3. \A p \in Pids : \/ walk'[c][p] = walk[c][p]
                          \/ /\ table[p] # None /\ walk'[c][p].who = table[p].who
                             /\ walk'[c][p].at = clock
      BY <1>3, <1>a, WalkStep
    <2>4. \A p \in Pids : WhileThere(walk[c][p])'
      BY <1>a, <1>b, <2>2, <2>3 DEF Alive
    <2>5. QED
      BY <1>a, <2>1, <2>2, <2>4 DEF Same
  <1>4. ASSUME NEW c \in Callers, Publish(c) PROVE AllWhileThere'
    <2>1. UNCHANGED <<clock, left, walk>> /\ byPID' = walk[c]
      BY <1>4 DEF Publish
    <2>2. QED
      BY <1>a, <2>1
  <1>5. ASSUME NEW c \in Callers, Check(c) \/ Missing(c) \/ Finish(c) PROVE AllWhileThere'
    <2>1. \A d \in Callers \ {c} : Same(d)
      BY <1>5, <1>a, OthersSame DEF Step
    <2>2. UNCHANGED <<clock, left, byPID>> /\ \A p \in Pids : walk'[c][p] \in {walk[c][p], None}
      <3>1. CASE Finish(c)
        BY <3>1, <1>a DEF Finish, TypeOK, Empty
      <3>2. CASE Check(c) \/ Missing(c)
        BY <3>2, <1>a, OwnStep DEF CheckDone, MissingDone, Empty
      <3>3. QED
        BY <1>5, <3>1, <3>2
    <2>3. QED
      BY <1>a, <2>1, <2>2 DEF Same
  <1>6. CASE UNCHANGED <<clock, left, byPID, walk>>
    BY <1>a, <1>6
  <1>7. \/ Tick \/ (\E p \in Pids : Exit(p))
        \/ \E c \in Callers : GetProcs(c) \/ Publish(c) \/ Check(c) \/ Missing(c) \/ Finish(c)
        \/ UNCHANGED <<clock, left, byPID, walk>>
    BY DEF Next, Machine, Step, Work, Spawn, Call, Lock, GetProcsFails, Found
  <1>8. QED
    BY <1>1, <1>2, <1>3, <1>4, <1>5, <1>6, <1>7

LEMMA Invariance == Inv /\ [Next]_vars => Inv'
  BY TypeStep, LockStep, NotedStep, BelievedStep, AgesStep, OrderedStep, KnownStep, AliveStep,
     WhileThereStep DEF Inv

LEMMA InvHolds == Spec => []Inv
  BY InitInv, Invariance, PTL DEF Spec

-----------------------------------------------------------------------------
(* The theorems *)

\* Every variable keeps its type, whatever the number of goroutines and pids.
THEOREM TypeCorrect == Spec => []TypeOK
  <1>1. Inv => TypeOK
    BY DEF Inv
  <1>2. QED
    BY <1>1, InvHolds, PTL

\* aixPSFor says that a process is not running only if it was gone at some moment of the
\* call, although the table is read in batches and the snapshot is shared.
THEOREM NotRunningTrue == Spec => []NotRunningIsTrue
  <1>1. Inv => NotRunningIsTrue
    BY DEF Inv
  <1>2. QED
    BY <1>1, InvHolds, PTL

\* Counters of a process that has exited are not returned to a call that looks at the
\* snapshot later than aixPSMaxAge plus the length of one pass over the table after the exit.
THEOREM ExitsForgotten == Spec => []DepartedForgotten
  <1>1. Inv => DepartedForgotten
    <2> SUFFICES ASSUME Inv, NEW c \in Callers, pc[c] = "lookup", byPID[pid[c]] # None,
                        left[byPID[pid[c]].who] # -1
                 PROVE  checked[c] - left[byPID[pid[c]].who] < MaxAge + (taken - began)
      BY DEF DepartedForgotten
    <2>1. TypeOK /\ Ages /\ AllWhileThere
      BY DEF Inv
    <2> DEFINE e == byPID[pid[c]]
    <2>2. pid[c] \in Pids
      BY <2>1 DEF TypeOK
    <2>3. e.at \in Nat /\ e.who \in 1..MaxIncarnation
      BY <2>1, <2>2, EntryTypes
    <2>4. clock \in Nat /\ taken \in 0..clock /\ began \in 0..taken /\ checked[c] \in Nat /\ left[e.who] \in Nat
      BY <2>1, <2>3 DEF TypeOK
    <2>5. left[e.who] >= e.at /\ e.at >= began
      BY <2>1, <2>2 DEF AllWhileThere, WhileThere, Ages
    <2>6. checked[c] <= began \/ checked[c] - taken < MaxAge
      BY <2>1 DEF Ages
    <2> HIDE DEF e
    <2>7. checked[c] - left[e.who] < MaxAge + (taken - began)
      BY <2>3, <2>4, <2>5, <2>6
    <2>8. QED
      BY <2>7 DEF e
  <1>2. QED
    BY <1>1, InvHolds, PTL

\* Of one and the same process, no later call of aixPSFor returns a smaller counter than
\* an earlier one.
THEOREM NeverBack == Spec => CountersGrow
  <1> DEFINE Grow == \A p \in Pids : seen[p] # None /\ seen'[p].who = seen[p].who
                                        => seen'[p].count >= seen[p].count
  <1>1. Inv /\ [Next]_vars => Grow
    <2> SUFFICES ASSUME Inv, [Next]_vars PROVE Grow
      OBVIOUS
    <2>a. TypeOK /\ Ordered
      BY DEF Inv
    <2>b. \A p \in Pids : seen[p] # None => seen[p].count \in Nat
      BY <2>a, EntryTypes
    <2>c. \A p \in Pids : byPID[p] # None => byPID[p].count \in Nat
      BY <2>a, EntryTypes
    <2>1. CASE seen' = seen
      BY <2>b, <2>1
    <2>2. ASSUME NEW c \in Callers, Found(c) PROVE Grow
      <3>1. \A p \in Pids : seen'[p] = seen[p] \/ (byPID[p] # None /\ seen'[p] = byPID[p])
        BY <2>2, <2>a DEF Found, TypeOK
      <3>2. \A p \in Pids : NoLater(seen[p], byPID[p])
        BY <2>a DEF Ordered
      <3>3. QED
        BY <2>b, <2>c, <3>1, <3>2 DEF NoLater
    <2>3. seen' = seen \/ \E c \in Callers : Found(c)
      BY DEF Next, Machine, Step, Tick, Work, Exit, Spawn, Call, Lock, Check, GetProcs, GetProcsFails,
             Publish, Missing, Finish
    <2>4. QED
      BY <2>1, <2>2, <2>3
  <1>2. QED
    BY <1>1, InvHolds, PTL DEF Spec, CountersGrow
=============================================================================
