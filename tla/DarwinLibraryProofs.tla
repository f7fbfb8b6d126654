------------------------- MODULE DarwinLibraryProofs -------------------------
(***************************************************************************)
(* For any goroutines, libraries and functions: the maps of DarwinLibrary  *)
(* are never raced for, nothing is opened or resolved twice, and the       *)
(* specification implements SymbolTable.                                   *)
(***************************************************************************)
EXTENDS DarwinLibrary, TLAPS

\* The goroutines past newLibrary, and those with the write lock or waiting for the readers.
HasLibrary(c) == pc[c] \in {"rlock", "look", "lock", "drain", "again", "register", "publish"}
Announced(c) == pc[c] \in {"drain", "again", "register", "publish"}

\* Who holds which lock.
Locks ==
    /\ \A c \in Callers : InCache(c) <=> libCacheMu = c
    /\ \A c \in Callers : Announced(c) => writer[P(c)] = c
    /\ \A c \in Callers : pc[c] = "look" => c \in readers[P(c)]
    /\ \A c \in Callers : Writing(c) => readers[P(c)] = {}

\* A library has been opened once if it is in the cache or about to be stored, else never.
Opened ==
    /\ \A c \in Callers : pc[c] \in {"dlopen", "storeCache"} => P(c) \notin libCache
    /\ \A c \in Callers : HasLibrary(c) => P(c) \in libCache
    /\ \A c \in Callers : pc[c] = "storeCache" => opens[P(c)] = 1
    /\ \A p \in libCache : opens[p] = 1
    /\ \A p \in Paths \ libCache :
          (\A c \in Callers : pc[c] = "storeCache" => P(c) # p) => opens[p] = 0

\* A function has been registered once if it is in the map or about to be put there.
Registered ==
    /\ \A c \in Callers : pc[c] \in {"register", "publish"} => S(c) \notin fnMap[P(c)]
    /\ \A c \in Callers : pc[c] = "publish" => registers[P(c)][S(c)] = 1
    /\ \A p \in Paths : \A s \in fnMap[p] : registers[p][s] = 1
    /\ \A p \in Paths : \A s \in Symbols \ fnMap[p] :
          (\A c \in Callers : pc[c] = "publish" => want[c] # <<p, s>>) => registers[p][s] = 0

Inv == TypeOK /\ Locks /\ Opened /\ Registered

\* What a goroutine that is not idle asks for.
LEMMA WantType ==
    ASSUME TypeOK, NEW c \in Callers, pc[c] # "idle"
    PROVE  /\ P(c) \in Paths /\ S(c) \in Symbols /\ want[c] = <<P(c), S(c)>>
           /\ want[c] \in Paths \X Symbols /\ want[c] # None
  BY DEF TypeOK, P, S

LEMMA InitInv == Init => Inv
  <1> SUFFICES ASSUME Init PROVE Inv
    OBVIOUS
  <1> USE ConstantsAssumption DEF Init
  <1>1. TypeOK
    BY DEF TypeOK, Locations
  <1>2. Locks
    BY DEF Locks, InCache, Announced, Writing
  <1>3. Opened
    BY DEF Opened, HasLibrary
  <1>4. Registered
    BY DEF Registered
  <1>5. QED
    BY <1>1, <1>2, <1>3, <1>4 DEF Inv

LEMMA TypeStep == TypeOK /\ [Next]_vars => TypeOK'
  <1> SUFFICES ASSUME TypeOK, [Next]_vars PROVE TypeOK'
    OBVIOUS
  <1> USE ConstantsAssumption
  <1>1. ASSUME NEW c \in Callers, NEW p \in Paths, NEW s \in Symbols, Call(c, p, s) PROVE TypeOK'
    BY <1>1 DEF TypeOK, Call, Goto, Locations, cacheVars, fnVars
  <1>2. ASSUME NEW c \in Callers, LockCache(c) PROVE TypeOK'
    BY <1>2 DEF TypeOK, LockCache, Goto, Locations, fnVars
  <1>3. ASSUME NEW c \in Callers, LookCache(c) PROVE TypeOK'
    BY <1>3 DEF TypeOK, LookCache, Goto, Locations, fnVars
  <1>4. ASSUME NEW c \in Callers, Dlopen(c) PROVE TypeOK'
    <2>1. P(c) \in Paths
      BY <1>4, WantType DEF Dlopen
    <2>2. CASE Refuse(c) /\ libCacheMu' = NoOne /\ UNCHANGED <<opens, libCache, fnVars>>
      BY <2>2 DEF TypeOK, Refuse, Goto, Locations, fnVars
    <2>3. CASE /\ opens' = [opens EXCEPT ![P(c)] = @ + 1] /\ Goto(c, "storeCache")
               /\ UNCHANGED <<libCache, libCacheMu, want, got, fnVars>>
      BY <1>4, <2>1, <2>3 DEF TypeOK, Dlopen, Goto, Locations, fnVars
    <2>4. QED
      BY <1>4, <2>2, <2>3 DEF Dlopen
  <1>5. ASSUME NEW c \in Callers, StoreCache(c) PROVE TypeOK'
    <2>1. P(c) \in Paths
      BY <1>5, WantType DEF StoreCache
    <2>2. QED
      BY <1>5, <2>1 DEF TypeOK, StoreCache, Goto, Locations, fnVars
  <1>6. ASSUME NEW c \in Callers, RLock(c) PROVE TypeOK'
    BY <1>6 DEF TypeOK, RLock, Goto, Locations, cacheVars
  <1>7. ASSUME NEW c \in Callers, Look(c) PROVE TypeOK'
    <2>1. want[c] \in Paths \X Symbols
      BY <1>7, WantType DEF Look
    <2>2. CASE Give(c)
      BY <1>7, <2>1, <2>2 DEF TypeOK, Look, Give, Goto, Locations, cacheVars
    <2>3. CASE Goto(c, "lock") /\ UNCHANGED <<want, got>>
      BY <1>7, <2>3 DEF TypeOK, Look, Goto, Locations, cacheVars
    <2>4. QED
      BY <1>7, <2>2, <2>3 DEF Look
  <1>8. ASSUME NEW c \in Callers, Lock(c) PROVE TypeOK'
    BY <1>8 DEF TypeOK, Lock, Goto, Locations, cacheVars
  <1>9. ASSUME NEW c \in Callers, Drain(c) PROVE TypeOK'
    BY <1>9 DEF TypeOK, Drain, Goto, Locations, cacheVars, fnVars
  <1>10. ASSUME NEW c \in Callers, LookAgain(c) PROVE TypeOK'
    <2>1. want[c] \in Paths \X Symbols
      BY <1>10, WantType DEF LookAgain
    <2>2. CASE UnlockFn(c) /\ Give(c)
      BY <1>10, <2>1, <2>2 DEF TypeOK, LookAgain, Give, UnlockFn, Goto, Locations, cacheVars
    <2>3. CASE Goto(c, "register") /\ UNCHANGED <<writer, want, got>>
      BY <1>10, <2>3 DEF TypeOK, LookAgain, Goto, Locations, cacheVars
    <2>4. QED
      BY <1>10, <2>2, <2>3 DEF LookAgain
  <1>11. ASSUME NEW c \in Callers, Register(c) PROVE TypeOK'
    <2>1. P(c) \in Paths /\ S(c) \in Symbols
      BY <1>11, WantType DEF Register
    <2>2. CASE UnlockFn(c) /\ Refuse(c) /\ UNCHANGED registers
      BY <1>11, <2>2 DEF TypeOK, Register, Refuse, UnlockFn, Goto, Locations, cacheVars
    <2>3. CASE /\ registers' = [registers EXCEPT ![P(c)][S(c)] = @ + 1]
               /\ Goto(c, "publish") /\ UNCHANGED <<writer, want, got>>
      BY <1>11, <2>1, <2>3 DEF TypeOK, Register, Goto, Locations, cacheVars
    <2>4. QED
      BY <1>11, <2>2, <2>3 DEF Register
  <1>12. ASSUME NEW c \in Callers, Publish(c) PROVE TypeOK'
    <2>1. P(c) \in Paths /\ S(c) \in Symbols /\ want[c] \in Paths \X Symbols
      BY <1>12, WantType DEF Publish
    <2>2. QED
      BY <1>12, <2>1 DEF TypeOK, Publish, Give, UnlockFn, Goto, Locations, cacheVars
  <1>13. CASE UNCHANGED vars
    BY <1>13 DEF TypeOK, vars, cacheVars, fnVars, callVars
  <1>14. QED
    BY <1>1, <1>2, <1>3, <1>4, <1>5, <1>6, <1>7, <1>8, <1>9, <1>10, <1>11, <1>12, <1>13
       DEF Next, Step

\* A step of one goroutine leaves alone where the others are and what they ask for.
OnlyMoves(c) ==
    /\ \A d \in Callers \ {c} :
          pc'[d] = pc[d] /\ want'[d] = want[d] /\ P(d)' = P(d) /\ S(d)' = S(d)
    /\ pc[c] # "idle" /\ pc'[c] # "idle" =>
          want'[c] = want[c] /\ P(c)' = P(c) /\ S(c)' = S(c)

LEMMA OnlyOneMoves ==
    ASSUME TypeOK, NEW c \in Callers,
           Step(c) \/ \E p \in Paths, s \in Symbols : Call(c, p, s)
    PROVE  OnlyMoves(c)
  <1>1. pc \in [Callers -> Locations] /\ want \in [Callers -> (Paths \X Symbols) \cup {None}]
    BY DEF TypeOK
  <1>2. QED
    BY <1>1 DEF Step, Call, LockCache, LookCache, Dlopen, StoreCache, RLock, Look, Lock, Drain,
                LookAgain, Register, Publish, Refuse, Give, Goto, P, S, OnlyMoves

LEMMA LocksStep == Inv /\ [Next]_vars => Locks'
  <1> SUFFICES ASSUME Inv, [Next]_vars PROVE Locks'
    OBVIOUS
  <1>0. /\ TypeOK /\ Locks
        /\ libCacheMu \in Callers \cup {NoOne}
        /\ pc \in [Callers -> Locations] /\ want \in [Callers -> (Paths \X Symbols) \cup {None}]
        /\ writer \in [Paths -> Callers \cup {NoOne}] /\ readers \in [Paths -> SUBSET Callers]
        /\ \A c \in Callers : pc[c] # "idle" => P(c) \in Paths
    BY WantType DEF Inv, TypeOK
  <1> USE <1>0, ConstantsAssumption DEF Locks, InCache, Announced, Writing, Goto
  <1>1. ASSUME NEW c \in Callers, NEW p \in Paths, NEW s \in Symbols, Call(c, p, s) PROVE Locks'
    BY <1>1 DEF Call, P, cacheVars, fnVars
  <1>2. ASSUME NEW c \in Callers, LockCache(c) PROVE Locks'
    <2>1. OnlyMoves(c)
      BY <1>2, OnlyOneMoves DEF Step
    <2>2. QED
      BY <1>2, <2>1 DEF OnlyMoves, LockCache, fnVars
  <1>3. ASSUME NEW c \in Callers, LookCache(c) PROVE Locks'
    <2>1. OnlyMoves(c)
      BY <1>3, OnlyOneMoves DEF Step
    <2>2. QED
      BY <1>3, <2>1 DEF OnlyMoves, LookCache, fnVars
  <1>4. ASSUME NEW c \in Callers, Dlopen(c) PROVE Locks'
    <2>1. OnlyMoves(c)
      BY <1>4, OnlyOneMoves DEF Step
    <2>2. QED
      BY <1>4, <2>1 DEF OnlyMoves, Dlopen, Refuse, fnVars
  <1>5. ASSUME NEW c \in Callers, StoreCache(c) PROVE Locks'
    <2>1. OnlyMoves(c)
      BY <1>5, OnlyOneMoves DEF Step
    <2>2. QED
      BY <1>5, <2>1 DEF OnlyMoves, StoreCache, fnVars
  <1>6. ASSUME NEW c \in Callers, RLock(c) PROVE Locks'
    <2>1. OnlyMoves(c)
      BY <1>6, OnlyOneMoves DEF Step
    <2>2. QED
      BY <1>6, <2>1 DEF OnlyMoves, RLock, cacheVars
  <1>7. ASSUME NEW c \in Callers, Look(c) PROVE Locks'
    <2>1. OnlyMoves(c)
      BY <1>7, OnlyOneMoves DEF Step
    <2>2. QED
      BY <1>7, <2>1 DEF OnlyMoves, Look, Give, cacheVars
  <1>8. ASSUME NEW c \in Callers, Lock(c) PROVE Locks'
    <2>1. OnlyMoves(c)
      BY <1>8, OnlyOneMoves DEF Step
    <2>2. QED
      BY <1>8, <2>1 DEF OnlyMoves, Lock, cacheVars
  <1>9. ASSUME NEW c \in Callers, Drain(c) PROVE Locks'
    <2>1. OnlyMoves(c)
      BY <1>9, OnlyOneMoves DEF Step
    <2>2. QED
      BY <1>9, <2>1 DEF OnlyMoves, Drain, cacheVars, fnVars
  <1>10. ASSUME NEW c \in Callers, LookAgain(c) PROVE Locks'
    <2>1. OnlyMoves(c)
      BY <1>10, OnlyOneMoves DEF Step
    <2>2. QED
      BY <1>10, <2>1 DEF OnlyMoves, LookAgain, Give, UnlockFn, cacheVars
  <1>11. ASSUME NEW c \in Callers, Register(c) PROVE Locks'
    <2>1. OnlyMoves(c)
      BY <1>11, OnlyOneMoves DEF Step
    <2>2. QED
      BY <1>11, <2>1 DEF OnlyMoves, Register, Refuse, UnlockFn, cacheVars
  <1>12. ASSUME NEW c \in Callers, Publish(c) PROVE Locks'
    <2>1. OnlyMoves(c)
      BY <1>12, OnlyOneMoves DEF Step
    <2>2. QED
      BY <1>12, <2>1 DEF OnlyMoves, Publish, Give, UnlockFn, cacheVars
  <1>13. CASE UNCHANGED vars
    BY <1>13 DEF vars, cacheVars, fnVars, callVars, P
  <1>14. QED
    BY <1>1, <1>2, <1>3, <1>4, <1>5, <1>6, <1>7, <1>8, <1>9, <1>10, <1>11, <1>12, <1>13
       DEF Next, Step

LEMMA OpenedStep == Inv /\ [Next]_vars => Opened'
  <1> SUFFICES ASSUME Inv, [Next]_vars PROVE Opened'
    OBVIOUS
  <1>0. /\ TypeOK /\ Locks /\ Opened
        /\ pc \in [Callers -> Locations] /\ opens \in [Paths -> Nat] /\ libCache \subseteq Paths
        /\ \A c \in Callers : pc[c] # "idle" => P(c) \in Paths
    BY WantType DEF Inv, TypeOK
  <1> USE <1>0 DEF Locks, InCache, Opened, HasLibrary, Goto
  <1>1. ASSUME NEW c \in Callers, NEW p \in Paths, NEW s \in Symbols, Call(c, p, s) PROVE Opened'
    <2>1. OnlyMoves(c)
      BY <1>1, OnlyOneMoves
    <2>2. QED
      BY <1>1, <2>1 DEF OnlyMoves, Call, cacheVars, fnVars
  <1>2. ASSUME NEW c \in Callers, LockCache(c) PROVE Opened'
    <2>1. OnlyMoves(c)
      BY <1>2, OnlyOneMoves DEF Step
    <2>2. QED
      BY <1>2, <2>1 DEF OnlyMoves, LockCache, fnVars
  <1>3. ASSUME NEW c \in Callers, LookCache(c) PROVE Opened'
    <2>1. OnlyMoves(c)
      BY <1>3, OnlyOneMoves DEF Step
    <2>2. QED
      BY <1>3, <2>1 DEF OnlyMoves, LookCache, fnVars
  <1>4. ASSUME NEW c \in Callers, Dlopen(c) PROVE Opened'
    <2>1. OnlyMoves(c)
      BY <1>4, OnlyOneMoves DEF Step
    <2>2. QED
      BY <1>4, <2>1 DEF OnlyMoves, Dlopen, Refuse, fnVars
  <1>5. ASSUME NEW c \in Callers, StoreCache(c) PROVE Opened'
    <2>1. OnlyMoves(c)
      BY <1>5, OnlyOneMoves DEF Step
    <2>2. QED
      BY <1>5, <2>1 DEF OnlyMoves, StoreCache, fnVars
  <1>6. ASSUME NEW c \in Callers, RLock(c) PROVE Opened'
    <2>1. OnlyMoves(c)
      BY <1>6, OnlyOneMoves DEF Step
    <2>2. QED
      BY <1>6, <2>1 DEF OnlyMoves, RLock, cacheVars
  <1>7. ASSUME NEW c \in Callers, Look(c) PROVE Opened'
    <2>1. OnlyMoves(c)
      BY <1>7, OnlyOneMoves DEF Step
    <2>2. QED
      BY <1>7, <2>1 DEF OnlyMoves, Look, Give, cacheVars
  <1>8. ASSUME NEW c \in Callers, Lock(c) PROVE Opened'
    <2>1. OnlyMoves(c)
      BY <1>8, OnlyOneMoves DEF Step
    <2>2. QED
      BY <1>8, <2>1 DEF OnlyMoves, Lock, cacheVars
  <1>9. ASSUME NEW c \in Callers, Drain(c) PROVE Opened'
    <2>1. OnlyMoves(c)
      BY <1>9, OnlyOneMoves DEF Step
    <2>2. QED
      BY <1>9, <2>1 DEF OnlyMoves, Drain, cacheVars, fnVars
  <1>10. ASSUME NEW c \in Callers, LookAgain(c) PROVE Opened'
    <2>1. OnlyMoves(c)
      BY <1>10, OnlyOneMoves DEF Step
    <2>2. QED
      BY <1>10, <2>1 DEF OnlyMoves, LookAgain, Give, UnlockFn, cacheVars
  <1>11. ASSUME NEW c \in Callers, Register(c) PROVE Opened'
    <2>1. OnlyMoves(c)
      BY <1>11, OnlyOneMoves DEF Step
    <2>2. QED
      BY <1>11, <2>1 DEF OnlyMoves, Register, Refuse, UnlockFn, cacheVars
  <1>12. ASSUME NEW c \in Callers, Publish(c) PROVE Opened'
    <2>1. OnlyMoves(c)
      BY <1>12, OnlyOneMoves DEF Step
    <2>2. QED
      BY <1>12, <2>1 DEF OnlyMoves, Publish, Give, UnlockFn, cacheVars
  <1>13. CASE UNCHANGED vars
    BY <1>13 DEF vars, cacheVars, fnVars, callVars, P, S
  <1>14. QED
    BY <1>1, <1>2, <1>3, <1>4, <1>5, <1>6, <1>7, <1>8, <1>9, <1>10, <1>11, <1>12, <1>13
       DEF Next, Step

LEMMA RegisteredStep == Inv /\ [Next]_vars => Registered'
  <1> SUFFICES ASSUME Inv, [Next]_vars PROVE Registered'
    OBVIOUS
  <1>0. /\ TypeOK /\ Locks /\ Registered
        /\ pc \in [Callers -> Locations] /\ registers \in [Paths -> [Symbols -> Nat]]
        /\ fnMap \in [Paths -> SUBSET Symbols]
        /\ \A c \in Callers : pc[c] # "idle" =>
              P(c) \in Paths /\ S(c) \in Symbols /\ want[c] = <<P(c), S(c)>>
    BY WantType DEF Inv, TypeOK
  <1> USE <1>0 DEF Locks, Announced, Registered, Goto
  <1> DEFINE Near(c) == pc[c] \in {"register", "publish"}
  <1>a. ASSUME NEW c \in Callers, OnlyMoves(c), UNCHANGED <<fnMap, registers>>, ~Near(c), ~Near(c)'
        PROVE  Registered'
    BY <1>a DEF OnlyMoves
  <1>1. ASSUME NEW c \in Callers, NEW p \in Paths, NEW s \in Symbols, Call(c, p, s) PROVE Registered'
    <2>1. OnlyMoves(c)
      BY <1>1, OnlyOneMoves
    <2>2. QED
      BY <1>1, <2>1 DEF OnlyMoves, Call, cacheVars, fnVars
  <1>2. ASSUME NEW c \in Callers, LockCache(c) PROVE Registered'
    <2>1. OnlyMoves(c)
      BY <1>2, OnlyOneMoves DEF Step
    <2>2. QED
      BY <1>2, <2>1, <1>a DEF LockCache, fnVars
  <1>3. ASSUME NEW c \in Callers, LookCache(c) PROVE Registered'
    <2>1. OnlyMoves(c)
      BY <1>3, OnlyOneMoves DEF Step
    <2>2. QED
      BY <1>3, <2>1, <1>a DEF LookCache, fnVars
  <1>4. ASSUME NEW c \in Callers, Dlopen(c) PROVE Registered'
    <2>1. OnlyMoves(c)
      BY <1>4, OnlyOneMoves DEF Step
    <2>2. QED
      BY <1>4, <2>1, <1>a DEF Dlopen, Refuse, fnVars
  <1>5. ASSUME NEW c \in Callers, StoreCache(c) PROVE Registered'
    <2>1. OnlyMoves(c)
      BY <1>5, OnlyOneMoves DEF Step
    <2>2. QED
      BY <1>5, <2>1, <1>a DEF StoreCache, fnVars
  <1>6. ASSUME NEW c \in Callers, RLock(c) PROVE Registered'
    <2>1. OnlyMoves(c)
      BY <1>6, OnlyOneMoves DEF Step
    <2>2. QED
      BY <1>6, <2>1, <1>a DEF RLock, cacheVars
  <1>7. ASSUME NEW c \in Callers, Look(c) PROVE Registered'
    <2>1. OnlyMoves(c)
      BY <1>7, OnlyOneMoves DEF Step
    <2>2. QED
      BY <1>7, <2>1 DEF OnlyMoves, Look, Give, cacheVars
  <1>8. ASSUME NEW c \in Callers, Lock(c) PROVE Registered'
    <2>1. OnlyMoves(c)
      BY <1>8, OnlyOneMoves DEF Step
    <2>2. QED
      BY <1>8, <2>1 DEF OnlyMoves, Lock, cacheVars
  <1>9. ASSUME NEW c \in Callers, Drain(c) PROVE Registered'
    <2>1. OnlyMoves(c)
      BY <1>9, OnlyOneMoves DEF Step
    <2>2. QED
      BY <1>9, <2>1 DEF OnlyMoves, Drain, cacheVars, fnVars
  <1>10. ASSUME NEW c \in Callers, LookAgain(c) PROVE Registered'
    <2>1. OnlyMoves(c)
      BY <1>10, OnlyOneMoves DEF Step
    <2>2. (\A d \in Callers : Near(d) => S(d) \notin fnMap[P(d)])'
      BY <1>10, <2>1 DEF OnlyMoves, LookAgain, Give, UnlockFn, cacheVars
    <2>3. (\A d \in Callers : pc[d] = "publish" => registers[P(d)][S(d)] = 1)'
      BY <1>10, <2>1 DEF OnlyMoves, LookAgain, Give, UnlockFn, cacheVars
    <2>4. (\A p \in Paths : \A s \in fnMap[p] : registers[p][s] = 1)'
      BY <1>10, <2>1 DEF OnlyMoves, LookAgain, Give, UnlockFn, cacheVars
    <2>5. (\A p \in Paths : \A s \in Symbols \ fnMap[p] :
              (\A d \in Callers : pc[d] = "publish" => want[d] # <<p, s>>) => registers[p][s] = 0)'
      BY <1>10, <2>1 DEF OnlyMoves, LookAgain, Give, UnlockFn, cacheVars
    <2>6. QED
      BY <2>2, <2>3, <2>4, <2>5
  <1>11. ASSUME NEW c \in Callers, Register(c) PROVE Registered'
    <2>1. OnlyMoves(c)
      BY <1>11, OnlyOneMoves DEF Step
    <2>2. (\A d \in Callers : Near(d) => S(d) \notin fnMap[P(d)])'
      BY <1>11, <2>1 DEF OnlyMoves, Register, Refuse, UnlockFn, cacheVars
    <2>3. (\A d \in Callers : pc[d] = "publish" => registers[P(d)][S(d)] = 1)'
      BY <1>11, <2>1 DEF OnlyMoves, Register, Refuse, UnlockFn, cacheVars
    <2>4. (\A p \in Paths : \A s \in fnMap[p] : registers[p][s] = 1)'
      BY <1>11, <2>1 DEF OnlyMoves, Register, Refuse, UnlockFn, cacheVars
    <2>5. (\A p \in Paths : \A s \in Symbols \ fnMap[p] :
              (\A d \in Callers : pc[d] = "publish" => want[d] # <<p, s>>) => registers[p][s] = 0)'
      BY <1>11, <2>1 DEF OnlyMoves, Register, Refuse, UnlockFn, cacheVars
    <2>6. QED
      BY <2>2, <2>3, <2>4, <2>5
  <1>12. ASSUME NEW c \in Callers, Publish(c) PROVE Registered'
    <2>1. OnlyMoves(c)
      BY <1>12, OnlyOneMoves DEF Step
    <2>2. (\A d \in Callers : Near(d) => S(d) \notin fnMap[P(d)])'
      BY <1>12, <2>1 DEF OnlyMoves, Publish, Give, UnlockFn, cacheVars
    <2>3. (\A d \in Callers : pc[d] = "publish" => registers[P(d)][S(d)] = 1)'
      BY <1>12, <2>1 DEF OnlyMoves, Publish, Give, UnlockFn, cacheVars
    <2>4. (\A p \in Paths : \A s \in fnMap[p] : registers[p][s] = 1)'
      BY <1>12, <2>1 DEF OnlyMoves, Publish, Give, UnlockFn, cacheVars
    <2>5. (\A p \in Paths : \A s \in Symbols \ fnMap[p] :
              (\A d \in Callers : pc[d] = "publish" => want[d] # <<p, s>>) => registers[p][s] = 0)'
      BY <1>12, <2>1 DEF OnlyMoves, Publish, Give, UnlockFn, cacheVars
    <2>6. QED
      BY <2>2, <2>3, <2>4, <2>5
  <1>13. CASE UNCHANGED vars
    BY <1>13 DEF vars, cacheVars, fnVars, callVars, P, S
  <1>14. QED
    BY <1>1, <1>2, <1>3, <1>4, <1>5, <1>6, <1>7, <1>8, <1>9, <1>10, <1>11, <1>12, <1>13
       DEF Next, Step

LEMMA Invariance == Spec => []Inv
  <1>1. Inv /\ [Next]_vars => Inv'
    BY TypeStep, LocksStep, OpenedStep, RegisteredStep DEF Inv
  <1>2. QED
    BY <1>1, InitInv, PTL DEF Spec

-----------------------------------------------------------------------------
\* The maps of common_darwin.go and the local variables of the goroutines keep their types.
THEOREM TypeCorrect == Spec => []TypeOK
  <1>1. Inv => TypeOK
    BY DEF Inv
  <1>2. QED
    BY <1>1, Invariance, PTL

\* No two goroutines ever use libCache, or a library's fnMap while it is written.
THEOREM MapsNeverRaced == Spec => []NoMapRace
  <1>1. Inv => NoMapRace
    <2> SUFFICES ASSUME Inv, NEW c \in Callers, NEW d \in Callers, c # d
                 PROVE  /\ ~(InCache(c) /\ InCache(d))
                        /\ Writing(c) /\ (pc[d] = "look" \/ Writing(d)) => P(c) # P(d)
      BY DEF NoMapRace
    <2> QED
      BY DEF Inv, Locks, InCache, Announced, Writing
  <1>2. QED
    BY <1>1, Invariance, PTL

\* No library is opened and no function registered more than once.
THEOREM NothingTwice == Spec => []OnceOnly
  <1>1. Inv => OnceOnly
    <2> SUFFICES ASSUME Inv PROVE OnceOnly
      OBVIOUS
    <2>1. ASSUME NEW p \in Paths PROVE opens[p] <= 1
      BY DEF Inv, Opened
    <2>2. ASSUME NEW p \in Paths, NEW s \in Symbols PROVE registers[p][s] <= 1
      <3>1. CASE \E c \in Callers : pc[c] = "publish" /\ want[c] = <<p, s>>
        BY <3>1 DEF Inv, Registered, P, S
      <3>2. CASE \A c \in Callers : pc[c] = "publish" => want[c] # <<p, s>>
        BY <3>2 DEF Inv, Registered
      <3>3. QED
        BY <3>1, <3>2
    <2>3. QED
      BY <2>1, <2>2 DEF OnceOnly
  <1>2. QED
    BY <1>1, Invariance, PTL

-----------------------------------------------------------------------------
(* The refinement: every step is a step of SymbolTable or leaves its state alone. *)

IsOpen == {p \in Paths : opens[p] > 0}
IsResolved == {f \in Paths \X Symbols : registers[f[1]][f[2]] > 0}

\* The mapping makes these the state of the table.
LEMMA TableVars ==
    (UNCHANGED <<IsOpen, IsResolved, want, got>>) => UNCHANGED Table!vars
  BY DEF Table!vars, IsOpen, IsResolved

LEMMA TableStep == Inv /\ [Next]_vars => [Table!Next]_(Table!vars)
  <1> SUFFICES ASSUME Inv, [Next]_vars PROVE Table!Next \/ UNCHANGED Table!vars
    OBVIOUS
  <1>0. /\ TypeOK
        /\ opens \in [Paths -> Nat] /\ registers \in [Paths -> [Symbols -> Nat]]
        /\ want \in [Callers -> (Paths \X Symbols) \cup {None}]
        /\ \A c \in Callers : pc[c] # "idle" =>
              /\ P(c) \in Paths /\ S(c) \in Symbols /\ want[c] = <<P(c), S(c)>>
              /\ want[c] # None
    BY WantType DEF Inv, TypeOK
  <1>s. ASSUME UNCHANGED <<opens, registers, want, got>> PROVE UNCHANGED Table!vars
    BY <1>s, TableVars DEF IsOpen, IsResolved
  \* A function in the map of an open library is resolved.
  <1>g. ASSUME NEW c \in Callers, pc[c] # "idle", registers[P(c)][S(c)] = 1, Give(c),
               UNCHANGED <<opens, registers>>
        PROVE  Table!Next
    <2>1. want[c] \in IsResolved
      BY <1>0, <1>g DEF IsResolved
    <2>2. UNCHANGED <<IsOpen, IsResolved>>
      BY <1>g DEF IsOpen, IsResolved
    <2>3. Table!Give(c)
      BY <1>g, <2>1, <2>2 DEF Table!Give, Give, IsOpen, IsResolved
    <2>4. QED
      BY <2>3 DEF Table!Next
  <1>r. ASSUME NEW c \in Callers, pc[c] # "idle", Refuse(c), UNCHANGED <<opens, registers>>
        PROVE  Table!Next
    <2>1. UNCHANGED <<IsOpen, IsResolved>>
      BY <1>r DEF IsOpen, IsResolved
    <2>2. Table!Refuse(c)
      BY <1>0, <1>r, <2>1 DEF Table!Refuse, Refuse, IsOpen, IsResolved
    <2>3. QED
      BY <2>2 DEF Table!Next
  <1>1. ASSUME NEW c \in Callers, NEW p \in Paths, NEW s \in Symbols, Call(c, p, s)
        PROVE  Table!Next
    <2>1. UNCHANGED <<IsOpen, IsResolved>>
      BY <1>1 DEF Call, cacheVars, fnVars, IsOpen, IsResolved
    <2>2. want[c] = None
      BY <1>0, <1>1 DEF Call, TypeOK
    <2>3. Table!Ask(c, <<p, s>>)
      BY <1>1, <2>1, <2>2 DEF Table!Ask, Call, IsOpen, IsResolved
    <2>4. <<p, s>> \in Table!Functions
      BY DEF Table!Functions
    <2>5. QED
      BY <2>3, <2>4 DEF Table!Next
  <1>2. ASSUME NEW c \in Callers,
               \/ LockCache(c) \/ LookCache(c) \/ StoreCache(c) \/ RLock(c) \/ Lock(c) \/ Drain(c)
        PROVE  UNCHANGED Table!vars
    BY <1>2, <1>s DEF LockCache, LookCache, StoreCache, RLock, Lock, Drain, cacheVars, fnVars
  <1>3. ASSUME NEW c \in Callers, Dlopen(c) PROVE Table!Next
    <2>0. pc[c] = "dlopen" /\ pc[c] # "idle"
      BY <1>3 DEF Dlopen
    <2>1. CASE /\ opens' = [opens EXCEPT ![P(c)] = @ + 1]
               /\ UNCHANGED <<registers, want, got>>
      <3>1. \A d \in Callers : pc[d] = "storeCache" => P(d) # P(c)
        BY <2>0 DEF Inv, Locks, InCache
      <3>2. opens[P(c)] = 0
        BY <1>0, <2>0, <3>1 DEF Inv, Opened
      <3>3. IsOpen' = IsOpen \cup {P(c)} /\ P(c) \notin IsOpen
        BY <1>0, <2>0, <2>1, <3>2 DEF IsOpen
      <3>4. IsResolved' = IsResolved
        BY <2>1 DEF IsResolved
      <3>5. Table!Open(c)
        BY <1>0, <2>0, <2>1, <3>3, <3>4 DEF Table!Open, IsOpen, IsResolved
      <3>6. QED
        BY <3>5 DEF Table!Next
    <2>2. CASE Refuse(c) /\ UNCHANGED <<opens, registers>>
      BY <1>r, <2>0, <2>2
    <2>3. QED
      BY <1>3, <2>1, <2>2 DEF Dlopen, fnVars
  <1>4. ASSUME NEW c \in Callers, Look(c) \/ LookAgain(c) PROVE Table!Next \/ UNCHANGED Table!vars
    <2>0. pc[c] # "idle" /\ UNCHANGED <<opens, registers>>
      BY <1>4 DEF Look, LookAgain, cacheVars
    <2>1. CASE S(c) \in fnMap[P(c)] /\ Give(c)
      <3>1. registers[P(c)][S(c)] = 1
        BY <1>0, <2>0, <2>1 DEF Inv, Registered
      <3>2. QED
        BY <1>g, <2>0, <2>1, <3>1
    <2>2. CASE UNCHANGED <<want, got>>
      BY <1>s, <2>0, <2>2
    <2>3. QED
      BY <1>4, <2>1, <2>2 DEF Look, LookAgain
  <1>5. ASSUME NEW c \in Callers, Register(c) PROVE Table!Next
    <2>0. pc[c] = "register" /\ pc[c] # "idle" /\ UNCHANGED opens
      BY <1>5 DEF Register, cacheVars
    <2>1. CASE /\ registers' = [registers EXCEPT ![P(c)][S(c)] = @ + 1]
               /\ UNCHANGED <<want, got>>
      <3>1. ASSUME NEW d \in Callers, pc[d] = "publish" PROVE want[d] # <<P(c), S(c)>>
        BY <2>0, <3>1 DEF Inv, Locks, Announced, P
      <3>2. registers[P(c)][S(c)] = 0
        BY <1>0, <2>0, <3>1 DEF Inv, Registered
      <3>3. IsResolved' = IsResolved \cup {want[c]} /\ want[c] \notin IsResolved
        BY <1>0, <2>0, <2>1, <3>2 DEF IsResolved
      <3>4. P(c) \in IsOpen
        BY <1>0, <2>0 DEF Inv, Opened, HasLibrary, IsOpen
      <3>5. IsOpen' = IsOpen
        BY <2>0 DEF IsOpen
      <3>6. Table!Resolve(c)
        BY <1>0, <2>0, <2>1, <3>3, <3>4, <3>5 DEF Table!Resolve, IsOpen, IsResolved, P
      <3>7. QED
        BY <3>6 DEF Table!Next
    <2>2. CASE Refuse(c) /\ UNCHANGED <<opens, registers>>
      BY <1>r, <2>0, <2>2
    <2>3. QED
      BY <1>5, <2>0, <2>1, <2>2 DEF Register
  <1>6. ASSUME NEW c \in Callers, Publish(c) PROVE Table!Next
    <2>1. pc[c] = "publish" /\ pc[c] # "idle" /\ Give(c) /\ UNCHANGED <<opens, registers>>
      BY <1>6 DEF Publish, cacheVars
    <2>2. registers[P(c)][S(c)] = 1
      BY <2>1 DEF Inv, Registered
    <2>3. QED
      BY <1>g, <2>1, <2>2
  <1>7. CASE UNCHANGED vars
    BY <1>7, <1>s DEF vars, cacheVars, fnVars, callVars
  <1>8. QED
    BY <1>1, <1>2, <1>3, <1>4, <1>5, <1>6, <1>7 DEF Next, Step

\* newLibrary and getFunc implement the table of symbols: whatever the interleaving, a
\* goroutine is only given the function it asked for, resolved in a library that is open.
THEOREM ImplementsTable == Spec => Implements
  <1>1. Init => Table!Init
    BY DEF Init, Table!Init
  <1>2. QED
    BY <1>1, Invariance, TableStep, PTL DEF Spec, Implements, Table!Spec
=============================================================================
