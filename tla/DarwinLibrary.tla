---------------------------- MODULE DarwinLibrary ----------------------------
(***************************************************************************)
(* The dynamic libraries of macOS (internal/common/common_darwin.go):      *)
(* newLibrary opens a library under a mutex and keeps it in libCache for   *)
(* ever; getFunc resolves a function with double-checked locking on the    *)
(* library's RWMutex and keeps it in fnMap.  Goroutines ask for functions  *)
(* of libraries; opening may fail, and RegisterLibFunc panics when there   *)
(* is no such symbol.  Every access to a map is a step of its own.         *)
(***************************************************************************)
EXTENDS Naturals, FiniteSets

CONSTANTS Callers,   \* goroutines
          Paths,     \* paths of libraries
          Symbols,   \* names of functions
          NoOne, None

ASSUME ConstantsAssumption == NoOne \notin Callers /\ None \notin Paths \X Symbols

VARIABLES
    libCache,    \* the paths that have a library in libCache
    libCacheMu,  \* owner of the mutex
    fnMap,       \* the symbols in each library's fnMap
    writer,      \* each library's mu: who holds or waits for Lock
    readers,     \* each library's mu: who holds RLock
    pc,          \* where each goroutine stands
    want,        \* the library and the function it asks for, or None
    got,         \* what its last request gave it: at most one function
    opens,       \* ghost: successful calls of Dlopen
    registers    \* ghost: successful calls of RegisterLibFunc

cacheVars == <<libCache, libCacheMu, opens>>
fnVars    == <<fnMap, writer, readers, registers>>
callVars  == <<pc, want, got>>
vars == <<cacheVars, fnVars, callVars>>

Goto(c, l) == pc' = [pc EXCEPT ![c] = l]
P(c) == want[c][1]   \* the path a goroutine asks for
S(c) == want[c][2]   \* the symbol

-----------------------------------------------------------------------------
(* newLibrary *)

Call(c, p, s) ==
    /\ pc[c] = "idle"
    /\ want' = [want EXCEPT ![c] = <<p, s>>]
    /\ got' = [got EXCEPT ![c] = {}]
    /\ Goto(c, "lockCache")
    /\ UNCHANGED <<cacheVars, fnVars>>

LockCache(c) ==
    /\ pc[c] = "lockCache" /\ libCacheMu = NoOne
    /\ libCacheMu' = c
    /\ Goto(c, "lookCache")
    /\ UNCHANGED <<libCache, opens, fnVars, want, got>>

\* A library that is there is returned; the deferred Unlock runs.
LookCache(c) ==
    /\ pc[c] = "lookCache"
    /\ \/ P(c) \in libCache /\ libCacheMu' = NoOne /\ Goto(c, "rlock")
       \/ P(c) \notin libCache /\ Goto(c, "dlopen") /\ UNCHANGED libCacheMu
    /\ UNCHANGED <<libCache, opens, fnVars, want, got>>

\* The request is over and gave nothing: an error, or a panic.
Refuse(c) ==
    /\ Goto(c, "idle")
    /\ want' = [want EXCEPT ![c] = None]
    /\ UNCHANGED got

\* Mutant: Unlock is not deferred and the error return forgets it.
DlopenKeepsLock(c) ==
    /\ pc[c] = "dlopen"
    /\ \/ /\ opens' = [opens EXCEPT ![P(c)] = @ + 1]
          /\ Goto(c, "storeCache")
          /\ UNCHANGED <<want, got>>
       \/ Refuse(c) /\ UNCHANGED opens
    /\ UNCHANGED <<libCache, libCacheMu, fnVars>>

\* Dlopen, still under the mutex; an error is not remembered.
Dlopen(c) ==
    /\ pc[c] = "dlopen"
    /\ \/ /\ opens' = [opens EXCEPT ![P(c)] = @ + 1]
          /\ Goto(c, "storeCache")
          /\ UNCHANGED <<libCacheMu, want, got>>
       \/ /\ libCacheMu' = NoOne
          /\ Refuse(c)
          /\ UNCHANGED opens
    /\ UNCHANGED <<libCache, fnVars>>

StoreCache(c) ==
    /\ pc[c] = "storeCache"
    /\ libCache' = libCache \cup {P(c)}
    /\ libCacheMu' = NoOne
    /\ Goto(c, "rlock")
    /\ UNCHANGED <<opens, fnVars, want, got>>

-----------------------------------------------------------------------------
(* getFunc *)

RLock(c) ==
    /\ pc[c] = "rlock" /\ writer[P(c)] = NoOne
    /\ readers' = [readers EXCEPT ![P(c)] = @ \cup {c}]
    /\ Goto(c, "look")
    /\ UNCHANGED <<cacheVars, fnMap, writer, registers, want, got>>

\* The function that was asked for is returned.
Give(c) ==
    /\ Goto(c, "idle")
    /\ got' = [got EXCEPT ![c] = {want[c]}]
    /\ want' = [want EXCEPT ![c] = None]

\* The fast path; RUnlock in either case.
Look(c) ==
    /\ pc[c] = "look"
    /\ readers' = [readers EXCEPT ![P(c)] = @ \ {c}]
    /\ \/ S(c) \in fnMap[P(c)] /\ Give(c)
       \/ S(c) \notin fnMap[P(c)] /\ Goto(c, "lock") /\ UNCHANGED <<want, got>>
    /\ UNCHANGED <<cacheVars, fnMap, writer, registers>>

\* Lock keeps out new readers, then waits for the old ones.
Lock(c) ==
    /\ pc[c] = "lock" /\ writer[P(c)] = NoOne
    /\ writer' = [writer EXCEPT ![P(c)] = c]
    /\ Goto(c, "drain")
    /\ UNCHANGED <<cacheVars, fnMap, readers, registers, want, got>>

\* Mutant: the readers are not waited for.
DrainNot(c) ==
    /\ pc[c] = "drain"
    /\ Goto(c, "again")
    /\ UNCHANGED <<cacheVars, fnVars, want, got>>

Drain(c) ==
    /\ pc[c] = "drain" /\ readers[P(c)] = {}
    /\ Goto(c, "again")
    /\ UNCHANGED <<cacheVars, fnVars, want, got>>

UnlockFn(c) == writer' = [writer EXCEPT ![P(c)] = NoOne]

\* Mutant: no second look under the write lock.
LookAgainNot(c) ==
    /\ pc[c] = "again"
    /\ Goto(c, "register")
    /\ UNCHANGED <<cacheVars, fnVars, want, got>>

LookAgain(c) ==
    /\ pc[c] = "again"
    /\ \/ S(c) \in fnMap[P(c)] /\ UnlockFn(c) /\ Give(c)
       \/ S(c) \notin fnMap[P(c)] /\ Goto(c, "register") /\ UNCHANGED <<writer, want, got>>
    /\ UNCHANGED <<cacheVars, fnMap, readers, registers>>

\* dlfun.init: RegisterLibFunc binds the function, or panics; the deferred Unlock runs in a
\* panic too.
Register(c) ==
    /\ pc[c] = "register"
    /\ \/ /\ registers' = [registers EXCEPT ![P(c)][S(c)] = @ + 1]
          /\ Goto(c, "publish")
          /\ UNCHANGED <<writer, want, got>>
       \/ UnlockFn(c) /\ Refuse(c) /\ UNCHANGED registers
    /\ UNCHANGED <<cacheVars, fnMap, readers>>

\* Mutant: one map of functions for all libraries.
PublishEverywhere(c) ==
    /\ pc[c] = "publish"
    /\ fnMap' = [p \in Paths |-> fnMap[p] \cup {S(c)}]
    /\ UnlockFn(c)
    /\ Give(c)
    /\ UNCHANGED <<cacheVars, readers, registers>>

Publish(c) ==
    /\ pc[c] = "publish"
    /\ fnMap' = [fnMap EXCEPT ![P(c)] = @ \cup {S(c)}]
    /\ UnlockFn(c)
    /\ Give(c)
    /\ UNCHANGED <<cacheVars, readers, registers>>

-----------------------------------------------------------------------------
Init ==
    /\ libCache = {} /\ libCacheMu = NoOne
    /\ fnMap = [p \in Paths |-> {}]
    /\ writer = [p \in Paths |-> NoOne]
    /\ readers = [p \in Paths |-> {}]
    /\ pc = [c \in Callers |-> "idle"]
    /\ want = [c \in Callers |-> None]
    /\ got = [c \in Callers |-> {}]
    /\ opens = [p \in Paths |-> 0]
    /\ registers = [p \in Paths |-> [s \in Symbols |-> 0]]

Step(c) ==
    \/ LockCache(c) \/ LookCache(c) \/ Dlopen(c) \/ StoreCache(c)
    \/ RLock(c) \/ Look(c) \/ Lock(c) \/ Drain(c) \/ LookAgain(c) \/ Register(c) \/ Publish(c)

Next == \E c \in Callers : Step(c) \/ \E p \in Paths, s \in Symbols : Call(c, p, s)

\* Goroutines run.  sync.Mutex hands itself over to one that has waited long, and an RWMutex
\* lets in the waiting readers when a writer leaves: nobody who gets a chance again and again
\* is passed over for ever.
Spec == Init /\ [][Next]_vars /\ \A c \in Callers : SF_vars(Step(c))

-----------------------------------------------------------------------------
(* Properties *)

Locations == {"idle", "lockCache", "lookCache", "dlopen", "storeCache", "rlock", "look", "lock",
              "drain", "again", "register", "publish"}

\* Every variable has its type, and a goroutine asks for something unless it is idle.
TypeOK ==
    /\ libCache \subseteq Paths /\ libCacheMu \in Callers \cup {NoOne}
    /\ fnMap \in [Paths -> SUBSET Symbols]
    /\ writer \in [Paths -> Callers \cup {NoOne}]
    /\ readers \in [Paths -> SUBSET Callers]
    /\ pc \in [Callers -> Locations]
    /\ want \in [Callers -> (Paths \X Symbols) \cup {None}]
    /\ \A c \in Callers : pc[c] = "idle" <=> want[c] = None
    /\ got \in [Callers -> SUBSET (Paths \X Symbols)]
    /\ opens \in [Paths -> Nat]
    /\ registers \in [Paths -> [Symbols -> Nat]]

InCache(c) == pc[c] \in {"lookCache", "dlopen", "storeCache"}
Writing(c) == pc[c] \in {"again", "register", "publish"}

\* A Go map that is written while another goroutine uses it ends the program.  libCache is
\* used by one goroutine at a time, and while one writes a library's fnMap no other reads or
\* writes it: getFunc's locks are taken and released on every path, panics included.
NoMapRace ==
    \A c, d \in Callers : c # d =>
        /\ ~(InCache(c) /\ InCache(d))
        /\ Writing(c) /\ (pc[d] = "look" \/ Writing(d)) => P(c) # P(d)

\* "Library handles are opened once and shared for the process lifetime", and resolving a
\* symbol "is not repeated": no interleaving of first calls opens a library or registers a
\* function twice.
OnceOnly ==
    \A p \in Paths : opens[p] <= 1 /\ \A s \in Symbols : registers[p][s] <= 1

\* Every request ends, with a function or without.
EveryCallReturns == \A c \in Callers : pc[c] # "idle" ~> pc[c] = "idle"

\* The promise: a library counts as open from Dlopen on, a symbol as resolved from
\* RegisterLibFunc on.
Table == INSTANCE SymbolTable WITH
             opened   <- {p \in Paths : opens[p] > 0},
             resolved <- {f \in Paths \X Symbols : registers[f[1]][f[2]] > 0},
             asked    <- want,
             given    <- got

\* Whatever the goroutines do, what they see is the promise: each is only given the
\* function it asked for, after it was resolved in a library that is open.
Implements == Table!Spec
=============================================================================
