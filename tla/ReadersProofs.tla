--------------------------- MODULE ReadersProofs ---------------------------
(***************************************************************************)
(* The flow analysis of ReaderFlow is sound: whatever the kernel does and  *)
(* whatever the items are, a call is at every moment at a point that the   *)
(* analysis of its program has found, and what the point says is true of   *)
(* the call.  So what holds at every point of a program holds of all its   *)
(* executions.                                                             *)
(***************************************************************************)
EXTENDS ReaderFlow, MemoryFigures, FiniteSetTheorems, TLAPS

-----------------------------------------------------------------------------
(* What a point says *)

\* The processes that the tags S stand for when m says which each one found.
Denote(m, S) == {m[t] : t \in S}

Shape(p) ==
    /\ p.at = ip /\ p.result = result
    /\ DOMAIN p.held = DOMAIN held /\ p.deferred = deferred
    /\ ~p.rest => todo = {}
    /\ ~p.gone => cause # "vanished"

Accounts(p) == reader \notin Partial /\ ~p.owed => stayed \subseteq todo \cup kept \cup excused

Denotes(m, p) ==
    /\ m \in [Nat -> Incarnations]
    /\ taken = Denote(m, p.taken)
    /\ \A h \in DOMAIN held : held[h] = Denote(m, p.held[h])

Names(p) == reader \notin Mixing => \E m : Denotes(m, p)

Represents(p) == Shape(p) /\ (Orderly => Accounts(p) /\ Names(p))

Simulated == result # Idle => \E p \in Flow[reader] : Represents(p)

\* No step puts an item aside without accounting for it.
Covered == Orderly /\ reader \notin Partial => stayed \subseteq todo \cup item \cup kept \cup excused

\* A process that is held is the one that has the pid.
PinnedRight ==
    Orderly /\ reader \notin Mixing /\ "process" \in DOMAIN held => held["process"] \subseteq {inc}

Typed ==
    /\ reader \in DOMAIN Programs /\ code = Programs[reader]
    /\ held \in [DOMAIN held -> SUBSET Incarnations]
    /\ taken \subseteq Incarnations
    /\ todo \subseteq Items /\ kept \subseteq Items /\ excused \subseteq Items
    /\ item = {} \/ \E i \in Items : item = {i}
    /\ cause \in {"none", "refused", "vanished", "exited"}
    /\ inc \in Incarnations /\ alive \in BOOLEAN
    /\ stayed \subseteq present /\ present \subseteq Items

Unused == result = Idle => ip = 1 /\ held = Nothing /\ deferred = {}

IInv == Typed /\ Unused /\ Covered /\ PinnedRight /\ Simulated

-----------------------------------------------------------------------------
(* Facts about the operators *)

LEMMA WithType ==
    ASSUME NEW T, NEW f, f \in [DOMAIN f -> T], NEW x, NEW v \in T
    PROVE  With(f, x, v) \in [DOMAIN With(f, x, v) -> T]
BY DEF With

LEMMA WithoutType ==
    ASSUME NEW T, NEW f, f \in [DOMAIN f -> T], NEW S
    PROVE  Without(f, S) \in [DOMAIN Without(f, S) -> T]
BY DEF Without

LEMMA DenoteUnion ==
    ASSUME NEW m, NEW S, NEW T
    PROVE  Denote(m, S \cup T) = Denote(m, S) \cup Denote(m, T)
BY DEF Denote

\* A tag that is not in use may be given a meaning.
LEMMA DenoteFresh ==
    ASSUME NEW m \in [Nat -> Incarnations], NEW t \in Nat, NEW v \in Incarnations,
           NEW S \in SUBSET Nat, t \notin S
    PROVE  Denote([m EXCEPT ![t] = v], S) = Denote(m, S)
BY DEF Denote

-----------------------------------------------------------------------------
(* The point a call is at *)

LEMMA Readable ==
    /\ 1 \in Nat /\ 1 \in Incarnations
    /\ Busy # Idle /\ Ok # Idle /\ Error # Idle /\ Busy # Ok /\ Busy # Error
BY ReadersAssumption DEF Incarnations, Busy, Idle, Ok, Error

LEMMA FlowFacts ==
    ASSUME NEW r \in DOMAIN Programs
    PROVE  /\ DOMAIN Programs[r] \subseteq Nat
           /\ Start \in Flow[r]
           /\ \A p \in Flow[r] :
                /\ IsPoint(Programs[r], p)
                /\ p.result = Busy => After(Programs[r], p) \subseteq Flow[r]
BY FlowAssumption DEF Covers

\* What the discipline says of the point of an orderly reader.
LEMMA OrderlyPoint ==
    ASSUME Orderly, NEW p \in Flow[reader]
    PROVE  reader \in DOMAIN Programs /\ InOrder(reader, Programs[reader], p)
BY DEF Orderly, OrderlyReaders

\* p is the point of a call that is going on.
AtPoint(p) ==
    /\ p \in Flow[reader] /\ Represents(p) /\ IsPoint(code, p)
    /\ p.at = ip /\ ip \in DOMAIN code /\ ip \in Nat
    /\ p.result = Busy /\ After(code, p) \subseteq Flow[reader]
    /\ Orderly => InOrder(reader, code, p)

LEMMA PointOf ==
    ASSUME IInv, result = Busy
    PROVE  \E p : AtPoint(p)
<1>1. PICK p \in Flow[reader] : Represents(p)
  BY Readable DEF IInv, Simulated
<1>2. IsPoint(code, p) /\ (p.result = Busy => After(code, p) \subseteq Flow[reader]) /\ DOMAIN code \subseteq Nat
  BY FlowFacts DEF IInv, Typed
<1>3. p.result = Busy /\ p.at = ip
  BY <1>1 DEF Represents, Shape
<1>4. Orderly => InOrder(reader, code, p)
  BY OrderlyPoint DEF IInv, Typed
<1>5. p.at \in DOMAIN code
  BY <1>2 DEF IsPoint
<1> QED BY <1>1, <1>2, <1>3, <1>4, <1>5 DEF AtPoint

\* The tags that the analysis finds at a step stand for the process the step
\* gets at, once the tag of the step itself stands for what it looks up.
LEMMA Lookup ==
    ASSUME Typed, PinnedRight, Orderly, reader \notin Mixing,
           NEW p, IsPoint(code, p), Shape(p), ip \in Nat, NEW m, Denotes(m, p), NEW on
    PROVE  \E n \in [Nat -> Incarnations] :
              /\ Owner(on) = Denote(n, Tags(p, on))
              /\ \/ n = m
                 \/ /\ on \notin DOMAIN p.held /\ Tags(p, on) = {p.at}
                    /\ n = [m EXCEPT ![p.at] = inc]
<1> m \in [Nat -> Incarnations] /\ DOMAIN p.held = DOMAIN held /\ p.at = ip /\ inc \in Incarnations
  BY DEF Denotes, Shape, Typed
<1>1. CASE on \in DOMAIN held
  BY <1>1 DEF Owner, Tags, Denotes
<1>2. CASE on \notin DOMAIN held /\ on \notin {"pid", "part"}
  BY <1>2 DEF Owner, Tags, Denote
<1>3. CASE on \notin DOMAIN held /\ on \in {"pid", "part"} /\ Pinned(p)
  <2>1. "process" \in DOMAIN held /\ p.held["process"] # {} /\ held["process"] = Denote(m, p.held["process"])
    BY <1>3 DEF Pinned, Denotes
  <2>2. held["process"] # {}
    BY <2>1 DEF Denote
  <2>3. held["process"] = {inc}
    BY <2>1, <2>2 DEF PinnedRight
  <2> QED BY <1>3, <2>1, <2>3 DEF Owner, Tags
<1>4. CASE on \notin DOMAIN held /\ on \in {"pid", "part"} /\ ~Pinned(p)
  <2> DEFINE n == [m EXCEPT ![p.at] = inc]
  <2>1. Owner(on) = {inc} /\ Tags(p, on) = {p.at}
    BY <1>4 DEF Owner, Tags
  <2>2. n \in [Nat -> Incarnations] /\ Denote(n, {p.at}) = {inc}
    BY DEF Denote
  <2> HIDE DEF n
  <2>3. n = [m EXCEPT ![p.at] = inc]
    BY DEF n
  <2> QED BY <1>4, <2>1, <2>2, <2>3
<1> QED BY <1>1, <1>2, <1>3, <1>4

\* What a step finds is among the processes of the call.
LEMMA OwnerType ==
    ASSUME Typed, NEW on
    PROVE  Owner(on) \subseteq Incarnations
BY DEF Typed, Owner

-----------------------------------------------------------------------------
(* The steps of a reader *)

\* A step that arrives at a point of the analysis.
LEMMA Arrive ==
    ASSUME NEW p, AtPoint(p), reader' = reader, NEW q \in After(code, p), Represents(q)'
    PROVE  Simulated'
BY DEF Simulated, AtPoint

\* A step that reads nothing and opens nothing.
LEMMA NamesKept ==
    ASSUME NEW p, NEW q, Names(p), reader' = reader, taken' = taken, q.taken = p.taken,
           DOMAIN held' \subseteq DOMAIN held,
           \A h \in DOMAIN held' : held'[h] = held[h] /\ q.held[h] = p.held[h]
    PROVE  Names(q)'
BY DEF Names, Denotes

LEMMA OpenHandleKeeps ==
    ASSUME IInv, OpenHandle
    PROVE  IInv'
<1> USE DEF IInv
<1> result = Busy /\ At.op \in {"open", "openBare"}
  BY DEF OpenHandle, Does
<1>1. PICK p : AtPoint(p)
  BY PointOf
<1>2. Shape(p) /\ p.at = ip
  BY <1>1 DEF AtPoint, Represents
<1>3. PICK s : s = At
  OBVIOUS
<1> DEFINE Fields(z) ==
      /\ z.at = p.at + 1 /\ z.result = p.result
      /\ z.held = With(p.held, s.on, Tags(p, s.via))
      /\ z.deferred = IF s.op = "open" THEN p.deferred \cup {s.on} ELSE p.deferred
      /\ z.taken = p.taken /\ z.rest = p.rest /\ z.owed = p.owed /\ z.gone = p.gone
<1>4. PICK q \in After(code, p) : Fields(q)
  <2> DEFINE z == [Forward(p) EXCEPT
                     !.held = With(p.held, s.on, Tags(p, s.via)),
                     !.deferred = IF s.op = "open" THEN p.deferred \cup {s.on} ELSE p.deferred]
  <2>1. z \in After(code, p)
    BY <1>2, <1>3 DEF After, AfterOpen, At
  <2>2. Fields(z)
    BY <1>1 DEF AtPoint, IsPoint, Forward
  <2> HIDE DEF z
  <2> QED BY <2>1, <2>2
<1>5. /\ UNCHANGED <<reader, code, taken, todo, item, kept, excused, cause, result,
                     inc, alive, present, stayed>>
      /\ ip' = ip + 1
      /\ held' = With(held, s.on, Owner(s.via))
      /\ deferred' = IF s.op = "open" THEN deferred \cup {s.on} ELSE deferred
  BY <1>3 DEF OpenHandle, kernel
<1>6. Shape(q)'
  BY <1>2, <1>4, <1>5 DEF Shape, With
<1>7. Accounts(p) => Accounts(q)'
  BY <1>4, <1>5 DEF Accounts
<1>8. ASSUME Orderly, Names(p) PROVE Names(q)'
  <2> SUFFICES ASSUME reader \notin Mixing PROVE \E m : Denotes(m, q)'
    BY <1>5 DEF Names
  <2>1. PICK m : Denotes(m, p)
    BY <1>8 DEF Names
  <2>2. PICK n \in [Nat -> Incarnations] :
          /\ Owner(s.via) = Denote(n, Tags(p, s.via))
          /\ \/ n = m
             \/ /\ s.via \notin DOMAIN p.held /\ Tags(p, s.via) = {p.at}
                /\ n = [m EXCEPT ![p.at] = inc]
    BY <1>1, <1>2, <1>8, <2>1, Lookup DEF AtPoint
  <2>3. p.at \in Tags(p, s.via) =>
          p.at \notin p.taken /\ \A h \in DOMAIN p.held \ {s.on} : p.at \notin p.held[h]
    BY <1>1, <1>2, <1>3, <1>8 DEF AtPoint, InOrder, LookupAt, Got, Opens, At
  <2>4. m \in [Nat -> Incarnations] /\ inc \in Incarnations /\ p.at \in Nat
    BY <1>1, <2>1 DEF AtPoint, Denotes, Typed
  <2>5. p.taken \in SUBSET Nat /\ p.held \in [DOMAIN p.held -> SUBSET Nat] /\ DOMAIN p.held = DOMAIN held
    BY <1>1, <1>2 DEF AtPoint, IsPoint, Shape
  <2>6. Denote(n, p.taken) = Denote(m, p.taken)
    BY <2>2, <2>3, <2>4, <2>5, DenoteFresh
  <2>7. \A h \in DOMAIN held \ {s.on} : Denote(n, p.held[h]) = Denote(m, p.held[h])
    BY <2>2, <2>3, <2>4, <2>5, DenoteFresh
  <2>8. taken' = Denote(n, q.taken)
    BY <1>4, <1>5, <2>1, <2>6 DEF Denotes
  <2>9. \A h \in DOMAIN held' : held'[h] = Denote(n, q.held[h])
    <3> TAKE h \in DOMAIN held'
    <3>1. CASE h = s.on
      BY <3>1, <1>4, <1>5, <2>2 DEF With
    <3>2. CASE h # s.on
      <4>1. h \in DOMAIN held \ {s.on} /\ held'[h] = held[h] /\ q.held[h] = p.held[h]
        BY <3>2, <1>4, <1>5, <2>5 DEF With
      <4> QED BY <4>1, <2>1, <2>7 DEF Denotes
    <3> QED BY <3>1, <3>2
  <2> QED BY <2>2, <2>8, <2>9 DEF Denotes
<1>9. Represents(q)'
  BY <1>1, <1>5, <1>6, <1>7, <1>8 DEF AtPoint, Represents, Orderly
<1>10. Simulated'
  BY <1>1, <1>4, <1>5, <1>9, Arrive
<1>11. Typed'
  <2>1. Owner(s.via) \in SUBSET Incarnations
    BY OwnerType
  <2>2. held' \in [DOMAIN held' -> SUBSET Incarnations]
    BY <1>5, <2>1, WithType DEF Typed
  <2> QED BY <1>5, <2>2 DEF Typed
<1>12. PinnedRight'
  <2> SUFFICES ASSUME Orderly, reader \notin Mixing, "process" \in DOMAIN held'
               PROVE  held'["process"] \subseteq {inc}
    BY <1>5 DEF PinnedRight, Orderly
  <2>1. CASE s.on = "process"
    <3>1. s.via = "pid" /\ "pid" \notin DOMAIN held
      BY <1>1, <1>2, <1>3, <2>1 DEF AtPoint, InOrder, LookupAt, Opens, At, Shape
    <3> QED BY <2>1, <3>1, <1>5 DEF Owner, With
  <2>2. CASE s.on # "process"
    BY <2>2, <1>5 DEF PinnedRight, With
  <2> QED BY <2>1, <2>2
<1>13. Covered' /\ Unused'
  BY <1>5, Readable DEF Covered, Unused, Orderly
<1> QED BY <1>10, <1>11, <1>12, <1>13

LEMMA CloseHandleKeeps ==
    ASSUME IInv, CloseHandle
    PROVE  IInv'
<1> USE DEF IInv
<1> result = Busy /\ At.op = "close"
  BY DEF CloseHandle, Does
<1>1. PICK p : AtPoint(p)
  BY PointOf
<1>2. Shape(p) /\ p.at = ip
  BY <1>1 DEF AtPoint, Represents
<1>3. PICK s : s = At
  OBVIOUS
<1> DEFINE Fields(z) ==
      /\ z.at = p.at + 1 /\ z.result = p.result
      /\ z.held = Without(p.held, {s.on}) /\ z.deferred = p.deferred
      /\ z.taken = p.taken /\ z.rest = p.rest /\ z.owed = p.owed /\ z.gone = p.gone
<1>4. PICK q \in After(code, p) : Fields(q)
  <2> DEFINE z == [Forward(p) EXCEPT !.held = Without(p.held, {s.on})]
  <2>1. z \in After(code, p)
    BY <1>2, <1>3 DEF After, AfterClose, At
  <2>2. Fields(z)
    BY <1>1 DEF AtPoint, IsPoint, Forward
  <2> HIDE DEF z
  <2> QED BY <2>1, <2>2
<1>5. /\ UNCHANGED <<reader, code, deferred, taken, todo, item, kept, excused, cause, result,
                     inc, alive, present, stayed>>
      /\ ip' = ip + 1 /\ held' = Without(held, {s.on})
  BY <1>3 DEF CloseHandle, kernel
<1>6. Shape(q)'
  BY <1>2, <1>4, <1>5 DEF Shape, Without
<1>7. Accounts(p) => Accounts(q)'
  BY <1>4, <1>5 DEF Accounts
<1>8. Names(p) => Names(q)'
  <2>1. DOMAIN held' \subseteq DOMAIN held /\ \A h \in DOMAIN held' : held'[h] = held[h] /\ q.held[h] = p.held[h]
    BY <1>2, <1>4, <1>5 DEF Without, Shape
  <2> QED BY <1>4, <1>5, <2>1, NamesKept
<1>9. Represents(q)'
  BY <1>1, <1>5, <1>6, <1>7, <1>8 DEF AtPoint, Represents, Orderly
<1>10. Simulated'
  BY <1>1, <1>4, <1>5, <1>9, Arrive
<1>11. Typed'
  BY <1>5, WithoutType DEF Typed
<1>12. PinnedRight'
  BY <1>5 DEF PinnedRight, Without, Orderly
<1>13. Covered' /\ Unused'
  BY <1>5, Readable DEF Covered, Unused, Orderly
<1> QED BY <1>10, <1>11, <1>12, <1>13

\* What a step reads is added to what the call has read.
LEMMA NamesRead ==
    ASSUME IInv, Orderly, NEW p, AtPoint(p), Names(p), NEW s, s = At, s.op \in {"read", "list"},
           reader' = reader, held' = held, taken' = taken \cup Owner(s.on),
           NEW q, q.held = p.held, q.taken = p.taken \cup Tags(p, s.on)
    PROVE  Names(q)'
<1> USE DEF IInv
<1> SUFFICES ASSUME reader \notin Mixing PROVE \E m : Denotes(m, q)'
  BY DEF Names
<1>1. PICK m : Denotes(m, p)
  BY DEF Names
<1>2. Shape(p) /\ p.at = ip
  BY DEF AtPoint, Represents
<1>3. PICK n \in [Nat -> Incarnations] :
        /\ Owner(s.on) = Denote(n, Tags(p, s.on))
        /\ \/ n = m
           \/ /\ s.on \notin DOMAIN p.held /\ Tags(p, s.on) = {p.at}
              /\ n = [m EXCEPT ![p.at] = inc]
  BY <1>1, <1>2, Lookup DEF AtPoint
<1>4. p.at \in Tags(p, s.on) =>
        p.at \notin p.taken /\ \A h \in DOMAIN p.held \ {s.on} : p.at \notin p.held[h]
  BY <1>2 DEF AtPoint, InOrder, LookupAt, Got, Opens, At
<1>5. m \in [Nat -> Incarnations] /\ inc \in Incarnations /\ p.at \in Nat
  BY <1>1 DEF AtPoint, Denotes, Typed
<1>6. p.taken \in SUBSET Nat /\ p.held \in [DOMAIN p.held -> SUBSET Nat] /\ DOMAIN p.held = DOMAIN held
  BY <1>2 DEF AtPoint, IsPoint, Shape
<1>7. Denote(n, p.taken) = Denote(m, p.taken)
  BY <1>3, <1>4, <1>5, <1>6, DenoteFresh
<1>8. \A h \in DOMAIN held : Denote(n, p.held[h]) = Denote(m, p.held[h])
  BY <1>3, <1>4, <1>5, <1>6, DenoteFresh
<1>9. taken' = Denote(n, q.taken)
  BY <1>1, <1>3, <1>7, DenoteUnion DEF Denotes
<1>10. \A h \in DOMAIN held' : held'[h] = Denote(n, q.held[h])
  BY <1>1, <1>8 DEF Denotes
<1> QED BY <1>3, <1>9, <1>10 DEF Denotes

LEMMA ReadSucceedsKeeps ==
    ASSUME IInv, ReadSucceeds
    PROVE  IInv'
<1> USE DEF IInv
<1> result = Busy /\ At.op \in {"read", "probe"}
  BY DEF ReadSucceeds, Does
<1>1. PICK p : AtPoint(p)
  BY PointOf
<1>2. Shape(p) /\ p.at = ip
  BY <1>1 DEF AtPoint, Represents
<1>3. PICK s : s = At
  OBVIOUS
<1> DEFINE Fields(z) ==
      /\ z.at = p.at + 1 /\ z.result = p.result
      /\ z.held = p.held /\ z.deferred = p.deferred
      /\ z.taken = IF s.op = "read" THEN p.taken \cup Tags(p, s.on) ELSE p.taken
      /\ z.rest = p.rest /\ z.owed = p.owed /\ z.gone = p.gone
<1>4. PICK q \in After(code, p) : Fields(q)
  <2>1. CASE s.op = "read"
    <3> DEFINE z == [Forward(p) EXCEPT !.taken = p.taken \cup Tags(p, s.on)]
    <3>1. z \in After(code, p)
      BY <2>1, <1>2, <1>3 DEF After, AfterRead, At
    <3>2. Fields(z)
      BY <2>1, <1>1 DEF AtPoint, IsPoint, Forward
    <3> HIDE DEF z
    <3> QED BY <3>1, <3>2
  <2>2. CASE s.op = "probe"
    <3> DEFINE z == Forward(p)
    <3>1. z \in After(code, p)
      BY <2>2, <1>2, <1>3 DEF After, At
    <3>2. Fields(z)
      BY <2>2, <1>1 DEF AtPoint, IsPoint, Forward
    <3> HIDE DEF z
    <3> QED BY <3>1, <3>2
  <2> QED BY <2>1, <2>2, <1>3
<1>5. /\ UNCHANGED <<reader, code, held, deferred, todo, item, kept, excused, cause, result,
                     inc, alive, present, stayed>>
      /\ ip' = ip + 1
      /\ taken' = IF s.op = "read" THEN taken \cup Owner(s.on) ELSE taken
  BY <1>3 DEF ReadSucceeds, kernel
<1>6. Shape(q)'
  BY <1>2, <1>4, <1>5 DEF Shape
<1>7. Accounts(p) => Accounts(q)'
  BY <1>4, <1>5 DEF Accounts
<1>8. Orderly /\ Names(p) => Names(q)'
  <2>1. CASE s.op = "read"
    BY <2>1, <1>1, <1>3, <1>4, <1>5, NamesRead
  <2>2. CASE s.op # "read"
    BY <2>2, <1>4, <1>5, NamesKept
  <2> QED BY <2>1, <2>2
<1>9. Represents(q)'
  BY <1>1, <1>5, <1>6, <1>7, <1>8 DEF AtPoint, Represents, Orderly
<1>10. Simulated'
  BY <1>1, <1>4, <1>5, <1>9, Arrive
<1>11. Typed'
  BY <1>5, OwnerType DEF Typed
<1>12. PinnedRight' /\ Covered' /\ Unused'
  BY <1>5, Readable DEF PinnedRight, Covered, Unused, Orderly
<1> QED BY <1>10, <1>11, <1>12

LEMMA ListSucceedsKeeps ==
    ASSUME IInv, ListSucceeds
    PROVE  IInv'
<1> USE DEF IInv
<1> result = Busy /\ At.op = "list"
  BY DEF ListSucceeds, Does
<1>1. PICK p : AtPoint(p)
  BY PointOf
<1>2. Shape(p) /\ p.at = ip
  BY <1>1 DEF AtPoint, Represents
<1>3. PICK s : s = At
  OBVIOUS
<1> DEFINE Fields(z) ==
      /\ z.at = p.at + 1 /\ z.result = p.result
      /\ z.held = p.held /\ z.deferred = p.deferred
      /\ z.taken = p.taken \cup Tags(p, s.on)
      /\ z.rest = TRUE /\ z.owed = p.owed /\ z.gone = p.gone
<1>4. PICK q \in After(code, p) : Fields(q)
  <2> DEFINE z == [Forward(p) EXCEPT !.taken = p.taken \cup Tags(p, s.on), !.rest = TRUE]
  <2>1. z \in After(code, p)
    BY <1>2, <1>3 DEF After, AfterList, At
  <2>2. Fields(z)
    BY <1>1 DEF AtPoint, IsPoint, Forward
  <2> HIDE DEF z
  <2> QED BY <2>1, <2>2
<1>5. /\ UNCHANGED <<reader, code, held, deferred, item, kept, excused, cause, result, inc, alive, present>>
      /\ ip' = ip + 1 /\ taken' = taken \cup Owner(s.on)
      /\ todo' = todo \cup present
      /\ stayed' = IF todo = {} THEN present ELSE stayed
  BY <1>3 DEF ListSucceeds
<1>6. Shape(q)'
  BY <1>2, <1>4, <1>5 DEF Shape
<1>7. Accounts(p) => Accounts(q)'
  BY <1>4, <1>5 DEF Accounts
<1>8. Orderly /\ Names(p) => Names(q)'
  BY <1>1, <1>3, <1>4, <1>5, NamesRead
<1>9. Represents(q)'
  BY <1>1, <1>5, <1>6, <1>7, <1>8 DEF AtPoint, Represents, Orderly
<1>10. Simulated'
  BY <1>1, <1>4, <1>5, <1>9, Arrive
<1>11. Typed'
  BY <1>5, OwnerType DEF Typed
<1>12. PinnedRight' /\ Covered' /\ Unused'
  BY <1>5, Readable DEF PinnedRight, Covered, Unused, Orderly
<1> QED BY <1>10, <1>11, <1>12

LEMMA NextItemKeeps ==
    ASSUME IInv, NextItem
    PROVE  IInv'
<1> USE DEF IInv
<1> result = Busy /\ At.op = "each"
  BY DEF NextItem, Does
<1>1. PICK p : AtPoint(p)
  BY PointOf
<1>2. Shape(p) /\ p.at = ip
  BY <1>1 DEF AtPoint, Represents
<1>3. PICK s : s = At
  OBVIOUS
<1>4. UNCHANGED <<reader, code, held, deferred, taken, kept, excused, result, inc, alive, present, stayed>>
      /\ cause' = "none"
  BY DEF NextItem, kernel
<1>5. Orderly /\ reader \notin Partial => ~p.owed
  BY <1>1, <1>2 DEF AtPoint, InOrder, WalkAt, At
<1>6. Orderly /\ reader \notin Partial => stayed \subseteq todo \cup kept \cup excused
  BY <1>1, <1>5 DEF AtPoint, Represents, Accounts
<1> DEFINE Kept(z) == z.result = p.result /\ z.held = p.held /\ z.deferred = p.deferred /\ z.taken = p.taken
<1>7. CASE todo = {} /\ item' = {} /\ ip' = s.to /\ UNCHANGED todo
  <2>1. PICK q \in After(code, p) : Kept(q) /\ q.at = s.to /\ q.rest = FALSE /\ q.owed = FALSE /\ q.gone = FALSE
    <3> DEFINE z == [p EXCEPT !.at = s.to, !.rest = FALSE, !.owed = FALSE, !.gone = FALSE]
    <3>1. z \in After(code, p)
      BY <1>2, <1>3 DEF After, AfterEach, At
    <3>2. Kept(z) /\ z.at = s.to /\ z.rest = FALSE /\ z.owed = FALSE /\ z.gone = FALSE
      BY <1>1 DEF AtPoint, IsPoint
    <3> HIDE DEF z
    <3> QED BY <3>1, <3>2
  <2>2. Shape(q)'
    BY <1>2, <1>4, <1>7, <2>1 DEF Shape
  <2>3. Orderly => Accounts(q)'
    BY <1>4, <1>6, <1>7 DEF Accounts
  <2>4. Names(p) => Names(q)'
    BY <1>4, <2>1, NamesKept
  <2>5. Represents(q)'
    BY <1>1, <1>4, <2>2, <2>3, <2>4 DEF AtPoint, Represents, Orderly
  <2>6. Simulated'
    BY <1>1, <1>4, <2>1, <2>5, Arrive
  <2>7. Typed' /\ Covered'
    BY <1>4, <1>6, <1>7 DEF Typed, Covered, Orderly
  <2> QED BY <1>4, <2>6, <2>7, Readable DEF PinnedRight, Unused, Orderly
<1>8. ASSUME NEW i \in todo, item' = {i}, todo' = todo \ {i}, ip' = ip + 1
      PROVE  IInv'
  <2>1. PICK q \in After(code, p) : Kept(q) /\ q.at = ip + 1 /\ q.rest = TRUE /\ q.owed = TRUE /\ q.gone = FALSE
    <3> DEFINE z == [Forward(p) EXCEPT !.owed = TRUE, !.gone = FALSE]
    <3>1. p.rest = TRUE
      BY <1>1, <1>2, <1>8 DEF Shape, AtPoint, IsPoint
    <3>2. z \in After(code, p)
      BY <1>2, <1>3, <3>1 DEF After, AfterEach, At
    <3>3. Kept(z) /\ z.at = ip + 1 /\ z.rest = TRUE /\ z.owed = TRUE /\ z.gone = FALSE
      BY <1>1, <3>1 DEF AtPoint, IsPoint, Forward
    <3> HIDE DEF z
    <3> QED BY <3>2, <3>3
  <2>2. Shape(q)'
    BY <1>2, <1>4, <1>8, <2>1 DEF Shape
  <2>3. Accounts(q)'
    BY <2>1 DEF Accounts
  <2>4. Names(p) => Names(q)'
    BY <1>4, <2>1, NamesKept
  <2>5. Represents(q)'
    BY <1>1, <1>4, <2>2, <2>3, <2>4 DEF AtPoint, Represents, Orderly
  <2>6. Simulated'
    BY <1>1, <1>4, <2>1, <2>5, Arrive
  <2>7. Typed' /\ Covered'
    BY <1>4, <1>6, <1>8 DEF Typed, Covered, Orderly
  <2> QED BY <1>4, <2>6, <2>7, Readable DEF PinnedRight, Unused, Orderly
<1> QED BY <1>3, <1>7, <1>8 DEF NextItem

LEMMA FilterItemKeeps ==
    ASSUME IInv, FilterItem
    PROVE  IInv'
<1> USE DEF IInv
<1> result = Busy /\ At.op = "filter"
  BY DEF FilterItem, Does
<1>1. PICK p : AtPoint(p)
  BY PointOf
<1>2. Shape(p) /\ p.at = ip
  BY <1>1 DEF AtPoint, Represents
<1>3. UNCHANGED <<reader, code, held, deferred, taken, todo, item, kept, cause, result,
                  inc, alive, present, stayed>>
  BY DEF FilterItem, kernel
<1> DEFINE Kept(z) ==
      /\ z.result = p.result /\ z.held = p.held /\ z.deferred = p.deferred /\ z.taken = p.taken
      /\ z.rest = p.rest /\ z.gone = p.gone
<1>4. PICK q \in After(code, p) :
        /\ Kept(q) /\ q.at = ip'
        /\ \/ q.owed = p.owed /\ excused' = excused
           \/ excused' = excused \cup item
  <2>1. CASE ip' = ip + 1 /\ UNCHANGED excused
    <3> DEFINE z == Forward(p)
    <3>1. z \in After(code, p)
      BY <1>2 DEF After, At
    <3>2. Kept(z) /\ z.at = ip + 1 /\ z.owed = p.owed
      BY <1>1 DEF AtPoint, IsPoint, Forward
    <3> HIDE DEF z
    <3> QED BY <2>1, <3>1, <3>2
  <2>2. CASE ip' = WalkHead(code, ip) /\ excused' = excused \cup item
    <3> DEFINE z == NextOne(code, p)
    <3>1. z \in After(code, p)
      BY <1>2 DEF After, At
    <3>2. Kept(z) /\ z.at = WalkHead(code, ip)
      BY <1>1 DEF AtPoint, IsPoint, NextOne
    <3> HIDE DEF z
    <3> QED BY <2>2, <3>1, <3>2
  <2> QED BY <2>1, <2>2 DEF FilterItem
<1>5. Shape(q)'
  BY <1>2, <1>3, <1>4 DEF Shape
<1>6. Orderly /\ Accounts(p) => Accounts(q)'
  BY <1>3, <1>4 DEF Accounts, Covered
<1>7. Names(p) => Names(q)'
  BY <1>3, <1>4, NamesKept
<1>8. Represents(q)'
  BY <1>1, <1>3, <1>5, <1>6, <1>7 DEF AtPoint, Represents, Orderly
<1>9. Simulated'
  BY <1>1, <1>3, <1>4, <1>8, Arrive
<1>10. Typed' /\ Covered'
  BY <1>3, <1>4 DEF Typed, Covered, Orderly
<1> QED BY <1>3, <1>9, <1>10, Readable DEF PinnedRight, Unused, Orderly

LEMMA KeepItemKeeps ==
    ASSUME IInv, KeepItem
    PROVE  IInv'
<1> USE DEF IInv
<1> result = Busy /\ At.op = "keep"
  BY DEF KeepItem, Does
<1>1. PICK p : AtPoint(p)
  BY PointOf
<1>2. Shape(p) /\ p.at = ip
  BY <1>1 DEF AtPoint, Represents
<1>3. /\ UNCHANGED <<reader, code, held, deferred, taken, todo, item, excused, cause, result,
                     inc, alive, present, stayed>>
      /\ kept' = kept \cup item /\ ip' = WalkHead(code, ip)
  BY DEF KeepItem, kernel
<1> DEFINE Kept(z) ==
      /\ z.result = p.result /\ z.held = p.held /\ z.deferred = p.deferred /\ z.taken = p.taken
      /\ z.rest = p.rest /\ z.gone = p.gone
<1>4. PICK q \in After(code, p) : Kept(q) /\ q.at = ip'
  <2> DEFINE z == NextOne(code, p)
  <2>1. z \in After(code, p)
    BY <1>2 DEF After, At
  <2>2. Kept(z) /\ z.at = WalkHead(code, ip)
    BY <1>1 DEF AtPoint, IsPoint, NextOne
  <2> HIDE DEF z
  <2> QED BY <1>3, <2>1, <2>2
<1>5. Shape(q)'
  BY <1>2, <1>3, <1>4 DEF Shape
<1>6. Orderly => Accounts(q)'
  BY <1>3, <1>4 DEF Accounts, Covered
<1>7. Names(p) => Names(q)'
  BY <1>3, <1>4, NamesKept
<1>8. Represents(q)'
  BY <1>1, <1>3, <1>5, <1>6, <1>7 DEF AtPoint, Represents, Orderly
<1>9. Simulated'
  BY <1>1, <1>3, <1>4, <1>8, Arrive
<1>10. Typed' /\ Covered'
  BY <1>3 DEF Typed, Covered, Orderly
<1> QED BY <1>3, <1>9, <1>10, Readable DEF PinnedRight, Unused, Orderly

-----------------------------------------------------------------------------
(* The branches *)

\* The release of what was deferred.
LEMMA ReleaseFacts ==
    ASSUME Typed, NEW z, DOMAIN z.held = DOMAIN held, z.deferred = deferred
    PROVE  /\ DOMAIN Without(z.held, z.deferred) = DOMAIN Without(held, deferred)
           /\ DOMAIN Without(held, deferred) \subseteq DOMAIN held
           /\ \A h \in DOMAIN Without(held, deferred) :
                /\ Without(held, deferred)[h] = held[h]
                /\ Without(z.held, z.deferred)[h] = z.held[h]
           /\ Without(held, deferred) \in [DOMAIN Without(held, deferred) -> SUBSET Incarnations]
BY WithoutType DEF Without, Typed

\* The analysis follows a branch to where the call goes.
LEMMA LeaveFacts ==
    ASSUME Typed, result = Busy, NEW z, IsPoint(code, z), z.at = ip, z.result = Busy,
           DOMAIN z.held = DOMAIN held, z.deferred = deferred, NEW d, GoTo(d)
    PROVE  \E q :
            /\ q = Leave(code, z, d)
            /\ q.at = ip' /\ q.result = result' /\ q.deferred = deferred'
            /\ DOMAIN q.held = DOMAIN held' /\ DOMAIN held' \subseteq DOMAIN held
            /\ \A h \in DOMAIN held' : held'[h] = held[h] /\ q.held[h] = z.held[h]
            /\ held' \in [DOMAIN held' -> SUBSET Incarnations]
            /\ result' # Idle
            /\ q.taken = z.taken /\ q.rest = z.rest /\ q.owed = z.owed /\ q.gone = z.gone
<1>1. CASE d \in {Ok, Error}
  <2> DEFINE q == Ended(z, d)
  <2>1. q = Leave(code, z, d)
    BY <1>1 DEF Leave
  <2>2. Finish(d)
    BY <1>1 DEF GoTo
  <2>3. /\ q.at = z.at /\ q.result = d /\ q.deferred = {} /\ q.held = Without(z.held, z.deferred)
        /\ q.taken = z.taken /\ q.rest = z.rest /\ q.owed = z.owed /\ q.gone = z.gone
    BY DEF IsPoint, Ended
  <2> HIDE DEF q
  <2>4. q.at = ip' /\ q.result = result' /\ q.deferred = deferred' /\ result' # Idle
    BY <1>1, <2>2, <2>3, Readable DEF Finish
  <2>5. /\ DOMAIN q.held = DOMAIN held' /\ DOMAIN held' \subseteq DOMAIN held
        /\ \A h \in DOMAIN held' : held'[h] = held[h] /\ q.held[h] = z.held[h]
        /\ held' \in [DOMAIN held' -> SUBSET Incarnations]
    BY <2>2, <2>3, ReleaseFacts DEF Finish
  <2> QED BY <2>1, <2>3, <2>4, <2>5
<1>2. CASE d \notin {Ok, Error}
  <2> DEFINE q == [z EXCEPT !.at = Target(code, z.at, d)]
  <2>1. q = Leave(code, z, d)
    BY <1>2 DEF Leave
  <2>2. ip' = Target(code, ip, d) /\ UNCHANGED <<held, deferred, result>>
    BY <1>2 DEF GoTo
  <2>3. /\ q.at = Target(code, z.at, d) /\ q.result = z.result
        /\ q.deferred = z.deferred /\ q.held = z.held
        /\ q.taken = z.taken /\ q.rest = z.rest /\ q.owed = z.owed /\ q.gone = z.gone
    BY DEF IsPoint
  <2> HIDE DEF q
  <2> QED BY <2>1, <2>2, <2>3, Readable DEF Typed
<1> QED BY <1>1, <1>2

\* A failure has a cause, and only what belongs to an item can vanish.
LEMMA FailureCause ==
    ASSUME IInv, StepFails
    PROVE  /\ cause' = "refused" => \E d \in At.fails : GoTo(d)
           /\ cause' # "refused" => \E d \in At.gone : GoTo(d)
           /\ cause' \in {"refused", "vanished", "exited"}
           /\ cause' = "vanished" => At.via \in {"item", "part"} /\ ~(item \subseteq present)
           /\ cause' = "exited" => At.via \in {"pid", "part"}
           /\ excused' = IF cause' = "vanished" THEN excused ELSE excused \cup item
BY DEF IInv, Typed, StepFails, Reachable

LEMMA FailureAfter ==
    ASSUME NEW steps, NEW p,
           steps[p.at].op \in {"open", "openBare", "read", "probe", "list", "each"}
    PROVE  AfterFailure(steps, steps[p.at], p) \subseteq After(steps, p)
BY DEF After

LEMMA StepFailsKeeps ==
    ASSUME IInv, StepFails
    PROVE  IInv'
<1> USE DEF IInv
<1> result = Busy /\ At.op \in {"open", "openBare", "read", "probe", "list", "each"}
  BY DEF StepFails, Does
<1>1. PICK p : AtPoint(p)
  BY PointOf
<1>2. Shape(p) /\ p.at = ip
  BY <1>1 DEF AtPoint, Represents
<1>3. UNCHANGED <<reader, code, taken, todo, item, kept, inc, alive, present, stayed>>
  BY DEF StepFails, kernel
<1>4. PICK z, d :
        /\ GoTo(d) /\ Leave(code, z, d) \in After(code, p)
        /\ IsPoint(code, z) /\ z.at = ip /\ z.result = Busy /\ z.held = p.held /\ z.deferred = p.deferred
        /\ z.taken = p.taken /\ z.rest = p.rest /\ (cause' = "vanished" => z.gone)
  <2> DEFINE failed == [p EXCEPT !.owed = FALSE, !.gone = FALSE]
             lost == [failed EXCEPT !.gone = TRUE]
             Same(z) == /\ IsPoint(code, z) /\ z.at = ip /\ z.result = Busy
                        /\ z.held = p.held /\ z.deferred = p.deferred
                        /\ z.taken = p.taken /\ z.rest = p.rest
  <2>1. Same(failed) /\ Same(lost) /\ lost.gone
    BY <1>1 DEF AtPoint, IsPoint
  <2>2. /\ \A d \in At.fails : Leave(code, failed, d) \in After(code, p)
        /\ At.via \in {"pid", "part"} => \A d \in At.gone : Leave(code, failed, d) \in After(code, p)
        /\ At.via \in {"item", "part"} => \A d \in At.gone : Leave(code, lost, d) \in After(code, p)
    <3>1. AfterFailure(code, At, p) \subseteq After(code, p)
      BY <1>2, FailureAfter DEF At
    <3> QED BY <3>1 DEF AfterFailure
  <2> HIDE DEF failed, lost
  <2>3. CASE cause' = "refused"
    BY <2>1, <2>2, <2>3, FailureCause
  <2>4. CASE cause' = "exited"
    BY <2>1, <2>2, <2>4, FailureCause
  <2>5. CASE cause' = "vanished"
    BY <2>1, <2>2, <2>5, FailureCause
  <2> QED BY <2>3, <2>4, <2>5, FailureCause
<1>5. PICK q :
        /\ q = Leave(code, z, d)
        /\ q.at = ip' /\ q.result = result' /\ q.deferred = deferred'
        /\ DOMAIN q.held = DOMAIN held' /\ DOMAIN held' \subseteq DOMAIN held
        /\ \A h \in DOMAIN held' : held'[h] = held[h] /\ q.held[h] = z.held[h]
        /\ held' \in [DOMAIN held' -> SUBSET Incarnations]
        /\ result' # Idle
        /\ q.taken = z.taken /\ q.rest = z.rest /\ q.owed = z.owed /\ q.gone = z.gone
  BY <1>2, <1>4, LeaveFacts DEF Shape
<1>6. Shape(q)'
  BY <1>2, <1>3, <1>4, <1>5 DEF Shape
<1>7. Orderly /\ reader \notin Partial => stayed \subseteq todo \cup kept \cup excused'
  <2>1. CASE cause' = "vanished"
    <3>1. item \cap stayed = {}
      BY <2>1, FailureCause DEF Typed
    <3> QED BY <2>1, <3>1, FailureCause DEF Covered
  <2>2. CASE cause' # "vanished"
    BY <2>2, FailureCause DEF Covered
  <2> QED BY <2>1, <2>2
<1>8. Orderly => Accounts(q)'
  BY <1>3, <1>7 DEF Accounts
<1>9. Names(p) => Names(q)'
  BY <1>3, <1>4, <1>5, NamesKept
<1>10. Represents(q)'
  BY <1>1, <1>3, <1>6, <1>8, <1>9 DEF AtPoint, Represents, Orderly
<1>11. Simulated'
  BY <1>1, <1>3, <1>4, <1>5, <1>10, Arrive
<1>12. Typed'
  BY <1>3, <1>5, FailureCause DEF Typed
<1>13. Covered' /\ Unused'
  BY <1>3, <1>5, <1>7 DEF Covered, Unused, Orderly
<1>14. PinnedRight'
  BY <1>3, <1>5 DEF PinnedRight, Orderly
<1> QED BY <1>11, <1>12, <1>13, <1>14

LEMMA TakeBranchKeeps ==
    ASSUME IInv, TakeBranch
    PROVE  IInv'
<1> USE DEF IInv
<1> result = Busy /\ At.op = "branch"
  BY DEF TakeBranch, Does
<1>1. PICK p : AtPoint(p)
  BY PointOf
<1>2. Shape(p) /\ p.at = ip
  BY <1>1 DEF AtPoint, Represents
<1>3. UNCHANGED <<reader, code, taken, todo, item, kept, inc, alive, present, stayed>>
  BY DEF TakeBranch, kernel
<1>4. PICK d \in At.fails :
        /\ GoTo(d)
        /\ cause' = IF d = Error THEN "refused" ELSE cause
        /\ excused' = IF d = Skip THEN excused \cup item ELSE excused
  BY DEF TakeBranch
<1>5. PICK z :
        /\ Leave(code, z, d) \in After(code, p)
        /\ IsPoint(code, z) /\ z.at = ip /\ z.result = Busy /\ z.held = p.held /\ z.deferred = p.deferred
        /\ z.taken = p.taken /\ z.rest = p.rest
        /\ z.gone = (d # Error /\ p.gone) /\ z.owed = (d # Skip /\ p.owed)
  <2> DEFINE z == [p EXCEPT !.gone = (d # Error /\ p.gone), !.owed = (d # Skip /\ p.owed)]
  <2>1. Leave(code, z, d) \in After(code, p)
    BY <1>2, <1>4 DEF After, AfterBranch, At
  <2>2. /\ IsPoint(code, z) /\ z.at = ip /\ z.result = Busy /\ z.held = p.held /\ z.deferred = p.deferred
        /\ z.taken = p.taken /\ z.rest = p.rest
        /\ z.gone = (d # Error /\ p.gone) /\ z.owed = (d # Skip /\ p.owed)
    BY <1>1 DEF AtPoint, IsPoint
  <2> HIDE DEF z
  <2> QED BY <2>1, <2>2
<1>6. PICK q :
        /\ q = Leave(code, z, d)
        /\ q.at = ip' /\ q.result = result' /\ q.deferred = deferred'
        /\ DOMAIN q.held = DOMAIN held' /\ DOMAIN held' \subseteq DOMAIN held
        /\ \A h \in DOMAIN held' : held'[h] = held[h] /\ q.held[h] = z.held[h]
        /\ held' \in [DOMAIN held' -> SUBSET Incarnations]
        /\ result' # Idle
        /\ q.taken = z.taken /\ q.rest = z.rest /\ q.owed = z.owed /\ q.gone = z.gone
  BY <1>2, <1>4, <1>5, LeaveFacts DEF Shape
<1>7. Shape(q)'
  BY <1>2, <1>3, <1>4, <1>5, <1>6 DEF Shape
<1>8. Orderly /\ Accounts(p) => Accounts(q)'
  BY <1>3, <1>4, <1>5, <1>6 DEF Accounts, Covered
<1>9. Names(p) => Names(q)'
  BY <1>3, <1>5, <1>6, NamesKept
<1>10. Represents(q)'
  BY <1>1, <1>3, <1>7, <1>8, <1>9 DEF AtPoint, Represents, Orderly
<1>11. Simulated'
  BY <1>1, <1>3, <1>5, <1>6, <1>10, Arrive
<1>12. Typed'
  BY <1>3, <1>4, <1>6 DEF Typed
<1>13. Covered' /\ Unused'
  BY <1>3, <1>4, <1>6 DEF Covered, Unused, Orderly
<1>14. PinnedRight'
  BY <1>3, <1>6 DEF PinnedRight, Orderly
<1> QED BY <1>11, <1>12, <1>13, <1>14

LEMMA ReturnStepKeeps ==
    ASSUME IInv, ReturnStep
    PROVE  IInv'
<1> USE DEF IInv
<1> result = Busy /\ At.op = "return"
  BY DEF ReturnStep, Does
<1>1. PICK p : AtPoint(p)
  BY PointOf
<1>2. Shape(p) /\ p.at = ip
  BY <1>1 DEF AtPoint, Represents
<1>3. PICK s : s = At
  OBVIOUS
<1>4. /\ UNCHANGED <<reader, code, ip, taken, todo, item, kept, excused, cause, inc, alive, present, stayed>>
      /\ result' = s.to /\ held' = Without(held, deferred) /\ deferred' = {}
  BY <1>3 DEF ReturnStep, Finish, kernel
<1>5. PICK q \in After(code, p) :
        /\ q.at = p.at /\ q.result = s.to /\ q.deferred = {} /\ q.held = Without(p.held, p.deferred)
        /\ q.taken = p.taken /\ q.rest = p.rest /\ q.owed = p.owed /\ q.gone = p.gone
  <2> DEFINE z == Ended(p, s.to)
  <2>1. z \in After(code, p)
    BY <1>2, <1>3 DEF After, At
  <2>2. /\ z.at = p.at /\ z.result = s.to /\ z.deferred = {} /\ z.held = Without(p.held, p.deferred)
        /\ z.taken = p.taken /\ z.rest = p.rest /\ z.owed = p.owed /\ z.gone = p.gone
    BY <1>1 DEF AtPoint, IsPoint, Ended
  <2> HIDE DEF z
  <2> QED BY <2>1, <2>2
<1>6. s.to \in {Busy, Ok, Error}
  <2>1. q \in Flow[reader]
    BY <1>1 DEF AtPoint
  <2>2. IsPoint(code, q)
    BY <2>1, FlowFacts DEF Typed
  <2> QED BY <1>5, <2>2 DEF IsPoint
<1>7. /\ DOMAIN q.held = DOMAIN held' /\ DOMAIN held' \subseteq DOMAIN held
      /\ \A h \in DOMAIN held' : held'[h] = held[h] /\ q.held[h] = p.held[h]
      /\ held' \in [DOMAIN held' -> SUBSET Incarnations]
  BY <1>2, <1>4, <1>5, ReleaseFacts DEF Shape
<1>8. Shape(q)'
  BY <1>2, <1>4, <1>5, <1>7 DEF Shape
<1>9. Accounts(p) => Accounts(q)'
  BY <1>4, <1>5 DEF Accounts
<1>10. Names(p) => Names(q)'
  BY <1>4, <1>5, <1>7, NamesKept
<1>11. Represents(q)'
  BY <1>1, <1>4, <1>8, <1>9, <1>10 DEF AtPoint, Represents, Orderly
<1>12. Simulated'
  BY <1>1, <1>4, <1>11, Arrive
<1>13. Typed'
  BY <1>4, <1>7 DEF Typed
<1>14. Covered' /\ Unused'
  BY <1>4, <1>6, Readable DEF Covered, Unused, Orderly
<1>15. PinnedRight'
  BY <1>4, <1>7 DEF PinnedRight, Orderly
<1> QED BY <1>12, <1>13, <1>14, <1>15

-----------------------------------------------------------------------------
(* The caller and the kernel *)

LEMMA CallKeeps ==
    ASSUME IInv, Call
    PROVE  IInv'
<1> USE DEF IInv
<1>1. /\ UNCHANGED <<reader, code, inc, alive, present>>
      /\ ip' = 1 /\ result' = Busy /\ held' = Nothing /\ deferred' = {} /\ taken' = {}
      /\ todo' = {} /\ item' = {} /\ kept' = {} /\ excused' = {} /\ cause' = "none"
      /\ stayed' = {}
  BY DEF Call
<1>2. DOMAIN Nothing = {} /\ Nothing \in [DOMAIN Nothing -> SUBSET Incarnations]
  BY DEF Nothing
<1>3. Typed' /\ Covered' /\ Unused' /\ PinnedRight'
  BY <1>1, <1>2, Readable DEF Typed, Covered, Unused, PinnedRight
<1>4. Shape(Start)' /\ Accounts(Start)'
  BY <1>1 DEF Shape, Accounts, Start
<1>5. Names(Start)'
  <2> DEFINE m == [t \in Nat |-> 1]
  <2>1. m \in [Nat -> Incarnations] /\ Denote(m, {}) = {}
    BY Readable DEF Denote
  <2> HIDE DEF m
  <2> QED BY <1>1, <1>2, <2>1 DEF Names, Denotes, Start
<1>6. Represents(Start)' /\ Start \in Flow[reader']
  BY <1>1, <1>4, <1>5, FlowFacts DEF Represents, Typed
<1>7. Simulated'
  BY <1>6 DEF Simulated
<1> QED BY <1>3, <1>7

\* The kernel does nothing that a point speaks of, but for what it says of
\* the items that stayed, which only get fewer.
LEMMA KernelStepKeeps ==
    ASSUME IInv, KernelStep
    PROVE  IInv'
<1> USE DEF IInv
<1>1. /\ UNCHANGED <<reader, code, ip, held, deferred, taken, todo, item, kept, excused, cause, result>>
      /\ stayed' \subseteq stayed
  BY DEF KernelStep, Exit, Reuse, Vanish, Appear, call
<1>2. Typed' /\ PinnedRight'
  <2>1. CASE Exit
    BY <1>1, <2>1 DEF Exit, Typed, PinnedRight, Orderly
  <2>2. CASE Reuse
    BY <1>1, <2>2, ReadersAssumption DEF Reuse, Typed, PinnedRight, Orderly, Incarnations
  <2>3. ASSUME NEW i \in Items, Vanish(i) PROVE Typed' /\ PinnedRight'
    BY <1>1, <2>3 DEF Vanish, Typed, PinnedRight, Orderly
  <2>4. ASSUME NEW i \in Items, Appear(i) PROVE Typed' /\ PinnedRight'
    BY <1>1, <2>4 DEF Appear, Typed, PinnedRight, Orderly
  <2> QED BY <2>1, <2>2, <2>3, <2>4 DEF KernelStep
<1>3. Covered' /\ Unused'
  BY <1>1 DEF Covered, Unused, Orderly
<1>4. Simulated'
  <2> SUFFICES ASSUME NEW p \in Flow[reader], Represents(p) PROVE Represents(p)'
    BY <1>1 DEF Simulated
  <2>1. Shape(p)'
    BY <1>1 DEF Represents, Shape
  <2>2. Accounts(p) => Accounts(p)'
    BY <1>1 DEF Accounts
  <2>3. Names(p) => Names(p)'
    BY <1>1, NamesKept
  <2> QED BY <1>1, <2>1, <2>2, <2>3 DEF Represents, Orderly
<1> QED BY <1>2, <1>3, <1>4

LEMMA StutterKeeps ==
    ASSUME IInv, UNCHANGED vars
    PROVE  IInv'
<1>1. UNCHANGED <<reader, code, ip, held, deferred, taken, todo, item, kept, excused, cause, result,
                  inc, alive, present, stayed>>
  BY DEF vars, call, kernel
<1> QED BY <1>1 DEF IInv, Typed, Unused, Covered, PinnedRight, Simulated, Represents, Orderly,
                    Shape, Accounts, Names, Denotes

LEMMA RepresentativesAreReaders == Representatives \subseteq DOMAIN Programs
BY DEF Representatives, Kinds, Range

LEMMA InitHolds ==
    ASSUME Init
    PROVE  IInv
<1>1. reader \in DOMAIN Programs
  BY RepresentativesAreReaders DEF Init
<1>2. DOMAIN Nothing = {} /\ Nothing \in [DOMAIN Nothing -> SUBSET Incarnations]
  BY DEF Nothing
<1> QED BY <1>1, <1>2, Readable DEF Init, IInv, Typed, Unused, Covered, PinnedRight, Simulated

-----------------------------------------------------------------------------
(* The theorems *)

\* The invariant of every call of every reader.
THEOREM Invariance == Spec => []IInv
<1>1. Init => IInv
  BY InitHolds
<1>2. IInv /\ [Next]_vars => IInv'
  BY OpenHandleKeeps, CloseHandleKeeps, ReadSucceedsKeeps, ListSucceedsKeeps, StepFailsKeeps,
     NextItemKeeps, FilterItemKeeps, KeepItemKeeps, TakeBranchKeeps, ReturnStepKeeps,
     CallKeeps, KernelStepKeeps, StutterKeeps DEF Next, ReaderStep
<1> QED BY <1>1, <1>2, PTL DEF Spec

LEMMA AtMostOne ==
    ASSUME NEW S, S = {} \/ \E v : S = {v}
    PROVE  Cardinality(S) <= 1
<1>1. CASE S = {}
  BY <1>1, FS_EmptySet
<1>2. ASSUME NEW v, S = {v} PROVE Cardinality(S) = 1
  BY <1>2, FS_Singleton
<1> QED BY <1>1, <1>2

\* The point of a call that has begun.
LEMMA SomePoint ==
    ASSUME IInv, result # Idle
    PROVE  \E p \in Flow[reader] :
             /\ Represents(p) /\ Shape(p) /\ IsPoint(code, p)
             /\ Orderly => InOrder(reader, code, p) /\ Accounts(p) /\ Names(p)
<1>1. PICK p \in Flow[reader] : Represents(p)
  BY DEF IInv, Simulated
<1>2. IsPoint(code, p)
  BY FlowFacts DEF IInv, Typed
<1>3. Orderly => InOrder(reader, code, p)
  BY OrderlyPoint DEF IInv, Typed
<1> QED BY <1>1, <1>2, <1>3 DEF Represents

\* Whatever a reader does, its state has the type it should: it is at a step
\* of its program, and holds nothing but what the program opens.
THEOREM ReadersTypeCorrect == Spec => []TypeOK
<1>1. ASSUME IInv PROVE TypeOK
  <2>1. Cardinality(item) <= 1
    BY <1>1, AtMostOne DEF IInv, Typed
  <2>2. CASE result = Idle
    <3>1. 1 \in DOMAIN code
      BY <1>1, FlowFacts DEF IInv, Typed, IsPoint, Start
    <3>2. DOMAIN Nothing = {}
      BY DEF Nothing
    <3> QED BY <1>1, <2>1, <2>2, <3>1, <3>2 DEF IInv, Typed, Unused, TypeOK
  <2>3. CASE result # Idle
    <3>1. PICK p : Shape(p) /\ IsPoint(code, p)
      BY <1>1, <2>3, SomePoint
    <3>2. ip \in DOMAIN code /\ DOMAIN held \subseteq Opened(code) /\ deferred \subseteq Opened(code)
          /\ result \in {Busy, Ok, Error}
      BY <3>1 DEF Shape, IsPoint
    <3> QED BY <1>1, <2>1, <3>2 DEF IInv, Typed, TypeOK
  <2> QED BY <2>2, <2>3
<1> QED BY <1>1, Invariance, PTL

\* An orderly reader releases what it opened on every return path, uses
\* nothing it has released and opens nothing over a handle it still holds,
\* whatever vanishes or is refused on the way.
THEOREM HandlesAlwaysInOrder == Spec => [](Orderly => HandlesInOrder)
<1>1. ASSUME IInv, Orderly PROVE HandlesInOrder
  <2>1. CASE result = Idle
    BY <2>1, Readable DEF HandlesInOrder
  <2>2. CASE result # Idle
    <3>1. PICK p : Shape(p) /\ InOrder(reader, code, p)
      BY <1>1, <2>2, SomePoint
    <3>2. HandlesAt(reader, code, p) /\ p.at = ip /\ p.result = result
          /\ DOMAIN p.held = DOMAIN held /\ p.deferred = deferred
      BY <3>1 DEF InOrder, Shape
    <3>3. result = Ok \/ (result = Error /\ reader \notin Leaking) => held = Nothing
      <4>1. DOMAIN held = {} => held = Nothing
        BY <1>1 DEF IInv, Typed, Nothing
      <4> QED BY <3>2, <4>1 DEF HandlesAt
    <3> QED BY <3>2, <3>3 DEF HandlesAt, HandlesInOrder, Opens, At
  <2> QED BY <2>1, <2>2
<1> QED BY <1>1, Invariance, PTL

\* The figures of an orderly reader that succeeds are those of one process,
\* however often its pid is given away meanwhile.
THEOREM AlwaysOneProcess == Spec => [](Orderly => OneProcess)
<1>1. ASSUME IInv, Orderly PROVE OneProcess
  <2> SUFFICES ASSUME result = Ok, reader \notin Mixing PROVE Cardinality(taken) <= 1
    BY DEF OneProcess
  <2>1. PICK p : Shape(p) /\ InOrder(reader, code, p) /\ Names(p)
    BY <1>1, SomePoint, Readable
  <2>2. PICK m : Denotes(m, p)
    BY <2>1 DEF Names
  <2>3. \A t, u \in p.taken : t = u
    BY <2>1 DEF InOrder, LookupAt, Shape
  <2>4. taken = {} \/ \E v : taken = {v}
    <3>1. CASE p.taken = {}
      BY <2>2, <3>1 DEF Denotes, Denote
    <3>2. ASSUME NEW t \in p.taken PROVE taken = {m[t]}
      BY <2>2, <2>3 DEF Denotes, Denote
    <3> QED BY <3>1, <3>2
  <2> QED BY <2>4, AtMostOne
<1> QED BY <1>1, Invariance, PTL

\* An orderly reader that succeeds has kept, or had a reason to leave out,
\* every item that was there all the while.
THEOREM StayersAlwaysListed == Spec => [](Orderly => StayersListed)
<1>1. ASSUME IInv, Orderly PROVE StayersListed
  <2> SUFFICES ASSUME result = Ok, reader \notin Partial PROVE stayed \subseteq kept \cup excused
    BY DEF StayersListed
  <2>1. PICK p : Shape(p) /\ InOrder(reader, code, p) /\ Accounts(p)
    BY <1>1, SomePoint, Readable
  <2>2. ~p.rest /\ ~p.owed
    BY <2>1 DEF InOrder, WalkAt, Shape
  <2> QED BY <2>1, <2>2 DEF Shape, Accounts
<1> QED BY <1>1, Invariance, PTL

\* A vanished item does not fail the call of an orderly reader.
THEOREM VanishingAlwaysHarmless == Spec => [](Orderly => VanishingHarmless)
<1>1. ASSUME IInv, Orderly PROVE VanishingHarmless
  <2> SUFFICES ASSUME result = Error, cause = "vanished" PROVE reader \in Fragile
    BY DEF VanishingHarmless
  <2>1. PICK p : Shape(p) /\ InOrder(reader, code, p)
    BY <1>1, SomePoint, Readable
  <2> QED BY <2>1 DEF InOrder, FailureAt, Shape
<1> QED BY <1>1, Invariance, PTL

-----------------------------------------------------------------------------
(***************************************************************************)
(* VirtualMemory (see MemoryFigures).  Its counters are read one after the *)
(* other while pages move between them, so the invariant follows the sum   *)
(* over the classes it counts, each as it was read if it has been and as   *)
(* it is now otherwise: reading leaves this sum alone, and a page that     *)
(* moves changes it by one at most.                                        *)
(***************************************************************************)

\* What has been read before the counters k.
Before(k) == UNION {Reads[sys][i] : i \in 1..(k - 1)}

\* The pages of a class, as far as they have been read in the state in which
\* they were read.
Latest == [c \in AvailableClasses |-> IF c \in DOMAIN seen THEN seen[c] ELSE pages[c]]

MemoryTyped ==
    /\ sys \in DOMAIN Reads
    /\ pages \in [Classes -> Nat] /\ PagesIn(pages) = Total
    /\ first \in [Classes -> Nat] /\ PagesIn(first) = Total
    /\ pc \in {"idle", "reading", "zoneinfo", "computing", "done", "failed"}
    /\ next \in 1..Len(Reads[sys])
    /\ seen \in [DOMAIN seen -> Nat]
    /\ low \in {-1, Watermark}
    /\ moved \in 0..MaxMoves

\* What has been read, and when the watermark may have been.
ReadSoFar ==
    /\ pc = "reading" => DOMAIN seen = Before(next)
    /\ pc \in {"zoneinfo", "computing", "done"} => DOMAIN seen = AvailableClasses
    /\ low # -1 \/ pc = "zoneinfo" => sys = "linuxOld"

\* A page that moves changes the sum by one at most.
Drift ==
    pc \in {"reading", "zoneinfo", "computing", "done"} =>
        /\ PagesIn(Latest) <= TrulyAvailable + moved
        /\ TrulyAvailable <= PagesIn(Latest) + moved

Answered == pc = "done" /\ Counts => stat = [available |-> Available, used |-> Used(Available)]

MemoryInv == MemoryTyped /\ ReadSoFar /\ Drift /\ Answered

-----------------------------------------------------------------------------
\* What the systems read.
LEMMA ReadsFacts ==
    ASSUME sys \in DOMAIN Reads
    PROVE  /\ Len(Reads[sys]) \in Nat /\ Len(Reads[sys]) >= 1
           /\ DOMAIN Reads[sys] = 1..Len(Reads[sys])
           /\ \A i \in 1..Len(Reads[sys]) : Reads[sys][i] \subseteq Classes
<1> DEFINE L == Reads[sys]
<1> USE DEF Reads, LinuxMemAvailable, LinuxReads, FreebsdReads, OpenbsdReads, NetbsdReads,
            DarwinReads, SolarisReads, SolarisZoneReads, WindowsReads, Classes
<1>1. CASE sys = "linux"
  BY <1>1
<1>2. CASE sys = "linuxOld"
  BY <1>2
<1>3. CASE sys = "linuxOldest"
  BY <1>3
<1>4. CASE sys = "freebsd"
  BY <1>4
<1>5. CASE sys = "openbsd"
  BY <1>5
<1>6. CASE sys = "netbsd"
  BY <1>6
<1>7. CASE sys = "darwin"
  BY <1>7
<1>8. CASE sys = "solaris"
  BY <1>8
<1>9. CASE sys = "windows"
  BY <1>9
<1>10. CASE sys = "solarisZone"
  BY <1>10
<1> QED BY <1>1, <1>2, <1>3, <1>4, <1>5, <1>6, <1>7, <1>8, <1>9, <1>10

LEMMA BeforeFacts ==
    ASSUME sys \in DOMAIN Reads
    PROVE  /\ AvailableClasses \subseteq Classes
           /\ Before(1) = {}
           /\ \A k \in 1..Len(Reads[sys]) :
                Before(k + 1) = Before(k) \cup Reads[sys][k] /\ Before(k) \subseteq AvailableClasses
           /\ Before(Len(Reads[sys]) + 1) = AvailableClasses
<1>1. /\ Len(Reads[sys]) \in Nat /\ Len(Reads[sys]) >= 1
      /\ DOMAIN Reads[sys] = 1..Len(Reads[sys])
      /\ \A i \in 1..Len(Reads[sys]) : Reads[sys][i] \subseteq Classes
  BY ReadsFacts
<1>2. AvailableClasses \subseteq Classes
  BY <1>1 DEF AvailableClasses
<1>3. Before(1) = {}
  BY DEF Before
<1>4. ASSUME NEW k \in 1..Len(Reads[sys])
      PROVE  Before(k + 1) = Before(k) \cup Reads[sys][k] /\ Before(k) \subseteq AvailableClasses
  <2>1. 1..((k + 1) - 1) = 1..(k - 1) \cup {k} /\ 1..(k - 1) \subseteq 1..Len(Reads[sys])
    BY <1>1
  <2> QED BY <1>1, <2>1 DEF Before, AvailableClasses
<1>5. Before(Len(Reads[sys]) + 1) = AvailableClasses
  <2>1. 1..((Len(Reads[sys]) + 1) - 1) = 1..Len(Reads[sys])
    BY <1>1
  <2> QED BY <1>1, <2>1 DEF Before, AvailableClasses
<1> QED BY <1>2, <1>3, <1>4, <1>5

\* Linux before 3.14 counts three classes.
LEMMA LinuxClasses ==
    ASSUME sys \in {"linuxOld", "linuxOldest"}
    PROVE  AvailableClasses = {"free", "cache", "slab"}
<1>1. Reads[sys] = LinuxReads
  BY DEF Reads
<1>2. DOMAIN LinuxReads = {1, 2, 3} /\ LinuxReads[1] = {"free"} /\ LinuxReads[2] = {"cache"} /\ LinuxReads[3] = {"slab"}
  BY DEF LinuxReads
<1> QED BY <1>1, <1>2 DEF AvailableClasses

LEMMA Sizes == Total \in Nat /\ MaxMoves \in Nat /\ Watermark \in Nat
BY MemoryFiguresAssumption

\* Unsigned arithmetic near the range of the type.
LEMMA Wrapping ==
    ASSUME NEW x \in Int
    PROVE  /\ 0 <= x /\ x < 2^Width => Unsigned(x) = x
           /\ -(2^Width) <= x /\ x < 0 => Unsigned(x) = x + 2^Width
           /\ 2^Width <= x /\ x < 2 * 2^Width => Unsigned(x) = x - 2^Width
<1> DEFINE m == 2^Width
<1>1. m \in Nat
  BY MemoryFiguresAssumption
<1> HIDE DEF m
<1>2. /\ 0 <= x /\ x < m => x % m = x
      /\ -m <= x /\ x < 0 => x % m = x + m
      /\ m <= x /\ x < 2 * m => x % m = x - m
  BY <1>1
<1> QED BY <1>2 DEF m, Unsigned

-----------------------------------------------------------------------------
(* The steps *)

LEMMA MemoryInitHolds == MemoryInit => MemoryInv
<1> SUFFICES ASSUME MemoryInit PROVE MemoryInv
  OBVIOUS
<1>1. sys \in DOMAIN Reads
  BY MemoryFiguresAssumption DEF MemoryInit
<1>2. 1 \in 1..Len(Reads[sys])
  BY <1>1, ReadsFacts
<1>3. Unread \in [DOMAIN Unread -> Nat]
  BY DEF Unread
<1>4. pages \in [Classes -> Nat]
  BY MemoryFiguresAssumption DEF MemoryInit
<1>5. MemoryTyped
  BY <1>1, <1>2, <1>3, <1>4, MemoryFiguresAssumption DEF MemoryInit, MemoryTyped
<1> QED BY <1>5 DEF MemoryInit, MemoryInv, ReadSoFar, Drift, Answered

LEMMA PartialSum ==
    ASSUME NEW A \in SUBSET Classes, NEW f \in [Classes -> Nat]
    PROVE  PagesIn([c \in A |-> f[c]]) \in Nat /\ PagesIn([c \in A |-> f[c]]) <= PagesIn(f)
BY DEF PagesIn, Count, Classes

LEMMA SumTypes ==
    ASSUME MemoryTyped
    PROVE  PagesIn(Latest) \in Nat /\ TrulyAvailable \in Nat /\ TrulyAvailable <= Total
<1>1. AvailableClasses \subseteq Classes
  BY BeforeFacts DEF MemoryTyped
<1>2. /\ first \in [Classes -> Nat] /\ pages \in [Classes -> Nat] /\ seen \in [DOMAIN seen -> Nat]
      /\ PagesIn(first) = Total
  BY DEF MemoryTyped
<1>3. \A c \in AvailableClasses : Latest[c] \in Nat
  BY <1>1, <1>2 DEF Latest
<1>4. DOMAIN Latest = AvailableClasses
  BY DEF Latest
<1>5. PagesIn(Latest) \in Nat
  BY <1>3, <1>4 DEF PagesIn, Count
<1>6. TrulyAvailable \in Nat /\ TrulyAvailable <= PagesIn(first)
  BY <1>1, <1>2, PartialSum DEF TrulyAvailable
<1> QED BY <1>2, <1>5, <1>6

LEMMA StartReadingKeeps ==
    ASSUME MemoryInv, StartReading
    PROVE  MemoryInv'
<1> USE DEF MemoryInv
<1>1. /\ pc' = "reading" /\ next' = 1 /\ seen' = Unread /\ low' = -1
      /\ first' = pages /\ moved' = 0 /\ UNCHANGED <<sys, pages>>
  BY DEF StartReading
<1>2. Unread \in [DOMAIN Unread -> Nat] /\ DOMAIN Unread = {}
  BY DEF Unread
<1>3. 1 \in 1..Len(Reads[sys]) /\ Before(1) = {} /\ Before(1)' = {}
  BY <1>1, ReadsFacts, BeforeFacts DEF MemoryTyped, Before
<1>4. MemoryTyped'
  BY <1>1, <1>2, <1>3, MemoryFiguresAssumption DEF MemoryTyped
<1>5. ReadSoFar'
  BY <1>1, <1>2, <1>3 DEF ReadSoFar, Before
<1>6. (PagesIn(Latest) = TrulyAvailable /\ PagesIn(Latest) \in Int)'
  <2>1. DOMAIN seen' = {} /\ first' = pages'
    BY <1>1, <1>2
  <2>2. (AvailableClasses \subseteq Classes)'
    BY <1>1, BeforeFacts DEF MemoryTyped, AvailableClasses
  <2>3. Latest' = [c \in AvailableClasses' |-> first'[c]]
    BY <2>1 DEF Latest
  <2>4. (PagesIn(Latest) = TrulyAvailable)'
    BY <2>3 DEF TrulyAvailable
  <2>5. TrulyAvailable' \in Nat
    BY <1>4, <2>2, PartialSum DEF TrulyAvailable, MemoryTyped, Classes
  <2> QED BY <2>4, <2>5
<1>7. Drift' /\ Answered'
  BY <1>1, <1>6 DEF Drift, Answered
<1> QED BY <1>4, <1>5, <1>7

\* A counter that is read changes nothing in what is known: it is the latest.
LEMMA ReadCountersKeeps ==
    ASSUME MemoryInv, ReadCounters
    PROVE  MemoryInv'
<1> USE DEF MemoryInv
<1>1. /\ pc = "reading"
      /\ seen' = [c \in DOMAIN seen \cup Reads[sys][next] |-> IF c \in DOMAIN seen THEN seen[c] ELSE pages[c]]
      /\ first' = (IF next = 1 THEN pages ELSE first)
      /\ moved' = (IF next = 1 THEN 0 ELSE moved)
      /\ UNCHANGED <<sys, pages, low, stat>>
      /\ \/ next < Len(Reads[sys]) /\ next' = next + 1 /\ pc' = "reading"
         \/ /\ ~(next < Len(Reads[sys])) /\ next' = next
            /\ pc' = IF sys = "linuxOld" THEN "zoneinfo" ELSE "computing"
  BY DEF ReadCounters
<1>2. /\ Len(Reads[sys]) \in Nat /\ next \in 1..Len(Reads[sys]) /\ Reads[sys][next] \subseteq Classes
      /\ AvailableClasses \subseteq Classes /\ Before(1) = {}
      /\ Before(next + 1) = Before(next) \cup Reads[sys][next]
      /\ Before(next) \subseteq AvailableClasses
      /\ Before(Len(Reads[sys]) + 1) = AvailableClasses
  BY ReadsFacts, BeforeFacts DEF MemoryTyped
<1>3. DOMAIN seen = Before(next) /\ DOMAIN seen' = Before(next + 1)
  BY <1>1, <1>2 DEF ReadSoFar
<1>4. AvailableClasses' = AvailableClasses /\ Before(next)' = Before(next')
  BY <1>1 DEF AvailableClasses, Before
<1>5. MemoryTyped'
  <2>1. seen' \in [DOMAIN seen' -> Nat]
    BY <1>1, <1>2 DEF MemoryTyped
  <2>2. next' \in 1..Len(Reads[sys])
    BY <1>1, <1>2
  <2>3. first' \in [Classes -> Nat] /\ PagesIn(first') = Total
    BY <1>1 DEF MemoryTyped
  <2>4. moved' \in 0..MaxMoves
    BY <1>1, MemoryFiguresAssumption DEF MemoryTyped
  <2> QED BY <1>1, <2>1, <2>2, <2>3, <2>4 DEF MemoryTyped
<1>6. ReadSoFar'
  <2>1. pc' = "reading" => DOMAIN seen' = Before(next)'
    BY <1>1, <1>2, <1>3, <1>4
  <2>2. pc' # "reading" => next = Len(Reads[sys])
    BY <1>1, <1>2
  <2> QED BY <1>1, <1>2, <1>3, <1>4, <2>1, <2>2 DEF ReadSoFar
<1>7. Drift'
  <2>1. Latest' = Latest
    BY <1>1, <1>2, <1>3, <1>4 DEF Latest
  <2>2. CASE next = 1
    <3>1. Latest = [c \in AvailableClasses |-> pages[c]]
      BY <1>2, <1>3, <2>2 DEF Latest
    <3>2. TrulyAvailable' = PagesIn(Latest)'
      BY <1>1, <1>4, <2>1, <2>2, <3>1 DEF TrulyAvailable, PagesIn, Count
    <3>3. (PagesIn(Latest) \in Nat)'
      BY <2>1, SumTypes DEF PagesIn
    <3> QED BY <1>1, <2>2, <3>2, <3>3 DEF Drift
  <2>3. CASE next # 1
    <3>1. TrulyAvailable' = TrulyAvailable /\ PagesIn(Latest)' = PagesIn(Latest) /\ moved' = moved
      BY <1>1, <1>4, <2>1, <2>3 DEF TrulyAvailable, PagesIn, Count
    <3> QED BY <1>1, <3>1 DEF Drift
  <2> QED BY <2>2, <2>3
<1>8. Answered'
  BY <1>1 DEF Answered
<1> QED BY <1>5, <1>6, <1>7, <1>8

\* Steps that leave the counters and the pages alone.
LEMMA DriftKept ==
    ASSUME Drift, pc \in {"reading", "zoneinfo", "computing", "done"},
           UNCHANGED <<sys, pages, seen, first, moved>>
    PROVE  Drift'
<1>1. Latest' = Latest /\ TrulyAvailable' = TrulyAvailable
  BY DEF Latest, TrulyAvailable, AvailableClasses, PagesIn, Count
<1> QED BY <1>1 DEF Drift, PagesIn, Count

LEMMA OtherStepsKeep ==
    ASSUME MemoryInv, ReadFails \/ ReadZoneinfo \/ Compute
    PROVE  MemoryInv'
<1> USE DEF MemoryInv
<1>1. UNCHANGED <<sys, pages, next, seen, first, moved>>
  BY DEF ReadFails, ReadZoneinfo, Compute
<1>2. AvailableClasses' = AvailableClasses /\ Before(next)' = Before(next)
  BY <1>1 DEF AvailableClasses, Before
<1>3. PagesIn(pages)' = PagesIn(pages) /\ PagesIn(first)' = PagesIn(first)
  BY <1>1 DEF PagesIn, Count
<1>4. CASE ReadFails
  <2>1. pc' = "failed" /\ low' = low
    BY <1>4 DEF ReadFails
  <2> QED BY <1>1, <1>3, <2>1 DEF MemoryTyped, ReadSoFar, Drift, Answered
<1>5. CASE ReadZoneinfo
  <2>1. pc = "zoneinfo" /\ pc' = "computing" /\ low' \in {-1, Watermark}
    BY <1>5 DEF ReadZoneinfo
  <2>2. MemoryTyped' /\ Answered'
    BY <1>1, <1>3, <2>1 DEF MemoryTyped, Answered
  <2>3. ReadSoFar'
    BY <1>1, <1>2, <2>1 DEF ReadSoFar
  <2> QED BY <1>1, <2>1, <2>2, <2>3, DriftKept
<1>6. CASE Compute
  <2>1. pc = "computing" /\ pc' = "done" /\ low' = low
        /\ (Counts => stat' = [available |-> Available, used |-> Used(Available)])
    BY <1>6 DEF Compute, Figures
  <2>2. MemoryTyped'
    BY <1>1, <1>3, <2>1 DEF MemoryTyped
  <2>3. ReadSoFar'
    BY <1>1, <1>2, <2>1 DEF ReadSoFar
  <2>4. Available' = Available /\ Used(Available)' = Used(Available)
    BY <1>1, <2>1 DEF Available, Used, calculateAvailVmem, CachedPlusFree, SumOfSeen, Unsigned, PagesIn, Count
  <2>5. Answered'
    BY <1>1, <2>1, <2>4 DEF Answered, Counts
  <2> QED BY <1>1, <2>1, <2>2, <2>3, <2>5, DriftKept
<1> QED BY <1>4, <1>5, <1>6

\* The kernel moves a page: the sum of the classes counted, as far as they
\* are still to be read, changes by one at most.
LEMMA MoveKeeps ==
    ASSUME MemoryInv, NEW c \in Classes, NEW d \in Classes, Move(c, d)
    PROVE  MemoryInv'
<1> USE DEF MemoryInv
<1>1. /\ pc = "reading" /\ moved < MaxMoves /\ c # d /\ pages[c] > 0
      /\ pages' = [pages EXCEPT ![c] = @ - 1, ![d] = @ + 1]
      /\ moved' = moved + 1
      /\ UNCHANGED <<sys, pc, next, seen, low, first, stat>>
  BY DEF Move
<1>2. AvailableClasses' = AvailableClasses /\ Before(next)' = Before(next) /\ AvailableClasses \subseteq Classes
  BY <1>1, BeforeFacts DEF AvailableClasses, Before, MemoryTyped
<1>3. /\ pages \in [Classes -> Nat] /\ pages' \in [Classes -> Nat]
      /\ pages'[c] = pages[c] - 1 /\ pages'[d] = pages[d] + 1
      /\ \A x \in Classes \ {c, d} : pages'[x] = pages[x]
  BY <1>1 DEF MemoryTyped
<1>4. PagesIn(pages') = PagesIn(pages)
  BY <1>1, <1>3 DEF PagesIn, Count, Classes
<1>5. MemoryTyped'
  <2>1. moved' \in 0..MaxMoves
    <3>1. moved \in 0..MaxMoves
      BY DEF MemoryTyped
    <3> QED BY <1>1, <3>1, Sizes
  <2>2. PagesIn(first)' = PagesIn(first)
    BY <1>1 DEF PagesIn, Count
  <2> QED BY <1>1, <1>3, <1>4, <2>1, <2>2 DEF MemoryTyped
<1>6. ReadSoFar' /\ Answered'
  BY <1>1, <1>2 DEF ReadSoFar, Answered
<1>7. PagesIn(Latest)' <= PagesIn(Latest) + 1 /\ PagesIn(Latest) <= PagesIn(Latest)' + 1 /\ PagesIn(Latest)' \in Int
  <2>1. /\ DOMAIN Latest = AvailableClasses /\ DOMAIN Latest' = AvailableClasses
        /\ \A x \in AvailableClasses : Latest[x] \in Nat /\ Latest'[x] \in Nat
    BY <1>1, <1>2, <1>3 DEF Latest, MemoryTyped
  <2>2. \A x \in AvailableClasses : x \notin {c, d} => Latest'[x] = Latest[x]
    BY <1>1, <1>2, <1>3 DEF Latest
  <2>3. c \in AvailableClasses => Latest'[c] = Latest[c] \/ Latest'[c] = Latest[c] - 1
    BY <1>1, <1>2, <1>3 DEF Latest
  <2>4. d \in AvailableClasses => Latest'[d] = Latest[d] \/ Latest'[d] = Latest[d] + 1
    BY <1>1, <1>2, <1>3 DEF Latest
  <2> DEFINE old(x) == Count(Latest, x)
             new(x) == Count(Latest', x)
  <2>5. \A x \in Classes : old(x) \in Nat /\ new(x) \in Nat
    BY <2>1 DEF Count
  <2>6. \A x \in Classes : x \notin {c, d} => new(x) = old(x)
    BY <2>1, <2>2 DEF Count
  <2>7. new(c) = old(c) \/ new(c) = old(c) - 1
    BY <2>1, <2>3 DEF Count
  <2>8. new(d) = old(d) \/ new(d) = old(d) + 1
    BY <2>1, <2>4 DEF Count
  <2>9. /\ PagesIn(Latest) = old("free") + old("inactive") + old("cache") + old("slab") + old("used")
        /\ PagesIn(Latest)' = new("free") + new("inactive") + new("cache") + new("slab") + new("used")
    BY DEF PagesIn
  <2> HIDE DEF old, new
  <2>10. CASE c = "free"
    BY <1>1, <2>5, <2>6, <2>7, <2>8, <2>9, <2>10 DEF Classes
  <2>11. CASE c = "inactive"
    BY <1>1, <2>5, <2>6, <2>7, <2>8, <2>9, <2>11 DEF Classes
  <2>12. CASE c = "cache"
    BY <1>1, <2>5, <2>6, <2>7, <2>8, <2>9, <2>12 DEF Classes
  <2>13. CASE c = "slab"
    BY <1>1, <2>5, <2>6, <2>7, <2>8, <2>9, <2>13 DEF Classes
  <2>14. CASE c = "used"
    BY <1>1, <2>5, <2>6, <2>7, <2>8, <2>9, <2>14 DEF Classes
  <2> QED BY <2>10, <2>11, <2>12, <2>13, <2>14 DEF Classes
<1>8. TrulyAvailable' = TrulyAvailable
  BY <1>1, <1>2 DEF TrulyAvailable, PagesIn, Count
<1>9. Drift'
  <2>1. PagesIn(Latest) \in Nat /\ TrulyAvailable \in Nat /\ moved \in Int
    BY SumTypes, Sizes DEF MemoryTyped
  <2> QED BY <1>1, <1>7, <1>8, <2>1 DEF Drift
<1> QED BY <1>5, <1>6, <1>9

LEMMA MemoryStutterKeeps ==
    ASSUME MemoryInv, UNCHANGED memoryVars
    PROVE  MemoryInv'
<1>1. UNCHANGED <<sys, pages, pc, next, seen, low, first, moved, stat>>
  BY DEF memoryVars
<1>2. /\ MemoryTyped' /\ ReadSoFar'
  BY <1>1 DEF MemoryInv, MemoryTyped, ReadSoFar, PagesIn, Count, Before, AvailableClasses
<1>3. Drift'
  BY <1>1 DEF MemoryInv, Drift, Latest, TrulyAvailable, AvailableClasses, PagesIn, Count
<1>4. Answered'
  BY <1>1 DEF MemoryInv, Answered, Counts, Available, Used, calculateAvailVmem, CachedPlusFree, SumOfSeen, Unsigned,
              PagesIn, Count
<1> QED BY <1>2, <1>3, <1>4 DEF MemoryInv

LEMMA MemoryInvariance == MemorySpec => []MemoryInv
<1>1. MemoryInv /\ [MemoryNext]_memoryVars => MemoryInv'
  BY StartReadingKeeps, ReadCountersKeeps, OtherStepsKeep, MoveKeeps, MemoryStutterKeeps DEF MemoryNext
<1> QED BY <1>1, MemoryInitHolds, PTL DEF MemorySpec

-----------------------------------------------------------------------------
\* The sum of what was read, when all of it has been.
LEMMA SumRead ==
    ASSUME MemoryInv, pc = "done"
    PROVE  /\ PagesIn(seen) \in Nat /\ moved \in Nat /\ moved <= MaxMoves
           /\ TrulyAvailable \in Nat /\ TrulyAvailable <= Total
           /\ PagesIn(seen) <= TrulyAvailable + moved
           /\ TrulyAvailable <= PagesIn(seen) + moved
<1>1. Latest = seen
  BY DEF MemoryInv, MemoryTyped, ReadSoFar, Latest
<1>2. PagesIn(Latest) \in Nat /\ TrulyAvailable \in Nat /\ TrulyAvailable <= Total
  BY SumTypes DEF MemoryInv
<1>3. moved \in Nat /\ moved <= MaxMoves
  BY Sizes DEF MemoryInv, MemoryTyped
<1> QED BY <1>1, <1>2, <1>3 DEF MemoryInv, Drift

\* Where no watermark is involved, what is available is what was read.
LEMMA PlainSum ==
    ASSUME MemoryInv, pc = "done", Plain
    PROVE  Available = Unsigned(PagesIn(seen))
<1>1. CASE sys \in {"linuxOld", "linuxOldest"}
  <2>1. DOMAIN seen = {"free", "cache", "slab"} /\ seen \in [DOMAIN seen -> Nat]
    BY <1>1, LinuxClasses DEF MemoryInv, ReadSoFar, MemoryTyped
  <2>2. PagesIn(seen) = (seen["cache"] + seen["slab"]) + seen["free"]
    BY <2>1 DEF PagesIn, Count
  <2>3. Available = CachedPlusFree
    BY <1>1 DEF Available, calculateAvailVmem, Plain
  <2> QED BY <2>2, <2>3 DEF CachedPlusFree
<1>2. CASE sys \notin {"linuxOld", "linuxOldest"}
  BY <1>2 DEF Available, SumOfSeen
<1> QED BY <1>1, <1>2

\* The sum does not wrap.
LEMMA PlainFigure ==
    ASSUME MemoryInv, pc = "done", Plain, Counts
    PROVE  stat.available = PagesIn(seen) /\ stat.used = Unsigned(Total - PagesIn(seen))
<1>1. PagesIn(seen) \in Nat /\ PagesIn(seen) < 2^Width
  BY SumRead, MemoryFiguresAssumption
<1>2. Available = PagesIn(seen)
  BY <1>1, PlainSum, Wrapping
<1> QED BY <1>2 DEF MemoryInv, Answered, Used

\* However many pages the machine has and the kernel moves between the reads,
\* Available is off by no more than what moved, on every system that fills
\* it in.
THEOREM AvailableAlwaysNear == MemorySpec => []AvailableNear
<1>1. MemoryInv => AvailableNear
  BY SumRead, PlainFigure DEF AvailableNear
<1> QED BY <1>1, MemoryInvariance, PTL

\* Used is off by no more than what moved, and wraps only when fewer pages
\* were in use than moved.
THEOREM UsedAlwaysNear == MemorySpec => []UsedNear
<1>1. ASSUME MemoryInv PROVE UsedNear
  <2> SUFFICES ASSUME pc = "done", Plain, Counts, Total - TrulyAvailable >= moved
               PROVE  /\ stat.used <= Total
                      /\ stat.used <= (Total - TrulyAvailable) + moved
                      /\ stat.used >= (Total - TrulyAvailable) - moved
    BY <1>1, SumRead, Sizes DEF UsedNear
  <2>1. /\ PagesIn(seen) \in Nat /\ moved \in Nat /\ TrulyAvailable \in Nat
        /\ PagesIn(seen) <= TrulyAvailable + moved
        /\ TrulyAvailable <= PagesIn(seen) + moved
    BY <1>1, SumRead
  <2>2. Total - PagesIn(seen) \in Int /\ 0 <= Total - PagesIn(seen) /\ Total - PagesIn(seen) < 2^Width
    BY <2>1, MemoryFiguresAssumption
  <2>3. stat.used = Total - PagesIn(seen)
    BY <1>1, <2>2, PlainFigure, Wrapping
  <2> QED BY <2>1, <2>3, Sizes
<1> QED BY <1>1, MemoryInvariance, PTL

\* What wraps on the way when free memory is below the watermark is mended
\* by the sums that follow, unless the figure itself is negative.
THEOREM WatermarkAlwaysExact == MemorySpec => []WatermarkExact
<1>1. ASSUME MemoryInv, pc = "done", ~Plain, AboveWatermark >= 0 PROVE stat.available = AboveWatermark
  <2>1. sys = "linuxOld" /\ low = Watermark /\ low # -1
    BY <1>1, Sizes DEF Plain, MemoryInv, MemoryTyped
  <2>2. DOMAIN seen = {"free", "cache", "slab"} /\ seen \in [DOMAIN seen -> Nat]
    BY <1>1, <2>1, LinuxClasses DEF MemoryInv, ReadSoFar, MemoryTyped
  <2> DEFINE F == seen["free"]
             C == seen["cache"]
             S == seen["slab"]
             pageCache == C - Minimum(C \div 2, low)
             slab == S - Minimum(S \div 2, low)
             m == 2^Width
  <2>3. F \in Nat /\ C \in Nat /\ S \in Nat /\ PagesIn(seen) = F + C + S
    BY <2>2 DEF PagesIn, Count
  <2>4. low \in Nat /\ pageCache \in Nat /\ pageCache <= C /\ slab \in Nat /\ slab <= S
    BY <2>1, <2>3, Sizes DEF Minimum
  <2>5. m \in Nat /\ F + C + S + low < m
    BY <1>1, <2>1, <2>3, SumRead, MemoryFiguresAssumption
  <2>6. Available = Unsigned(Unsigned(Unsigned(F - low) + pageCache) + slab)
    BY <2>1 DEF Available, calculateAvailVmem
  <2>7. AboveWatermark = F - low + pageCache + slab
    BY DEF AboveWatermark
  <2> HIDE DEF F, C, S, pageCache, slab
  <2>8. Unsigned(F - low) = IF F - low < 0 THEN F - low + m ELSE F - low
    BY <2>3, <2>4, <2>5, Wrapping
  <2>9. Unsigned(Unsigned(F - low) + pageCache) =
          IF F - low + pageCache < 0 THEN F - low + pageCache + m ELSE F - low + pageCache
    <3>1. CASE F - low < 0
      BY <3>1, <2>3, <2>4, <2>5, <2>8, Wrapping
    <3>2. CASE F - low >= 0
      BY <3>2, <2>3, <2>4, <2>5, <2>8, Wrapping
    <3> QED BY <3>1, <3>2, <2>3, <2>4
  <2>10. Available = F - low + pageCache + slab
    <3>1. 0 <= F - low + pageCache + slab
      BY <1>1, <2>7
    <3>2. CASE F - low + pageCache < 0
      BY <3>1, <3>2, <2>3, <2>4, <2>5, <2>6, <2>9, Wrapping
    <3>3. CASE F - low + pageCache >= 0
      BY <3>1, <3>3, <2>3, <2>4, <2>5, <2>6, <2>9, Wrapping
    <3> QED BY <3>2, <3>3, <2>3, <2>4
  <2> QED BY <1>1, <2>1, <2>7, <2>10 DEF MemoryInv, Answered, Counts
<1>2. MemoryInv => WatermarkExact
  BY <1>1 DEF WatermarkExact
<1> QED BY <1>2, MemoryInvariance, PTL
=============================================================================
