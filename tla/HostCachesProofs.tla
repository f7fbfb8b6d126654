-------------------------- MODULE HostCachesProofs --------------------------
(***************************************************************************)
(* For any goroutines, roots and evidence: VirtualizationWithContext tells *)
(* containers from hosts, what it found is stored once, and the two caches *)
(* hand every call the boot time of the right source.                      *)
(***************************************************************************)
EXTENDS HostCaches, FiniteSetTheorems, TLAPS

(* VirtualizationWithContext on the evidence. *)

\* What a rule makes of what was found before.
Said(rule, v) == [system |-> Override(v.system, rule.system), role |-> Override(v.role, rule.role)]

\* The first mark of a stage that is there decides.
LEMMA FirstDecides ==
    ASSUME NEW stage, NEW there, NEW v, Len(stage) \in Nat,
           NEW i \in 1..Len(stage), stage[i].mark \in there,
           \A j \in 1..Len(stage) : stage[j].mark \in there => i <= j
    PROVE  Apply(stage, there, v) = Said(stage[i], v)
  <1> DEFINE hits == {k \in 1..Len(stage) : stage[k].mark \in there}
             least == CHOOSE k \in hits : \A j \in hits : k <= j
  <1>1. i \in hits /\ \A j \in hits : i <= j
    OBVIOUS
  <1>2. least \in hits /\ \A j \in hits : least <= j
    BY <1>1
  <1>3. least = i
    BY <1>1, <1>2
  <1>4. hits # {}
    BY <1>1
  <1>5. Apply(stage, there, v) = Said(stage[least], v)
    BY <1>4 DEF Apply, Said
  <1>6. QED
    BY <1>3, <1>5

\* A stage without a mark that is there changes nothing.
LEMMA SilentStage ==
    ASSUME NEW stage, NEW there, NEW v, \A j \in 1..Len(stage) : stage[j].mark \notin there
    PROVE  Apply(stage, there, v) = v
  BY DEF Apply

\* The stages one after another.
After(n, there, v) == Apply(Stages[n], there, v)

LEMMA DetectUnrolled ==
    ASSUME NEW there
    PROVE  Detect(there) = After(10, there, After(9, there, After(8, there, After(7, there,
               After(6, there, After(5, there, After(4, there, After(3, there, After(2, there,
               After(1, there, [system |-> "", role |-> ""]))))))))))
  <1> DEFINE a0 == [system |-> "", role |-> ""]
             a1 == After(1, there, a0)
             a2 == After(2, there, a1)
             a3 == After(3, there, a2)
             a4 == After(4, there, a3)
             a5 == After(5, there, a4)
             a6 == After(6, there, a5)
             a7 == After(7, there, a6)
             a8 == After(8, there, a7)
             a9 == After(9, there, a8)
             a10 == After(10, there, a9)
             f == [n \in 0..10 |-> IF n = 0 THEN a0 ELSE <<a1, a2, a3, a4, a5, a6, a7, a8, a9, a10>>[n]]
             Body(g) == [n \in 0..Len(Stages) |-> IF n = 0 THEN [system |-> "", role |-> ""]
                            ELSE Apply(Stages[n], there, g[n - 1])]
             after == CHOOSE g : g = Body(g)
  <1>1. Len(Stages) = 10
    BY DEF Stages
  <1>2. /\ a1 = Apply(Stages[1], there, a0) /\ a2 = Apply(Stages[2], there, a1)
        /\ a3 = Apply(Stages[3], there, a2) /\ a4 = Apply(Stages[4], there, a3)
        /\ a5 = Apply(Stages[5], there, a4) /\ a6 = Apply(Stages[6], there, a5)
        /\ a7 = Apply(Stages[7], there, a6) /\ a8 = Apply(Stages[8], there, a7)
        /\ a9 = Apply(Stages[9], there, a8) /\ a10 = Apply(Stages[10], there, a9)
    BY DEF After
  <1>3. Detect(there) = after[10]
    BY <1>1 DEF Detect
  <1>4. QED
    <2> DEFINE next(n, g) == Apply(Stages[n], there, g[n - 1])
    <2>1. Body(f) = [n \in 0..10 |-> IF n = 0 THEN a0 ELSE next(n, f)]
      BY <1>1
    <2>2. \A g : Body(g) = [n \in 0..10 |-> IF n = 0 THEN a0 ELSE next(n, g)]
      BY <1>1
    <2> HIDE DEF a0, a1, a2, a3, a4, a5, a6, a7, a8, a9, a10, after, Body
    <2>3. /\ f[0] = a0 /\ f[1] = a1 /\ f[2] = a2 /\ f[3] = a3 /\ f[4] = a4 /\ f[5] = a5
          /\ f[6] = a6 /\ f[7] = a7 /\ f[8] = a8 /\ f[9] = a9 /\ f[10] = a10
      OBVIOUS
    <2>4. /\ next(1, f) = a1 /\ next(2, f) = a2 /\ next(3, f) = a3 /\ next(4, f) = a4
          /\ next(5, f) = a5 /\ next(6, f) = a6 /\ next(7, f) = a7 /\ next(8, f) = a8
          /\ next(9, f) = a9 /\ next(10, f) = a10
      <3> HIDE DEF f
      <3> QED BY <1>2, <2>3
    <2>5. ASSUME NEW n \in 0..10 PROVE f[n] = IF n = 0 THEN a0 ELSE next(n, f)
      <3> HIDE DEF f, next
      <3>1. n \in {0, 1, 2, 3, 4, 5, 6, 7, 8, 9, 10}
        OBVIOUS
      <3>2. QED
        BY <2>3, <2>4, <3>1
    <2>6. f = Body(f)
      <3> HIDE DEF next
      <3> QED BY <2>1, <2>5
    <2>7. after = Body(after)
      <3> HIDE DEF f
      <3> QED BY <2>6 DEF after
    <2>8. after[0] = a0 /\ \A n \in 1..10 : after[n] = next(n, after)
      <3> HIDE DEF next
      <3> QED BY <2>2, <2>7
    <2>9. after[1] = a1 /\ after[2] = a2 /\ after[3] = a3
      BY <1>2, <2>8
    <2>10. after[4] = a4 /\ after[5] = a5 /\ after[6] = a6
      BY <1>2, <2>8, <2>9
    <2>11. after[7] = a7 /\ after[8] = a8 /\ after[9] = a9
      BY <1>2, <2>8, <2>10
    <2>12. after[10] = a10
      BY <1>2, <2>8, <2>11
    <2>13. QED
      BY <1>3, <2>12 DEF a0, a1, a2, a3, a4, a5, a6, a7, a8, a9, a10

\* A stage says what its rules say.
LEMMA StageSays ==
    ASSUME NEW stage, NEW there, NEW S, NEW R, Len(stage) \in 1..5,
           \A i \in 1..Len(stage) :
               stage[i].system \in S \cup {Keep} /\ stage[i].role \in R \cup {Keep},
           NEW v \in [system : S, role : R]
    PROVE  Apply(stage, there, v) \in [system : S, role : R]
  <1> DEFINE hits == {k \in 1..Len(stage) : stage[k].mark \in there}
             least == CHOOSE k \in hits : \A j \in hits : k <= j
  <1>1. CASE hits = {}
    BY <1>1, SilentStage
  <1>2. CASE hits # {}
    <2>1. PICK m \in hits : \A j \in hits : m <= j
      <3>1. hits \subseteq {1, 2, 3, 4, 5}
        OBVIOUS
      <3> HIDE DEF hits
      <3>2. CASE 1 \in hits
        BY <3>1, <3>2
      <3>3. CASE 1 \notin hits /\ 2 \in hits
        BY <3>1, <3>3
      <3>4. CASE 1 \notin hits /\ 2 \notin hits /\ 3 \in hits
        BY <3>1, <3>4
      <3>5. CASE 1 \notin hits /\ 2 \notin hits /\ 3 \notin hits /\ 4 \in hits
        BY <3>1, <3>5
      <3>6. CASE hits = {5}
        BY <3>6
      <3>7. QED
        BY <1>2, <3>1, <3>2, <3>3, <3>4, <3>5, <3>6
    <2>2. Apply(stage, there, v) = Said(stage[m], v)
      BY <2>1, FirstDecides
    <2>3. QED
      BY <2>2 DEF Said, Override
  <1>3. QED
    BY <1>1, <1>2

Ordinary == {"", "xen", "kvm", "hyperv", "vbox", "vmware", "openvz", "linux-vserver"}
Roles == {"", "host", "guest"}

\* The first six stages never find a container.
LEMMA OrdinaryStages ==
    ASSUME NEW there, NEW n \in 1..6, NEW v \in [system : Ordinary, role : Roles]
    PROVE  After(n, there, v) \in [system : Ordinary, role : Roles]
  <1> DEFINE fits(rule) == rule.system \in Ordinary \cup {Keep} /\ rule.role \in Roles \cup {Keep}
             allFit(stage) == Len(stage) \in 1..5 /\ \A i \in 1..Len(stage) : fits(stage[i])
  <1>1. allFit(Stages[1])
    <2>1. Stages[1] = << Says("control_d", "xen", "host"), Says("xen", "xen", "guest") >>
      BY DEF Stages
    <2>2. fits(Says("control_d", "xen", "host")) /\ fits(Says("xen", "xen", "guest"))
      BY DEF Says, Ordinary, Roles
    <2> HIDE DEF fits
    <2>3. QED
      BY <2>1, <2>2
  <1>2. allFit(Stages[2])
    <2>1. Len(Stages[2]) = 5
      BY DEF Stages
    <2>2. fits(Stages[2][1]) /\ fits(Stages[2][2]) /\ fits(Stages[2][3])
      BY DEF Stages, Says, Ordinary, Roles
    <2>3. fits(Stages[2][4]) /\ fits(Stages[2][5])
      BY DEF Stages, Says, Ordinary, Roles
    <2> HIDE DEF fits
    <2>4. \A i \in 1..5 : i \in {1, 2, 3, 4, 5}
      OBVIOUS
    <2>5. QED
      BY <2>1, <2>2, <2>3, <2>4
  <1>3. allFit(Stages[3]) /\ allFit(Stages[4])
    <2>1. Stages[3] = << Says("qemu", "kvm", "guest") >> /\ Stages[4] = << Says("virtio", Keep, "guest") >>
      BY DEF Stages
    <2>2. fits(Says("qemu", "kvm", "guest")) /\ fits(Says("virtio", Keep, "guest"))
      BY DEF Says, Ordinary, Roles
    <2> HIDE DEF fits
    <2>3. QED
      BY <2>1, <2>2
  <1>4. allFit(Stages[5])
    <2>1. Stages[5] = << Says("bc0", "openvz", "host"), Says("vz", "openvz", "guest") >>
      BY DEF Stages
    <2>2. fits(Says("bc0", "openvz", "host")) /\ fits(Says("vz", "openvz", "guest"))
      BY DEF Says, Ordinary, Roles
    <2> HIDE DEF fits
    <2>3. QED
      BY <2>1, <2>2
  <1>5. allFit(Stages[6])
    <2>1. Stages[6] = << Says("vserver", "linux-vserver", Keep) >>
      BY DEF Stages
    <2>2. fits(Says("vserver", "linux-vserver", Keep))
      BY DEF Says, Ordinary, Roles
    <2> HIDE DEF fits
    <2>3. QED
      BY <2>1, <2>2
  <1>6. ASSUME NEW stage, allFit(stage)
        PROVE  Apply(stage, there, v) \in [system : Ordinary, role : Roles]
    BY <1>6, StageSays
  <1> HIDE DEF allFit
  <1>7. n \in {1, 2, 3, 4, 5, 6}
    OBVIOUS
  <1>8. QED
    BY <1>1, <1>2, <1>3, <1>4, <1>5, <1>6, <1>7 DEF After

\* A stage with one rule.
LEMMA SingleStage ==
    ASSUME NEW stage, NEW there, NEW v, NEW mark, NEW system, NEW role, Len(stage) = 1,
           stage[1] = Says(mark, system, role), system # Keep, role # Keep
    PROVE  Apply(stage, there, v) = IF mark \in there THEN [system |-> system, role |-> role] ELSE v
  <1>1. stage[1].mark = mark /\ stage[1].system = system /\ stage[1].role = role
    BY DEF Says
  <1>2. CASE mark \in there
    <2>1. Apply(stage, there, v) = Said(stage[1], v)
      BY <1>1, <1>2, FirstDecides
    <2>2. QED
      BY <1>1, <1>2, <2>1 DEF Said, Override
  <1>3. CASE mark \notin there
    BY <1>1, <1>3, SilentStage
  <1>4. QED
    BY <1>2, <1>3

\* What the last four stages find.
LEMMA ContainerStages ==
    ASSUME NEW there, NEW v
    PROVE  /\ After(7, there, v) = IF "environ-lxc" \in there
                                   THEN [system |-> "lxc", role |-> "guest"] ELSE v
           /\ After(8, there, v) =
                 IF "cgroup-lxc" \in there THEN [system |-> "lxc", role |-> "guest"]
                 ELSE IF "cgroup-docker" \in there THEN [system |-> "docker", role |-> "guest"]
                 ELSE IF "cgroup-rkt" \in there THEN [system |-> "rkt", role |-> "guest"]
                 ELSE IF "lxc-version" \in there THEN [system |-> "lxc", role |-> "host"] ELSE v
           /\ After(9, there, v) = IF "coreos" \in there
                                   THEN [system |-> "rkt", role |-> "host"] ELSE v
           /\ After(10, there, v) = IF "dockerenv" \in there
                                    THEN [system |-> "docker", role |-> "guest"] ELSE v
  <1>1. /\ Len(Stages[7]) = 1 /\ Stages[7][1] = Says("environ-lxc", "lxc", "guest")
        /\ Len(Stages[9]) = 1 /\ Stages[9][1] = Says("coreos", "rkt", "host")
        /\ Len(Stages[10]) = 1 /\ Stages[10][1] = Says("dockerenv", "docker", "guest")
    BY DEF Stages
  <1>2. "lxc" # Keep /\ "docker" # Keep /\ "rkt" # Keep /\ "host" # Keep /\ "guest" # Keep
    BY DEF Keep
  <1>3. After(7, there, v) = IF "environ-lxc" \in there
                             THEN [system |-> "lxc", role |-> "guest"] ELSE v
    BY <1>1, <1>2, SingleStage DEF After
  <1>4. After(9, there, v) = IF "coreos" \in there
                             THEN [system |-> "rkt", role |-> "host"] ELSE v
    BY <1>1, <1>2, SingleStage DEF After
  <1>5. After(10, there, v) = IF "dockerenv" \in there
                              THEN [system |-> "docker", role |-> "guest"] ELSE v
    BY <1>1, <1>2, SingleStage DEF After
  <1>6. After(8, there, v) =
            IF "cgroup-lxc" \in there THEN [system |-> "lxc", role |-> "guest"]
            ELSE IF "cgroup-docker" \in there THEN [system |-> "docker", role |-> "guest"]
            ELSE IF "cgroup-rkt" \in there THEN [system |-> "rkt", role |-> "guest"]
            ELSE IF "lxc-version" \in there THEN [system |-> "lxc", role |-> "host"] ELSE v
    <2> DEFINE stage == Stages[8]
    <2>1. Len(stage) = 4
      BY DEF Stages
    <2>2. stage[1] = Says("cgroup-lxc", "lxc", "guest") /\ stage[2] = Says("cgroup-docker", "docker", "guest")
      BY DEF Stages
    <2>3. stage[3] = Says("cgroup-rkt", "rkt", "guest") /\ stage[4] = Says("lxc-version", "lxc", "host")
      BY DEF Stages
    <2>4. After(8, there, v) = Apply(stage, there, v)
      BY DEF After
    <2> HIDE DEF stage
    <2>5. /\ stage[1].mark = "cgroup-lxc" /\ stage[2].mark = "cgroup-docker"
          /\ stage[3].mark = "cgroup-rkt" /\ stage[4].mark = "lxc-version"
      BY <2>2, <2>3 DEF Says
    <2>6. /\ Said(stage[1], v) = [system |-> "lxc", role |-> "guest"]
          /\ Said(stage[2], v) = [system |-> "docker", role |-> "guest"]
          /\ Said(stage[3], v) = [system |-> "rkt", role |-> "guest"]
          /\ Said(stage[4], v) = [system |-> "lxc", role |-> "host"]
      BY <1>2, <2>2, <2>3 DEF Says, Said, Override
    <2>7. CASE "cgroup-lxc" \in there
      <3>1. Apply(stage, there, v) = Said(stage[1], v)
        BY <2>1, <2>5, <2>7, FirstDecides
      <3>2. QED
        BY <2>4, <2>6, <2>7, <3>1
    <2>8. CASE "cgroup-lxc" \notin there /\ "cgroup-docker" \in there
      <3>1. Apply(stage, there, v) = Said(stage[2], v)
        BY <2>1, <2>5, <2>8, FirstDecides
      <3>2. QED
        BY <2>4, <2>6, <2>8, <3>1
    <2>9. CASE "cgroup-lxc" \notin there /\ "cgroup-docker" \notin there /\ "cgroup-rkt" \in there
      <3>1. Apply(stage, there, v) = Said(stage[3], v)
        BY <2>1, <2>5, <2>9, FirstDecides
      <3>2. QED
        BY <2>4, <2>6, <2>9, <3>1
    <2>10. CASE /\ "cgroup-lxc" \notin there /\ "cgroup-docker" \notin there
                /\ "cgroup-rkt" \notin there /\ "lxc-version" \in there
      <3>1. Apply(stage, there, v) = Said(stage[4], v)
        BY <2>1, <2>5, <2>10, FirstDecides
      <3>2. QED
        BY <2>4, <2>6, <2>10, <3>1
    <2>11. CASE there \cap {"cgroup-lxc", "cgroup-docker", "cgroup-rkt", "lxc-version"} = {}
      <3>1. Apply(stage, there, v) = v
        BY <2>1, <2>5, <2>11, SilentStage
      <3>2. QED
        BY <2>4, <2>11, <3>1
    <2>12. QED
      BY <2>7, <2>8, <2>9, <2>10, <2>11
  <1>7. QED
    BY <1>3, <1>4, <1>5, <1>6

\* What VirtualizationWithContext makes of the evidence: one of its systems and roles, and
\* an lxc or docker guest exactly in a container.
THEOREM DetectionRight ==
    ASSUME NEW there
    PROVE  Detect(there) \in Virts /\ (UsesUptime(Detect(there)) <=> InContainer(there))
  <1> DEFINE a0 == [system |-> "", role |-> ""]
             a1 == After(1, there, a0)
             a2 == After(2, there, a1)
             a3 == After(3, there, a2)
             a4 == After(4, there, a3)
             a5 == After(5, there, a4)
             a6 == After(6, there, a5)
  <1>1. a6 \in [system : Ordinary, role : Roles]
    <2>1. a0 \in [system : Ordinary, role : Roles]
      BY DEF Ordinary, Roles
    <2> HIDE DEF a0, a1, a2, a3, a4, a5, a6
    <2>2. a1 \in [system : Ordinary, role : Roles]
      BY <2>1, OrdinaryStages DEF a1
    <2>3. a2 \in [system : Ordinary, role : Roles]
      BY <2>2, OrdinaryStages DEF a2
    <2>4. a3 \in [system : Ordinary, role : Roles]
      BY <2>3, OrdinaryStages DEF a3
    <2>5. a4 \in [system : Ordinary, role : Roles]
      BY <2>4, OrdinaryStages DEF a4
    <2>6. a5 \in [system : Ordinary, role : Roles]
      BY <2>5, OrdinaryStages DEF a5
    <2>7. QED
      BY <2>6, OrdinaryStages DEF a6
  <1>2. Detect(there) = After(10, there, After(9, there, After(8, there, After(7, there, a6))))
    BY DetectUnrolled
  <1> HIDE DEF a6
  <1>3. Detect(there) =
            IF "dockerenv" \in there THEN [system |-> "docker", role |-> "guest"]
            ELSE IF "coreos" \in there THEN [system |-> "rkt", role |-> "host"]
            ELSE IF "cgroup-lxc" \in there THEN [system |-> "lxc", role |-> "guest"]
            ELSE IF "cgroup-docker" \in there THEN [system |-> "docker", role |-> "guest"]
            ELSE IF "cgroup-rkt" \in there THEN [system |-> "rkt", role |-> "guest"]
            ELSE IF "lxc-version" \in there THEN [system |-> "lxc", role |-> "host"]
            ELSE IF "environ-lxc" \in there THEN [system |-> "lxc", role |-> "guest"] ELSE a6
    <2> DEFINE a7 == After(7, there, a6)
               a8 == After(8, there, a7)
               a9 == After(9, there, a8)
    <2>1. Detect(there) = After(10, there, a9)
      BY <1>2
    <2>2. /\ a7 = IF "environ-lxc" \in there THEN [system |-> "lxc", role |-> "guest"] ELSE a6
          /\ a8 = IF "cgroup-lxc" \in there THEN [system |-> "lxc", role |-> "guest"]
                 ELSE IF "cgroup-docker" \in there THEN [system |-> "docker", role |-> "guest"]
                 ELSE IF "cgroup-rkt" \in there THEN [system |-> "rkt", role |-> "guest"]
                 ELSE IF "lxc-version" \in there THEN [system |-> "lxc", role |-> "host"] ELSE a7
          /\ a9 = IF "coreos" \in there THEN [system |-> "rkt", role |-> "host"] ELSE a8
      BY ContainerStages
    <2> HIDE DEF a7, a8, a9
    <2>3. After(10, there, a9) = IF "dockerenv" \in there
                                 THEN [system |-> "docker", role |-> "guest"] ELSE a9
      BY ContainerStages
    <2>4. QED
      BY <2>1, <2>2, <2>3
  <1>4. Detect(there) \in Virts
    <2>1. a6 \in Virts
      BY <1>1 DEF Virts, Ordinary, Roles
    <2>2. /\ [system |-> "docker", role |-> "guest"] \in Virts
          /\ [system |-> "rkt", role |-> "host"] \in Virts
          /\ [system |-> "lxc", role |-> "guest"] \in Virts
          /\ [system |-> "rkt", role |-> "guest"] \in Virts
          /\ [system |-> "lxc", role |-> "host"] \in Virts
      BY DEF Virts
    <2>3. QED
      BY <1>3, <2>1, <2>2
  <1>5. UsesUptime(a6) = FALSE
    BY <1>1 DEF UsesUptime, Ordinary
  <1>6. UsesUptime(Detect(there)) <=> InContainer(there)
    BY <1>3, <1>5 DEF UsesUptime, InContainer
  <1>7. QED
    BY <1>4, <1>6

-----------------------------------------------------------------------------
(* The inductive invariant *)

\* Nothing is stored before the once is done, and only the one that entered
\* the once is about to store.
Storing ==
    /\ once # "done" => virt = NoVirt
    /\ \A c \in Callers : pc[c] = "lock" => once = "busy" /\ writer = c

\* A call in progress has been counted.
Counted ==
    /\ IsFiniteSet(used)
    /\ \A c \in Callers : pc[c] # "idle" => root[c] \in used

\* What the caches and the calls hold while all calls mean the root r and
\* every file can be read.
Right(r) ==
    used \subseteq {r} /\ ~degraded =>
        /\ virt # NoVirt => virt = Detect(marks[r])
        /\ boot # 0 => boot = OwnBoot(r)
        /\ \A c \in Callers :
              /\ pc[c] \in {"once", "lock", "source"} => found[c] = Detect(marks[r])
              /\ pc[c] \in {"store", "done"} => answer[c] = OwnBoot(r)

AllRight == \A r \in Roots : Right(r)

Inv == TypeOK /\ Storing /\ Counted /\ AllRight

USE ConstantsAssumption DEF vars, cacheVars, callVars, Goto

\* A call is given one of the roots.
LEMMA RootType == ASSUME NEW r \in Roots \cup {Unset} PROVE GetEnvWithContext(r) \in Roots
  BY DEF GetEnvWithContext

\* The boot times a call can read.
LEMMA BootType == ASSUME NEW r \in Roots
                  PROVE  StatBoot[r] \in BootTimes /\ UptimeBoot[r] \in BootTimes /\ SysinfoBoot \in BootTimes
  BY DEF BootTimes

LEMMA InitInv == Init => Inv
  <1> SUFFICES ASSUME Init PROVE Inv
    OBVIOUS
  <1>1. TypeOK
    BY DEF Init, TypeOK, Virts
  <1>2. Counted
    <2>1. IsFiniteSet({})
      BY FS_EmptySet
    <2>2. QED
      BY <2>1 DEF Init, Counted
  <1>3. Storing /\ AllRight
    BY DEF Init, Storing, AllRight, Right
  <1>4. QED
    BY <1>1, <1>2, <1>3 DEF Inv

LEMMA TypeStep == TypeOK /\ [Next]_vars => TypeOK'
  <1> SUFFICES ASSUME TypeOK, [Next]_vars PROVE TypeOK'
    OBVIOUS
  <1> USE DEF TypeOK
  <1>1. ASSUME NEW c \in Callers, NEW r \in Roots \cup {Unset}, NEW enable \in BOOLEAN, Call(c, r, enable)
        PROVE  TypeOK'
    BY <1>1, RootType DEF Call
  <1>2. ASSUME NEW c \in Callers, LoadBoot(c) PROVE TypeOK'
    BY <1>2 DEF LoadBoot, Answer
  <1>3. ASSUME NEW c \in Callers, VirtRLock(c) PROVE TypeOK'
    BY <1>3 DEF VirtRLock
  <1>4. ASSUME NEW c \in Callers, VirtCheck(c) PROVE TypeOK'
    BY <1>4 DEF VirtCheck
  <1>5. ASSUME NEW c \in Callers, VirtDetect(c) PROVE TypeOK'
    BY <1>5, DetectionRight DEF VirtDetect
  <1>6. ASSUME NEW c \in Callers, VirtOnce(c) PROVE TypeOK'
    BY <1>6 DEF VirtOnce
  <1>7. ASSUME NEW c \in Callers, VirtStore(c) PROVE TypeOK'
    BY <1>7 DEF VirtStore
  <1>8. ASSUME NEW c \in Callers, ReadBoot(c) PROVE TypeOK'
    <2> DEFINE file == IF UsesUptime(found[c]) THEN UptimeBoot[root[c]] ELSE StatBoot[root[c]]
    <2>1. file \in BootTimes /\ SysinfoBoot \in BootTimes
      BY BootType
    <2> HIDE DEF file
    <2>2. answer' \in [Callers -> BootTimes \cup {0}]
      BY <1>8, <2>1 DEF ReadBoot, Answer, file
    <2>3. pc' \in [Callers -> {"idle", "cached", "rlock", "check", "detect", "once", "lock", "source",
                               "store", "done"}] /\ degraded' \in BOOLEAN
      BY <1>8 DEF ReadBoot, Answer
    <2>4. QED
      BY <1>8, <2>2, <2>3 DEF ReadBoot
  <1>9. ASSUME NEW c \in Callers, StoreBoot(c) PROVE TypeOK'
    BY <1>9 DEF StoreBoot
  <1>10. ASSUME NEW c \in Callers, Finish(c) PROVE TypeOK'
    BY <1>10 DEF Finish, Virts
  <1>11. CASE UNCHANGED vars
    BY <1>11
  <1>12. QED
    BY <1>1, <1>2, <1>3, <1>4, <1>5, <1>6, <1>7, <1>8, <1>9, <1>10, <1>11 DEF Next, Step

LEMMA StoringStep == TypeOK /\ Storing /\ [Next]_vars => Storing'
  <1> SUFFICES ASSUME TypeOK, Storing, [Next]_vars PROVE Storing'
    OBVIOUS
  <1> USE DEF TypeOK, Storing
  <1>1. ASSUME NEW c \in Callers, NEW r \in Roots \cup {Unset}, NEW enable \in BOOLEAN, Call(c, r, enable)
        PROVE  Storing'
    BY <1>1 DEF Call
  <1>2. ASSUME NEW c \in Callers, LoadBoot(c) PROVE Storing'
    BY <1>2 DEF LoadBoot, Answer
  <1>3. ASSUME NEW c \in Callers, VirtRLock(c) PROVE Storing'
    BY <1>3 DEF VirtRLock
  <1>4. ASSUME NEW c \in Callers, VirtCheck(c) PROVE Storing'
    BY <1>4 DEF VirtCheck
  <1>5. ASSUME NEW c \in Callers, VirtDetect(c) PROVE Storing'
    BY <1>5 DEF VirtDetect
  <1>6. ASSUME NEW c \in Callers, VirtOnce(c) PROVE Storing'
    BY <1>6 DEF VirtOnce
  <1>7. ASSUME NEW c \in Callers, VirtStore(c) PROVE Storing'
    BY <1>7 DEF VirtStore
  <1>8. ASSUME NEW c \in Callers, ReadBoot(c) PROVE Storing'
    BY <1>8 DEF ReadBoot, Answer
  <1>9. ASSUME NEW c \in Callers, StoreBoot(c) PROVE Storing'
    BY <1>9 DEF StoreBoot
  <1>10. ASSUME NEW c \in Callers, Finish(c) PROVE Storing'
    BY <1>10 DEF Finish
  <1>11. CASE UNCHANGED vars
    BY <1>11
  <1>12. QED
    BY <1>1, <1>2, <1>3, <1>4, <1>5, <1>6, <1>7, <1>8, <1>9, <1>10, <1>11 DEF Next, Step

LEMMA CountedStep == TypeOK /\ Counted /\ [Next]_vars => Counted'
  <1> SUFFICES ASSUME TypeOK, Counted, [Next]_vars PROVE Counted'
    OBVIOUS
  <1> USE DEF TypeOK, Counted
  <1>1. ASSUME NEW c \in Callers, NEW r \in Roots \cup {Unset}, NEW enable \in BOOLEAN, Call(c, r, enable)
        PROVE  Counted'
    <2>1. IsFiniteSet(used')
      BY <1>1, FS_AddElement DEF Call
    <2>2. QED
      BY <1>1, <2>1 DEF Call
  <1>2. ASSUME NEW c \in Callers, LoadBoot(c) PROVE Counted'
    BY <1>2 DEF LoadBoot, Answer
  <1>3. ASSUME NEW c \in Callers, VirtRLock(c) PROVE Counted'
    BY <1>3 DEF VirtRLock
  <1>4. ASSUME NEW c \in Callers, VirtCheck(c) PROVE Counted'
    BY <1>4 DEF VirtCheck
  <1>5. ASSUME NEW c \in Callers, VirtDetect(c) PROVE Counted'
    BY <1>5 DEF VirtDetect
  <1>6. ASSUME NEW c \in Callers, VirtOnce(c) PROVE Counted'
    BY <1>6 DEF VirtOnce
  <1>7. ASSUME NEW c \in Callers, VirtStore(c) PROVE Counted'
    BY <1>7 DEF VirtStore
  <1>8. ASSUME NEW c \in Callers, ReadBoot(c) PROVE Counted'
    BY <1>8 DEF ReadBoot, Answer
  <1>9. ASSUME NEW c \in Callers, StoreBoot(c) PROVE Counted'
    BY <1>9 DEF StoreBoot
  <1>10. ASSUME NEW c \in Callers, Finish(c) PROVE Counted'
    BY <1>10 DEF Finish
  <1>11. CASE UNCHANGED vars
    BY <1>11
  <1>12. QED
    BY <1>1, <1>2, <1>3, <1>4, <1>5, <1>6, <1>7, <1>8, <1>9, <1>10, <1>11 DEF Next, Step

LEMMA RightStep == Inv /\ [Next]_vars => AllRight'
  <1> SUFFICES ASSUME Inv, [Next]_vars, NEW q \in Roots, used' \subseteq {q}, ~degraded' PROVE Right(q)'
    BY DEF AllRight, Right
  <1>a. /\ used \subseteq {q} /\ ~degraded /\ marks' = marks /\ marks[q] \subseteq AllMarks
        /\ virt # NoVirt => virt = Detect(marks[q])
        /\ boot # 0 => boot = OwnBoot(q)
        /\ \A c \in Callers :
              /\ pc[c] # "idle" => root[c] = q
              /\ pc[c] \in {"once", "lock", "source"} => found[c] = Detect(marks[q])
              /\ pc[c] \in {"store", "done"} => answer[c] = OwnBoot(q)
    <2>1. used \subseteq used' /\ (degraded => degraded') /\ marks' = marks
      BY DEF Inv, TypeOK, Next, Step, Call, LoadBoot, VirtRLock, VirtCheck, VirtDetect, VirtOnce, VirtStore, ReadBoot, StoreBoot, Finish
    <2>2. Right(q) /\ \A c \in Callers : pc[c] # "idle" => root[c] \in used
      BY DEF Inv, AllRight, Counted
    <2>3. QED
      BY <2>1, <2>2 DEF Right, Inv, TypeOK
  <1>b. OwnBoot(q)' = OwnBoot(q)
    BY <1>a DEF OwnBoot
  <1>c. TypeOK
    BY DEF Inv
  <1> USE <1>a, <1>b, <1>c DEF Right, TypeOK
  <1>1. ASSUME NEW c \in Callers, NEW r \in Roots \cup {Unset}, NEW enable \in BOOLEAN, Call(c, r, enable)
        PROVE  Right(q)'
    BY <1>1 DEF Call
  <1>2. ASSUME NEW c \in Callers, LoadBoot(c) PROVE Right(q)'
    BY <1>2 DEF LoadBoot, Answer
  <1>3. ASSUME NEW c \in Callers, VirtRLock(c) PROVE Right(q)'
    BY <1>3 DEF VirtRLock
  <1>4. ASSUME NEW c \in Callers, VirtCheck(c) PROVE Right(q)'
    BY <1>4 DEF VirtCheck
  <1>5. ASSUME NEW c \in Callers, VirtDetect(c) PROVE Right(q)'
    <2>1. PICK unreadable \in SUBSET {f \in Files : f \cap marks[root[c]] # {}} :
            /\ found' = [found EXCEPT ![c] = Detect(marks[root[c]] \ UNION unreadable)]
            /\ degraded' = (degraded \/ unreadable # {})
      BY <1>5 DEF VirtDetect
    <2>2. root[c] = q /\ unreadable = {}
      BY <1>5, <2>1 DEF VirtDetect
    <2>3. marks[root[c]] \ UNION unreadable = marks[q]
      BY <2>2
    <2>4. found' = [found EXCEPT ![c] = Detect(marks[q])]
      BY <2>1, <2>3
    <2>5. QED
      BY <1>5, <2>4 DEF VirtDetect
  <1>6. ASSUME NEW c \in Callers, VirtOnce(c) PROVE Right(q)'
    BY <1>6 DEF VirtOnce
  <1>7. ASSUME NEW c \in Callers, VirtStore(c) PROVE Right(q)'
    BY <1>7 DEF VirtStore
  <1>8. ASSUME NEW c \in Callers, ReadBoot(c) PROVE Right(q)'
    <2>1. UsesUptime(found[c]) <=> InContainer(marks[q])
      BY <1>8, DetectionRight DEF ReadBoot
    <2>2. root[c] = q
      BY <1>8 DEF ReadBoot
    <2>3. answer' = [answer EXCEPT ![c] = OwnBoot(q)]
      BY <1>8, <2>1, <2>2 DEF ReadBoot, Answer, OwnBoot
    <2>4. \A d \in Callers : d # c => pc'[d] = pc[d]
      BY <1>8 DEF ReadBoot, Answer
    <2>5. pc'[c] \in {"store", "done"}
      BY <1>8 DEF ReadBoot, Answer
    <2>6. QED
      BY <1>8, <2>3, <2>4, <2>5 DEF ReadBoot
  <1>9. ASSUME NEW c \in Callers, StoreBoot(c) PROVE Right(q)'
    BY <1>9 DEF StoreBoot
  <1>10. ASSUME NEW c \in Callers, Finish(c) PROVE Right(q)'
    BY <1>10 DEF Finish
  <1>11. CASE UNCHANGED vars
    BY <1>11
  <1>12. QED
    BY <1>1, <1>2, <1>3, <1>4, <1>5, <1>6, <1>7, <1>8, <1>9, <1>10, <1>11 DEF Next, Step

LEMMA Invariance == Spec => []Inv
  <1>1. Inv /\ [Next]_vars => Inv'
    BY TypeStep, StoringStep, CountedStep, RightStep DEF Inv
  <1>2. QED
    BY InitInv, <1>1, PTL DEF Spec

-----------------------------------------------------------------------------
\* The caches and the local variables of the calls hold values of their kinds.
THEOREM TypeCorrect == Spec => []TypeOK
  BY Invariance, PTL DEF Inv

\* Whatever two goroutines both worked out, cachedVirtMap is written once.
THEOREM VirtStoredOnce == Spec => VirtWriteOnce
  <1>1. Inv /\ [Next]_vars => [virt # NoVirt => virt' = virt]_virt
    <2> SUFFICES ASSUME Inv, [Next]_vars, virt # NoVirt PROVE virt' = virt
      OBVIOUS
    <2>1. ASSUME NEW c \in Callers, VirtStore(c) PROVE FALSE
      BY <2>1 DEF VirtStore, Inv, TypeOK, Storing
    <2>2. ASSUME NEW c \in Callers, Step(c), ~VirtStore(c) PROVE virt' = virt
      BY <2>2 DEF Step, LoadBoot, VirtRLock, VirtCheck, VirtDetect, VirtOnce, ReadBoot, StoreBoot, Finish
    <2>3. QED
      BY <2>1, <2>2 DEF Next, Call
  <1>2. QED
    BY <1>1, Invariance, PTL DEF Spec, VirtWriteOnce

\* While every call means the same root and every file can be read, each call
\* returns the boot time of its container inside one and of the host outside.
THEOREM SourceRight == Spec => []RightSource
  <1>1. Inv => RightSource
    <2> SUFFICES ASSUME Inv, Cardinality(used) = 1, ~degraded, NEW c \in Callers, pc[c] = "done"
                 PROVE  answer[c] = OwnBoot(root[c])
      BY DEF RightSource
    <2>1. IsFiniteSet(used) /\ root[c] \in used
      BY DEF Inv, Counted
    <2>2. PICK x : used = {x}
      BY <2>1, FS_Singleton
    <2>3. root[c] = x /\ x \in Roots
      BY <2>1, <2>2 DEF Inv, TypeOK
    <2>4. Right(x)
      BY <2>3 DEF Inv, AllRight
    <2>5. QED
      BY <2>2, <2>3, <2>4 DEF Right
  <1>2. QED
    BY <1>1, Invariance, PTL
=============================================================================
