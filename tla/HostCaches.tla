----------------------------- MODULE HostCaches -----------------------------
(***************************************************************************)
(* The two process-wide caches of internal/common on Linux                 *)
(* (internal/common/common_linux.go): the kind of virtualization, found    *)
(* from evidence in /proc and computed once, and the boot time, whose      *)
(* source depends on it and which is cached on request.  Goroutines call   *)
(* BootTimeWithContext, each with its own location of the host's files (a  *)
(* root) in its context; any file may be unreadable.                       *)
(*                                                                         *)
(* The files of a root are abstracted to the marks they hold that          *)
(* VirtualizationWithContext looks for, and to the boot times that         *)
(* /proc/stat and /proc/uptime lead to.  The value of a source stands for  *)
(* the source: which one is used is the question here.  That the clock     *)
(* minus the uptime is another second at another read, and that the clock  *)
(* is stepped, is in ProcessHandle.                                        *)
(***************************************************************************)
EXTENDS Integers, Sequences, FiniteSets

CONSTANTS Callers,    \* goroutines
          Roots,      \* locations of the host's files, among them Default
          Default,    \* /proc, /etc and / themselves
          EnvRoot,    \* the location in the environment, or Unset
          Unset,      \* the empty string
          Worlds,     \* the evidence under each root, in the worlds to be told apart
          StatBoot,   \* btime in the stat file under each root
          UptimeBoot, \* the clock minus the uptime file under each root
          SysinfoBoot,\* the clock minus sysinfo(2)
          NoOne

AllMarks == {"xen", "control_d", "kvm", "hv_util", "vboxdrv", "vboxguest", "vmware", "qemu",
             "virtio", "bc0", "vz", "vserver", "environ-lxc", "cgroup-lxc", "cgroup-docker",
             "cgroup-rkt", "lxc-version", "coreos", "dockerenv"}

ASSUME ConstantsAssumption ==
    /\ Default \in Roots /\ EnvRoot \in Roots \cup {Unset} /\ Unset \notin Roots
    /\ Worlds \subseteq [Roots -> SUBSET AllMarks]
    /\ \A w \in Worlds :
          /\ \A r \in Roots : "control_d" \in w[r] => "xen" \in w[r]
          /\ \A r \in Roots : "lxc-version" \in w[r] <=> "lxc-version" \in w[Default]
    /\ StatBoot \in [Roots -> Nat \ {0}] /\ UptimeBoot \in [Roots -> Nat \ {0}]
    /\ SysinfoBoot \in Nat \ {0} /\ NoOne \notin Callers

VARIABLES
    marks,    \* the evidence that is there, under each root
    virt,     \* cachedVirtMap, or NoVirt
    once,     \* cachedVirtOnce: "new", "busy", "done"
    writer,   \* cachedVirtMutex: the caller that holds or waits for Lock
    readers,  \* cachedVirtMutex: the callers that hold RLock
    boot,     \* cachedBootTime, 0 if unset
    pc,       \* where each call stands
    root,     \* the location its context leads to
    caching,  \* its argument enableCache
    found,    \* the system and role it has
    answer,   \* the boot time it returns; 0 with an error
    used,     \* ghost: the roots of all calls so far
    degraded  \* ghost: a file that exists could not be read

cacheVars == <<virt, once, writer, readers, boot>>
callVars  == <<pc, root, caching, found, answer>>
vars == <<marks, cacheVars, callVars, used, degraded>>

-----------------------------------------------------------------------------
(* VirtualizationWithContext: what the evidence says *)

Says(mark, system, role) == [mark |-> mark, system |-> system, role |-> role]
Keep == "keep"

\* The stages in the order of the code.  Within a stage the first mark that is there counts;
\* a later stage overrides an earlier one, except for what it keeps.
Stages ==
    << << Says("control_d", "xen", "host"), Says("xen", "xen", "guest") >>,
       << Says("kvm", "kvm", "host"), Says("hv_util", "hyperv", "guest"),
          Says("vboxdrv", "vbox", "host"), Says("vboxguest", "vbox", "guest"),
          Says("vmware", "vmware", "guest") >>,
       << Says("qemu", "kvm", "guest") >>,
       << Says("virtio", Keep, "guest") >>,
       << Says("bc0", "openvz", "host"), Says("vz", "openvz", "guest") >>,
       << Says("vserver", "linux-vserver", Keep) >>,
       << Says("environ-lxc", "lxc", "guest") >>,
       << Says("cgroup-lxc", "lxc", "guest"), Says("cgroup-docker", "docker", "guest"),
          Says("cgroup-rkt", "rkt", "guest"), Says("lxc-version", "lxc", "host") >>,
       << Says("coreos", "rkt", "host") >>,
       << Says("dockerenv", "docker", "guest") >> >>

\* The marks that go unseen when one of the files cannot be read.
Files == { {"xen", "control_d"}, {"control_d"}, {"kvm", "hv_util", "vboxdrv", "vboxguest", "vmware"},
           {"qemu"}, {"virtio"}, {"bc0"}, {"vz"}, {"vserver"}, {"environ-lxc"},
           {"cgroup-lxc", "cgroup-docker", "cgroup-rkt", "lxc-version"}, {"coreos"}, {"dockerenv"} }

Override(old, new) == IF new = Keep THEN old ELSE new

\* Mutant: the first stage that says something decides.
ApplyFirst(stage, there, v) ==
    LET hits == {i \in 1..Len(stage) : stage[i].mark \in there}
    IN  IF hits = {} \/ v.system # "" THEN v
        ELSE LET rule == stage[CHOOSE i \in hits : \A j \in hits : i <= j]
             IN  [system |-> Override(v.system, rule.system), role |-> Override(v.role, rule.role)]

\* The effect of one stage on what the earlier ones found.
Apply(stage, there, v) ==
    LET hits == {i \in 1..Len(stage) : stage[i].mark \in there}
    IN  IF hits = {} THEN v
        ELSE LET rule == stage[CHOOSE i \in hits : \A j \in hits : i <= j]
             IN  [system |-> Override(v.system, rule.system), role |-> Override(v.role, rule.role)]

NoVirt == [system |-> "nil", role |-> "nil"]

Detect(there) ==
    LET after[n \in 0..Len(Stages)] ==
            IF n = 0 THEN [system |-> "", role |-> ""]
            ELSE Apply(Stages[n], there, after[n - 1])
    IN  after[Len(Stages)]

\* GetEnvWithContext: the context, then the environment, then the default.
GetEnvWithContext(inContext) ==
    CASE inContext # Unset -> inContext
      [] inContext = Unset /\ EnvRoot # Unset -> EnvRoot
      [] OTHER -> Default

-----------------------------------------------------------------------------
(* BootTimeWithContext and VirtualizationWithContext *)

Goto(c, l) == pc' = [pc EXCEPT ![c] = l]

Call(c, inContext, enableCache) ==
    /\ pc[c] = "idle"
    /\ used' = used \cup {GetEnvWithContext(inContext)}
    /\ root' = [root EXCEPT ![c] = GetEnvWithContext(inContext)]
    /\ caching' = [caching EXCEPT ![c] = enableCache]
    /\ Goto(c, "cached")
    /\ UNCHANGED <<marks, cacheVars, found, answer, degraded>>

Answer(c, t) == answer' = [answer EXCEPT ![c] = t] /\ Goto(c, "done")

\* The atomic load of the cached boot time.
LoadBoot(c) ==
    /\ pc[c] = "cached"
    /\ \/ caching[c] /\ boot # 0 /\ Answer(c, boot)
       \/ ~(caching[c] /\ boot # 0) /\ Goto(c, "rlock") /\ UNCHANGED answer
    /\ UNCHANGED <<marks, cacheVars, root, caching, found, used, degraded>>

VirtRLock(c) ==
    /\ pc[c] = "rlock" /\ writer = NoOne
    /\ readers' = readers \cup {c}
    /\ Goto(c, "check")
    /\ UNCHANGED <<marks, virt, once, writer, boot, root, caching, found, answer, used, degraded>>

\* The cached value if there is one; RUnlock on both paths.
VirtCheck(c) ==
    /\ pc[c] = "check"
    /\ readers' = readers \ {c}
    /\ \/ virt # NoVirt /\ found' = [found EXCEPT ![c] = virt] /\ Goto(c, "source")
       \/ virt = NoVirt /\ Goto(c, "detect") /\ UNCHANGED found
    /\ UNCHANGED <<marks, virt, once, writer, boot, root, caching, answer, used, degraded>>

\* All the evidence is looked at, outside the lock; a file that cannot be read is as good as
\* one without marks.
VirtDetect(c) ==
    /\ pc[c] = "detect"
    /\ \E unreadable \in SUBSET {f \in Files : f \cap marks[root[c]] # {}} :
          /\ found' = [found EXCEPT ![c] = Detect(marks[root[c]] \ UNION unreadable)]
          /\ degraded' = (degraded \/ unreadable # {})
    /\ Goto(c, "once")
    /\ UNCHANGED <<marks, cacheVars, root, caching, answer, used>>

\* Mutant: every call that worked it out stores it.
VirtOnceAlways(c) ==
    /\ pc[c] = "once" /\ once # "busy"
    /\ once' = "busy" /\ writer' = c /\ Goto(c, "lock")
    /\ UNCHANGED <<marks, virt, readers, boot, root, caching, found, answer, used, degraded>>

\* cachedVirtOnce.Do: the first one announces itself as the writer, the others wait for it
\* and go on with their own result.
VirtOnce(c) ==
    /\ pc[c] = "once"
    /\ \/ once = "new" /\ once' = "busy" /\ writer' = c /\ Goto(c, "lock")
       \/ once = "done" /\ Goto(c, "source") /\ UNCHANGED <<once, writer>>
    /\ UNCHANGED <<marks, virt, readers, boot, root, caching, found, answer, used, degraded>>

\* Mutant: Unlock is missing.
VirtStoreNoUnlock(c) ==
    /\ pc[c] = "lock" /\ readers = {}
    /\ virt' = found[c]
    /\ once' = "done"
    /\ Goto(c, "source")
    /\ UNCHANGED <<marks, readers, writer, boot, root, caching, found, answer, used, degraded>>

\* Lock once the readers have left, store, and the deferred Unlock.
VirtStore(c) ==
    /\ pc[c] = "lock" /\ readers = {}
    /\ virt' = found[c]
    /\ writer' = NoOne
    /\ once' = "done"
    /\ Goto(c, "source")
    /\ UNCHANGED <<marks, readers, boot, root, caching, found, answer, used, degraded>>

\* lxc and docker guests have the uptime of the container in /proc/uptime.
UsesUptime(v) == v.system \in {"lxc", "docker"} /\ v.role = "guest"

\* The file is read; a refused permission falls back to sysinfo, which the uptime branch
\* returns without caching it; any other failure is an error.
ReadBoot(c) ==
    /\ pc[c] = "source"
    /\ LET file == IF UsesUptime(found[c]) THEN UptimeBoot[root[c]] ELSE StatBoot[root[c]]
           store == IF caching[c] THEN "store" ELSE "done"
       IN  \/ answer' = [answer EXCEPT ![c] = file] /\ Goto(c, store) /\ UNCHANGED degraded
           \/ /\ answer' = [answer EXCEPT ![c] = SysinfoBoot]
              /\ Goto(c, IF UsesUptime(found[c]) THEN "done" ELSE store)
              /\ degraded' = TRUE
           \/ Answer(c, 0) /\ degraded' = TRUE
    /\ UNCHANGED <<marks, cacheVars, root, caching, found, used>>

\* The atomic store of the boot time.
StoreBoot(c) ==
    /\ pc[c] = "store"
    /\ boot' = answer[c]
    /\ Goto(c, "done")
    /\ UNCHANGED <<marks, virt, once, writer, readers, root, caching, found, answer, used,
                   degraded>>

\* The caller has the answer; the call's variables are gone.
Finish(c) ==
    /\ pc[c] = "done"
    /\ Goto(c, "idle")
    /\ root' = [root EXCEPT ![c] = Default]
    /\ caching' = [caching EXCEPT ![c] = FALSE]
    /\ found' = [found EXCEPT ![c] = NoVirt]
    /\ answer' = [answer EXCEPT ![c] = 0]
    /\ UNCHANGED <<marks, cacheVars, used, degraded>>

-----------------------------------------------------------------------------
Init ==
    /\ marks \in Worlds
    /\ virt = NoVirt /\ once = "new" /\ writer = NoOne /\ readers = {} /\ boot = 0
    /\ pc = [c \in Callers |-> "idle"]
    /\ root = [c \in Callers |-> Default]
    /\ caching = [c \in Callers |-> FALSE]
    /\ found = [c \in Callers |-> NoVirt]
    /\ answer = [c \in Callers |-> 0]
    /\ used = {} /\ degraded = FALSE

Step(c) ==
    \/ LoadBoot(c) \/ VirtRLock(c) \/ VirtCheck(c) \/ VirtDetect(c) \/ VirtOnce(c)
    \/ VirtStore(c) \/ ReadBoot(c) \/ StoreBoot(c) \/ Finish(c)

Next ==
    \E c \in Callers :
        \/ \E r \in Roots \cup {Unset}, enable \in BOOLEAN : Call(c, r, enable)
        \/ Step(c)

\* A goroutine that can run does.  Every wait here ends for good (the writer leaves, the
\* once is done), so weak fairness is enough.
Spec == Init /\ [][Next]_vars /\ \A c \in Callers : WF_vars(Step(c))

-----------------------------------------------------------------------------
(* Properties *)

Virts == {NoVirt} \cup
         [system : {"", "xen", "kvm", "hyperv", "vbox", "vmware", "openvz", "linux-vserver", "lxc",
                    "docker", "rkt"},
          role : {"", "host", "guest"}]
BootTimes == {SysinfoBoot} \cup {StatBoot[r] : r \in Roots} \cup {UptimeBoot[r] : r \in Roots}

\* The caches and the local variables of the calls hold values of their kinds.
TypeOK ==
    /\ marks \in Worlds
    /\ virt \in Virts /\ once \in {"new", "busy", "done"}
    /\ writer \in Callers \cup {NoOne} /\ readers \subseteq Callers
    /\ boot \in BootTimes \cup {0}
    /\ pc \in [Callers -> {"idle", "cached", "rlock", "check", "detect", "once", "lock", "source",
                            "store", "done"}]
    /\ root \in [Callers -> Roots] /\ caching \in [Callers -> BOOLEAN]
    /\ found \in [Callers -> Virts] /\ answer \in [Callers -> BootTimes \cup {0}]
    /\ used \subseteq Roots /\ degraded \in BOOLEAN

\* cachedVirtMap is written once: two goroutines may both find it empty and both look at the
\* evidence, but the second never overwrites what the first stored and others have used.
VirtWriteOnce == [][virt # NoVirt => virt' = virt]_virt

\* The process runs in an lxc or docker container, said of the evidence itself.
InContainer(there) ==
    \/ "dockerenv" \in there
    \/ there \cap {"cgroup-lxc", "cgroup-docker"} # {} /\ "coreos" \notin there
    \/ "environ-lxc" \in there /\ there \cap {"cgroup-rkt", "lxc-version", "coreos"} = {}

OwnBoot(r) == IF InContainer(marks[r]) THEN UptimeBoot[r] ELSE StatBoot[r]

\* As long as every call means the same root and every file could be read, each call returns
\* the boot time of its container inside one and of the host outside, whichever of the two
\* caches it came through and however the first calls interleaved.
RightSource ==
    Cardinality(used) = 1 /\ ~degraded =>
        \A c \in Callers : pc[c] = "done" => answer[c] = OwnBoot(root[c])

\* Every call of BootTimeWithContext returns: no goroutine is left waiting for the mutex or
\* for the once.
EveryCallReturns == \A c \in Callers : (pc[c] # "idle") ~> (pc[c] = "idle")

\* README.md:112 on where the host's files are: "First priority is given to the value set in
\* `context`".  A call that does not use the cached boot time takes it from the files its own
\* context names.
ContextRespected ==
    \A c \in Callers : pc[c] = "done" /\ ~caching[c] /\ ~degraded => answer[c] = OwnBoot(root[c])
=============================================================================
