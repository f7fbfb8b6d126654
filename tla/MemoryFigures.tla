--------------------------- MODULE MemoryFigures ---------------------------
(***************************************************************************)
(* VirtualMemory of package mem: Available and Used are sums and           *)
(* differences of unsigned counters of pages, which the kernel hands out   *)
(* one after the other while it moves pages from one use to another.  A    *)
(* page that moves in the middle of a call may be counted twice, or not at *)
(* all.                                                                    *)
(*                                                                         *)
(* A page is free, on the inactive queue, in a cache (the page cache of    *)
(* Linux, the cache or the laundry queue of FreeBSD, the buffer cache of   *)
(* OpenBSD), in a slab that can be reclaimed, or in use.  Shared memory,   *)
(* which Linux counts in Cached but in neither of its lists of file pages, *)
(* is left out, so that these two are one class.  Figures are in pages,    *)
(* modulo 2^Width.                                                         *)
(***************************************************************************)
EXTENDS Integers, Sequences

CONSTANTS
    Total,      \* the pages of the machine
    Width,      \* of an unsigned integer, in bits
    MaxMoves,   \* pages moved during a call
    Watermark,  \* the sum of the low watermarks of all zones
    Systems     \* the ways of VirtualMemory to look at

Classes == {"free", "inactive", "cache", "slab", "used"}

VARIABLES
    sys,    \* the way VirtualMemory is implemented
    pages,  \* class |-> how many pages are in it
    pc,     \* "idle", "reading", "zoneinfo", "computing", "done", "failed"
    next,   \* the counters to read next, an index of Reads[sys]
    seen,   \* class |-> the count that was read
    low,    \* the watermark as read, or -1
    first,  \* the pages when the call read its first counters
    moved,  \* how many pages have moved since
    stat    \* the answer: total, available, used

memoryVars == <<sys, pages, pc, next, seen, low, first, moved, stat>>

Unsigned(x) == x % 2^Width

\* The pages that f counts; a class it does not count adds nothing.
Count(f, c) == IF c \in DOMAIN f THEN f[c] ELSE 0

PagesIn(f) ==
    Count(f, "free") + Count(f, "inactive") + Count(f, "cache") + Count(f, "slab") + Count(f, "used")

Unread == [c \in {} |-> 0]

-----------------------------------------------------------------------------
(* What each way of VirtualMemory reads, in this order.  /proc/meminfo is  *)
(* put together by the kernel counter by counter.                          *)

LinuxReads == << {"free"}, {"cache"}, {"slab"} >>

\* MemAvailable is the kernel's own figure.
LinuxMemAvailable == << {"free", "cache", "slab"} >>

FreebsdReads == << {"free"}, {"inactive"}, {"cache"} >>
OpenbsdReads == << {"free", "inactive"}, {"cache"} >>
NetbsdReads == << {"free", "inactive"} >>
DarwinReads == << {"free", "inactive"} >>
SolarisReads == << {"free"} >>

\* In a zone that is not the global one only the capacity is read.
SolarisZoneReads == << {} >>

WindowsReads == << {"free", "inactive"} >>

Reads ==
    [linux |-> LinuxMemAvailable, linuxOld |-> LinuxReads, linuxOldest |-> LinuxReads,
     freebsd |-> FreebsdReads, openbsd |-> OpenbsdReads, netbsd |-> NetbsdReads,
     darwin |-> DarwinReads, solaris |-> SolarisReads, solarisZone |-> SolarisZoneReads,
     windows |-> WindowsReads]

\* The counters are far from the largest unsigned integer.
ASSUME MemoryFiguresAssumption ==
    /\ Systems \subseteq DOMAIN Reads
    /\ Total \in Nat /\ MaxMoves \in Nat /\ Watermark \in Nat
    /\ Width \in Nat /\ 2^Width \in Nat
    /\ 2 * (Total + MaxMoves) + Watermark < 2^Width

-----------------------------------------------------------------------------
(* What it computes from them. *)

\* A slip: the slab is in Cached already.
CachedPlusFreeTwice == Unsigned(seen["cache"] + 2 * seen["slab"] + seen["free"])

\* "Cached" is reported with the reclaimable slab in it.
CachedPlusFree == Unsigned((seen["cache"] + seen["slab"]) + seen["free"])

Minimum(a, b) == IF a < b THEN a ELSE b

\* A slip: no difference is allowed to be negative, on the way either.
calculateAvailVmemClamped ==
    IF low = -1 THEN CachedPlusFree
    ELSE LET avail == IF seen["free"] < low THEN 0 ELSE seen["free"] - low
             pageCache == seen["cache"] - Minimum(seen["cache"] \div 2, low)
             slab == seen["slab"] - Minimum(seen["slab"] \div 2, low)
         IN  Unsigned(avail + pageCache + slab)

\* Of Linux before 3.14.  Free memory may be below the watermark, so that the
\* first difference wraps.  (The code's last test, for less than zero, is
\* about an unsigned integer.)
calculateAvailVmem ==
    IF low = -1 THEN CachedPlusFree
    ELSE LET avail == Unsigned(seen["free"] - low)
             pageCache == seen["cache"] - Minimum(seen["cache"] \div 2, low)
             slab == seen["slab"] - Minimum(seen["slab"] \div 2, low)
         IN  Unsigned(Unsigned(avail + pageCache) + slab)

SumOfSeen == Unsigned(PagesIn(seen))

Available ==
    CASE sys = "linuxOld" -> calculateAvailVmem
      [] sys = "linuxOldest" -> CachedPlusFree
      [] OTHER -> SumOfSeen

\* A slip: what is not free is used.
UsedNotFree(available) == Unsigned(Total - seen["free"])

Used(available) == Unsigned(Total - available)

\* The figures are filled in, but for the zones: there they stay zero.
Counts == sys # "solarisZone"

Figures ==
    IF Counts THEN [available |-> Available, used |-> Used(Available)]
    ELSE [available |-> 0, used |-> 0]

-----------------------------------------------------------------------------
(* A call *)

StartReading ==
    /\ pc \in {"idle", "done", "failed"}
    /\ pc' = "reading" /\ next' = 1 /\ seen' = Unread /\ low' = -1
    /\ first' = pages /\ moved' = 0 /\ stat' = <<>>
    /\ UNCHANGED <<sys, pages>>

\* Linux before 3.14 with all the counters it needs goes on to the watermarks.
ReadCounters ==
    /\ pc = "reading"
    /\ seen' = [c \in DOMAIN seen \cup Reads[sys][next] |->
                  IF c \in DOMAIN seen THEN seen[c] ELSE pages[c]]
    /\ first' = IF next = 1 THEN pages ELSE first
    /\ moved' = IF next = 1 THEN 0 ELSE moved
    /\ IF next < Len(Reads[sys])
         THEN next' = next + 1 /\ UNCHANGED pc
         ELSE pc' = (IF sys = "linuxOld" THEN "zoneinfo" ELSE "computing") /\ UNCHANGED next
    /\ UNCHANGED <<sys, pages, low, stat>>

ReadFails ==
    /\ pc = "reading"
    /\ pc' = "failed"
    /\ UNCHANGED <<sys, pages, next, seen, low, first, moved, stat>>

\* Without the watermarks there is the simpler sum.
ReadZoneinfo ==
    /\ pc = "zoneinfo"
    /\ low' \in {-1, Watermark}
    /\ pc' = "computing"
    /\ UNCHANGED <<sys, pages, next, seen, first, moved, stat>>

Compute ==
    /\ pc = "computing"
    /\ stat' = Figures
    /\ pc' = "done"
    /\ UNCHANGED <<sys, pages, next, seen, low, first, moved>>

\* The kernel gives a page to another use.  (What it does when no counter is
\* waiting to be read makes no difference: every distribution of the pages is
\* that of an initial state.)
Move(c, d) ==
    /\ pc = "reading" /\ moved < MaxMoves
    /\ c # d /\ pages[c] > 0
    /\ pages' = [pages EXCEPT ![c] = @ - 1, ![d] = @ + 1]
    /\ moved' = moved + 1
    /\ UNCHANGED <<sys, pc, next, seen, low, first, stat>>

-----------------------------------------------------------------------------
MemoryInit ==
    /\ sys \in Systems
    /\ pages \in [Classes -> 0..Total]
    /\ PagesIn(pages) = Total
    /\ pc = "idle" /\ next = 1 /\ seen = Unread /\ low = -1
    /\ first = pages /\ moved = 0 /\ stat = <<>>

MemoryNext ==
    \/ StartReading \/ ReadCounters \/ ReadFails \/ ReadZoneinfo \/ Compute
    \/ \E c, d \in Classes : Move(c, d)

MemorySpec == MemoryInit /\ [][MemoryNext]_memoryVars

-----------------------------------------------------------------------------
(* What the figures are about: the classes a system counts as available,   *)
(* at the moment the call began to read.                                   *)

AvailableClasses == UNION {Reads[sys][i] : i \in DOMAIN Reads[sys]}

TrulyAvailable == PagesIn([c \in AvailableClasses |-> first[c]])

\* The formula of psutil, without any wrapping, on the counters that were read.
AboveWatermark ==
    seen["free"] - low
        + (seen["cache"] - Minimum(seen["cache"] \div 2, low))
        + (seen["slab"] - Minimum(seen["slab"] \div 2, low))

Plain == sys # "linuxOld" \/ low = -1

\* However the reads fall between the kernel's moves, Available is no
\* further from the truth at the beginning than pages moved during the reads.
\* (Not so in a zone of Solaris, see Counts.)
AvailableNear ==
    pc = "done" /\ Plain /\ Counts =>
        /\ stat.available <= TrulyAvailable + moved
        /\ stat.available >= TrulyAvailable - moved

\* Used is near the pages in use in the same sense, and it is more than the
\* machine has only if fewer pages were in use than moved: then it wraps.
\* (Not so in a zone of Solaris, see Counts.)
UsedNear ==
    pc = "done" /\ Plain /\ Counts =>
        \/ /\ stat.used <= Total
           /\ stat.used <= (Total - TrulyAvailable) + moved
           /\ stat.used >= (Total - TrulyAvailable) - moved
        \/ Total - TrulyAvailable < moved

\* Free memory below the watermark makes an intermediate result wrap; the
\* figure is right all the same as long as it is not negative itself.
WatermarkExact ==
    pc = "done" /\ ~Plain /\ AboveWatermark >= 0 => stat.available = AboveWatermark

\* What the test for a negative figure at the end of calculateAvailVmem is
\* for: that what is available is never more than the machine has.
AvailableWithinTotal == pc = "done" /\ moved = 0 => stat.available <= Total
=============================================================================
