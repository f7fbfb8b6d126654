SPECIFICATION Spec
CONSTANTS
    Callers = {c1, c2}
    Roots = {own, mounted}
    Default = own
    EnvRoot = mounted
    Unset = Unset
    Worlds <- MCWorlds
    StatBoot <- MCStatBoot
    UptimeBoot <- MCUptimeBoot
    SysinfoBoot = 30
    NoOne = NoOne
INVARIANT RightSource
PROPERTIES VirtWriteOnce EveryCallReturns
