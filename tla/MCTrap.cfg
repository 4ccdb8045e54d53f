SPECIFICATION Spec
CONSTANTS
    CPUs = {c0, c1}
    Procs = {p1, p2}
    Cpu0 = c0
    UintMod = 2
    SleepArgs = {1}
    MayDie = {p1}
    Ticks = Ticks
    None = None
INVARIANTS TrapInv NoLostTick
