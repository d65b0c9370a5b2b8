CONSTANTS
    None = None
    idle = idle
    ta = ta
    tb = tb
    tc = tc
    ua = ua
    ub = ub
    as1 = as1
    as2 = as2
SYMMETRY Alike
SPECIFICATION Spec
INVARIANTS
    SchedulerSound TablesSound CarvingSound CallsChecked ProgramsSound HeapSound
PROPERTIES FifoOrder MappingImplemented
CHECK_DEADLOCK FALSE
