CONSTANTS
    Backends = { "LIBC_MALLOC", "LINUX_MMAP", "WIN32_VIRTUALALLOC", "WASM_HEAPBASE" }
    HeaderSize = 1
    ArenaSize = 1
    DefaultCapacity = 1
    Memory = 12
    SizeMax = 31
    Sizes <- MCSizes
    MaxAllocations = 3
SPECIFICATION Spec
CHECK_DEADLOCK FALSE
INVARIANTS
    AllocationsApart
    ArenaGivesBackAll
