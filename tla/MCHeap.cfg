SPECIFICATION Spec
CONSTANTS
    HEADER = 16
    PAGE_SIZE = 64
    HeapLimit = 256
    Requests = {5, 20, 60}
INVARIANTS BlocksApart BlockListIsSound
PROPERTIES ImplementsAllocator
