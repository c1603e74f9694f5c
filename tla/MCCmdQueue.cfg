\* The ring of the code: 32 slots, every interleaving of create, work_done and
\* destruct the callers can produce.
CONSTANT Entries = 32
SPECIFICATION Spec
INVARIANT NoFault
PROPERTY ImplementsFifo
