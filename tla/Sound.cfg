\* A ring of four samples, blocks and requests shorter and longer than it.
CONSTANTS
  Capacity = 4
  Chunks = {3, 5}
  Requests = {1, 5}
  MaxOffered = 8
SPECIFICATION Spec
INVARIANTS CopiesDisjoint RingOutlivesCallback SamplesAccounted
PROPERTIES ImplementsFifo CallsReturn
