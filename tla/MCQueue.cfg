CONSTANTS
  Event = {e1, e2}
  Zero = Zero
  MaxQueueSize = 3
  MaxBatch = 2
  MaxHeld = 5
SPECIFICATION Spec
INVARIANTS RingExact
PROPERTY FifoSpec
