SPECIFICATION Spec
CONSTANTS
  Threads = {t1}
  Fences = {f1}
  Semaphores = {s1}
  None = None
  Window = 2
  MaxBatches = 2
  MaxJobs = 2
  MaxGap = 1
  MaxSeqno = 8
  SubmitFaults = 1
  WaitFaults = 1
INVARIANTS SeqnosOrdered Throttled
