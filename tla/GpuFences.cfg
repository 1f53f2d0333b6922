SPECIFICATION Spec
CONSTANTS
  Threads = {t1, t2}
  Fences = {f1, f2}
  Semaphores = {s1}
  None = None
  Window = 1
  MaxBatches = 1
  MaxJobs = 1
  MaxGap = 0
  MaxSeqno = 2
  SubmitFaults = 0
  WaitFaults = 0
INVARIANT AnswersMeanFinished
PROPERTY CallsReturn
