CONSTANTS
  N = 2
  Keys = {k1, k2}
  MaxEntries = 1
  TTL = 1
  Threshold = 1
  CoolDown = 1  MethodCool = 2
  Threads = {t1, t2}
  MaxFetch = 1
  MaxChanges = 1
SPECIFICATION Spec
INVARIANT AnswersAreFresh
PROPERTY ServiceRecovers
