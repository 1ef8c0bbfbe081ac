CONSTANTS
  Users = {root, ann}
  Root = root
  EmailOf <- MCEmailOf
  Threads = {t1, t2}
  MaxSessions = 1  MaxPasswords = 1  MaxEvents = 2
SPECIFICATION Spec
INVARIANTS OneOpenToken SessionsAreCurrent AdminsRemain
SYMMETRY ThreadSymmetry
CHECK_DEADLOCK FALSE
