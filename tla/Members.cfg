CONSTANTS
  a1 = a1
  a2 = a2
  s1 = s1
  s2 = s2
  Agents = {a1, a2}
  Slots = {s1, s2}
  Levels <- MCLevels
  LevelsOf <- MCLevelsOf
  SignupMax <- MCSignupMax
  TrialMax <- MCTrialMax
  TrialHub = 1
  TrialCredits = 2
  Grant = 3
  ProbationPeriod = 1
  InactiveAfter = 1
  WindowMax = 1
  MaxSessions = 1
  MaxOpens = 2
  MaxDay = 2
  MaxWindows = 1
  MaxHistory = 2
  MaxLeaves = 2
SPECIFICATION MCSpec
INVARIANTS
  SessionsOwned
  MembersSound
  DayQuotaKept
PROPERTIES
  SessionsEnd
  EntersByTheRules
  GiftsPaidOnce
  SweepSparesUsed
CHECK_DEADLOCK FALSE
