SPECIFICATION Spec
CONSTANTS
  p1 = p1
  s1 = s1
  Subs = {s1, s2}
  Phones = {p1}
  PhoneOf <- OnePhone
  Legacy = {s1, s2}
  MaxResults = 1
  MaxAttempts = 2
  MaxTroubles = 2
CONSTRAINT Bounded
INVARIANTS
  IInv
  AcceptedIsTrue
PROPERTIES
  NoRepeat
  OnlyWithConsent
CHECK_DEADLOCK FALSE
