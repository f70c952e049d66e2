SPECIFICATION Spec
CONSTANTS
  Producers = {p1, p2, p3}
  Consumers = {c1, c2, c3}
  Pollers = {w1}
  Bounded = TRUE
  MaxCount = 2
  MaxLen = 3
  MaxQuiet = 3
INVARIANTS
  PoppersWoken
  PushersWoken
