SPECIFICATION TokensFairSpec
CONSTANTS
  q1 = q1
  q2 = q2
  q3 = q3
  Requests = {q1, q2, q3}
  Preemptive <- MCPreemptive
INVARIANTS TypeOK SingleFlight CacheCurrent
PROPERTIES HandedCurrent RequestsEnd
