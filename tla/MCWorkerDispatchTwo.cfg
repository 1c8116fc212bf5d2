SPECIFICATION Spec
CONSTANTS
  r1 = r1
  r2 = r2
  p1 = p1
  p2 = p2
  a = a
  b = b
  Runs = {r1, r2}
  Permits = {p1, p2}
  Payloads = {a, b}
  NoRun = NoRun
  NoPayload = NoPayload
  Calls <- TwoCalls
  Steps = 2
  Expiring = {p1}
  MaxFaults = 0
INVARIANT OneWorkerAtATime
