SPECIFICATION FairBreakerSpec
CONSTANTS
  c1 = c1
  c2 = c2
  c3 = c3
  Threads = {c1, c2, c3}
  Free = Free
  min_request_count = 2
  success_threshold = 2
  RateNum = 1
  RateDen = 2
  MaxRequests = 5
INVARIANTS BreakerTypeOK Counted OpenNeedsRequests
PROPERTIES OpenIsLeft
