SPECIFICATION FairBreakerSpec
CONSTANTS
  c1 = c1
  c2 = c2
  Threads = {c1, c2}
  Free = Free
  min_request_count = 3
  success_threshold = 2
  RateNum = 1
  RateDen = 2
  MaxRequests = 6
PROPERTY RateTrips
