SPECIFICATION PartsSpec
CONSTANTS
  Fds = {f1}
  MaxOpens = 2
  MaxJobs = 1
  MaxPending = 2
  MaxBytes = 2
  MaxRequests = 2
  MaxArrivals = 3
INVARIANT BytesAccounted
INVARIANT SaidToTheRight
 
PROPERTY RadioListens
