\* Two cases of two prompts, two retries; delays in the proportions of the
\* defaults, with a Retry-After below and one above the cap.
CONSTANTS
  LastCase = 2
  Turns = 2
  MaxRetries = 2
  MinInterval = 4
  BaseDelay = 2
  MaxDelay = 7
  MaxLatency = 2
  RetryAfters = {0, 6, 9}
  MaxClock = 200
  Never = Never
SPECIFICATION Spec
CHECK_DEADLOCK FALSE
INVARIANTS
  RequestsArePaced
  CallsAreBounded
