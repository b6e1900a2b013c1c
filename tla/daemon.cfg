SPECIFICATION FairSpec
CONSTANTS
  Templates = 2
  MaxConcurrency = 2
  MaxRunners = 2
  Signal = {SIGINT, SIGTERM}
INVARIANTS StateOutlivesThreads EndsOnlyWhenAsked
PROPERTIES StopsUnlessReentered
