\* Three turns of up to two calls, one retry, fair scheduling.
SPECIFICATION FairSpec
CONSTANTS
  cited = cited
  shown = shown
  invented = invented
  Ranges = {cited, shown, invented}
  Supported = {cited, shown}
  Disputed = {cited}
  Calls <- SomeCalls
  MaxTurns = 3
  MaxRetries = 1
  MaxCalls = 2
INVARIANTS TypeOK CallsAreAnswered RequestsAreBounded OnlyPermittedIsReturned
PROPERTIES Settles ImplementsCall
CHECK_DEADLOCK FALSE
