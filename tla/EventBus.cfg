CONSTANTS
  a = a
  b = b
  main = main
  stream = stream
  strategy = strategy
  broker = broker
  position = position
  t1 = t1
  t2 = t2
  i1 = i1
  Type <- MCType
  Ticker <- MCTicker
  Handler <- MCHandler
  Source <- MCSource
  Workers <- MCWorkers
  Hash <- MCHash
  Capacity <- MCCapacity
  Policy <- MCPolicy
  Coalesced = {"BAR"}
  Subscribers <- MCSubscribers
  Emits <- MCEmits
  Script <- MCScript
  StopOrder <- MCStopOrder
  Threshold = 1
  MaxFaults = 1
  Payload <- MCPayload
  Priority <- MCPriority
  Putters <- MCPutters
  MaxSize = 2
  MaxArrivals = 4
SPECIFICATION BusSpec
INVARIANTS TypeOK CriticalKept SkippedForCause DrainedUnlessFull HeapsAgree
PROPERTIES FreshOnly CriticalDelivered Implements
CHECK_DEADLOCK FALSE
