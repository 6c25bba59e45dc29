\* Three node addresses, so that freed ones are reused while others wait,
\* and four requests, of which any may get no response; sends fail at any time.
CONSTANTS
  Addr = {a1, a2, a3}
  Request = {1, 2, 3, 4}
  NULL = NULL
  NoRequest = NoRequest
SPECIFICATION MCSpec
INVARIANTS
  LookupReadsLiveNodes
  NodeFoundIsLive
PROPERTIES
  KeepsTable
CHECK_DEADLOCK FALSE
