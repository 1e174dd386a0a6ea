SPECIFICATION FairSpec
CONSTANTS
  m1 = m1
  m2 = m2
  Message <- MCMessage
INVARIANTS TypeOK TeardownOrder NothingDangles
PROPERTIES Starts Stops KeepsPromise
CHECK_DEADLOCK FALSE
