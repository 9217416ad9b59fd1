SPECIFICATION Spec
CONSTANTS
  t1 = t1
  t2 = t2
  t3 = t3
  p1 = p1
  p2 = p2
  k1 = k1
  k2 = k2
  k3 = k3
  Thread <- MCThread
  Process <- MCProcess
  ProcessOf <- MCProcessOf
  Key <- MCKey
  Array <- MCArray
  ArraysOf <- MCArraysOf
  Refused <- MCRefused
  FilesBefore <- MCFilesBefore
  Requests <- MCRequests
  MaxCrashes = 1
  NoOne = NoOne
INVARIANTS PaidForIsStored
PROPERTIES NoEntryLost
