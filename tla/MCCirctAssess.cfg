SPECIFICATION FairPassSpec
CONSTANTS
  i1 = i1
  i2 = i2
  i3 = i3
  Issues <- MCIssues
  Attempts = 2
  NoIssue = NoIssue
INVARIANTS VerdictIsOwn EventsLand
PROPERTIES PassEnds
