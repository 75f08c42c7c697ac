\* Four labels, up to three writers of the rows of an item and a job.
CONSTANTS
  w = w
  x = x
  y = y
  W = W
  s1 = s1
  s2 = s2
  s3 = s3
  a1 = a1
  n1 = n1
  Creators = {w, x, y, W}
  Name <- MCName
  Fold <- MCFold
  Setters = {s1, s2, s3}
  Adders = {a1}
  Wanted <- MCWanted
  NameJobs = {n1}
  Casts <- MCCasts
SPECIFICATION Spec
INVARIANTS LabelsWhole NamesCurrent
CHECK_DEADLOCK FALSE
