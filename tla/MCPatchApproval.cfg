SPECIFICATION Spec
CONSTANTS
  Case = {c1}
  Job = {j1, j2}
  Canceller = {k1, k2}
  good = good
  wide = wide
  sly = sly
  Clean = clean
  Patch = {clean, good, wide, sly}
  MaxPatchAttempts = 1
  Verifier = {v1, v2}
  Reviewer = {r1}
  File = {"module", "elsewhere"}
  Scope = {"module"}
  Status <- MCStatus
  Diff <- MCDiff
  Sound = {good, wide, sly}
  Guarded = {clean, good, wide}
  MaxEdits = 1
SYMMETRY CallSymmetry
INVARIANTS
  
  ApprovedIsVerified
  AttemptsBounded
PROPERTIES
  CancelledIsFinal
CHECK_DEADLOCK FALSE
