SPECIFICATION Spec
CONSTANTS
  Case = {c1}
  Job = {j1}
  Canceller = {k1}
  good = good
  wide = wide
  sly = sly
  Clean = clean
  Patch = {clean, good, wide}
  MaxPatchAttempts = 1
  Verifier = {v1}
  Reviewer = {r1}
  File = {"module", "elsewhere"}
  Scope = {"module"}
  Status <- MCStatus
  Diff <- MCDiff
  Sound = {good, wide}
  Guarded = {clean, good, wide}
  MaxEdits = 1
INVARIANTS
  ApprovedIsFit
CHECK_DEADLOCK FALSE
