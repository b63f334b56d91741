CONSTANTS
  propose = propose batch = batch add = add
  out1 = out1 script = script claim = claim value = value
  Runs = {propose, batch, add}
  Payloads = {out1, script, claim, value}
  Kind <- KindOf
  Writes <- WritesOf
  Pinned = {propose}
  MaxTime = 1
  MaxFaults = 1
SPECIFICATION Spec
INVARIANTS RetryIsDeduplicated
CHECK_DEADLOCK FALSE
