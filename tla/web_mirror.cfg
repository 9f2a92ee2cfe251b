CONSTANTS
  Args = {a1}
  Freq = {f1, f2}
  DefaultArgs = a1
  DefaultFreq = f1
  Sim = Sim
  None = None
  MaxCommands = 2
  Client = {c1}
  Malformed = Malformed
  Error = Error
  MaxDown = 1
SPECIFICATION WebFairSpec
INVARIANTS WebTypeOK WebFailureShown OwnerInControl
PROPERTIES MirrorConverges WebSelectorFollows
