CONSTANTS
  Args = {a1, a2}
  Freq = {f1, f2}
  DefaultArgs = a1
  DefaultFreq = f1
  Sim = Sim
  None = None
  MaxCommands = 4
SPECIFICATION Spec
INVARIANT DeviceAsEntered
