CONSTANTS
  Args = {a1, a2}
  Freq = {f1, f2}
  DefaultArgs = a1
  DefaultFreq = f1
  Sim = Sim
  None = None
  MaxCommands = 5
SPECIFICATION FairSpec
INVARIANTS TypeOK OneDevice DriverTuned SeenFailureShown
PROPERTIES SelectorFollows LoadingEnds
