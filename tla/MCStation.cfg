\* Every sequence of calls and of changes of the link, to a queue of two.
SPECIFICATION Spec
CONSTANTS
  Modes = {"POWERDOWN", "STATIONAP"}
  Failures = {"DISCONNECTED"}
  Losses = {"DISCONNECTED"}
  MaxMail = 2
INVARIANTS ConnectedMeansConfigured AddressIsReported FlagMeansConnected LossNoticed
