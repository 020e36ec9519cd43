\* Two threads; the sizes are scaled down, the values of samples are not.
SPECIFICATION PortSpec
CONSTANTS
  Threads = {t1, t2}
  Channels = {0, 1}
  Configs <- SomeConfigs
  Values = {2000, 2004, 2012}
  MedianSize = 5
  CharMax = 5
  SizeMod = 16
INVARIANTS ReadsOwnSamples SizeRestored
PROPERTY ReadReturns
