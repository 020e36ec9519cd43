\* Two threads and the upgrade, calls of up to two commands.
SPECIFICATION FlashSpec
CONSTANTS
  Apps = {a1, a2}
  Ota = ota
  Free = free
  MaxSize = 2
SYMMETRY AppSymmetry
INVARIANTS UpgradeNeverIgnored IgnoredOnlyInRace
