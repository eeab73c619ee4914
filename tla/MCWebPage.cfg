SPECIFICATION PageSpec
CONSTANTS
  Pages = {p1, p2}
  RawTargets = {"factory", "uboot"}
  Files <- MCFiles
  Macs = {"m3"}
  Factory <- MCFactory
  MaxClicks = 4
SYMMETRY Browsers
INVARIANTS ButtonWritesTarget WritesShown
