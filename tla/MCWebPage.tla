------------------------------ MODULE MCWebPage ------------------------------
EXTENDS WebPage, TLC

File(x, k, g) == [data |-> Data(x), kind |-> k, good |-> g]

Browsers == Permutations(Pages)

MCFactory == Data("e1")

\* Two files for this device, which are confirmed alike, an image for a RAM boot,
\* and backups, of which one is found invalid.
MCFiles ==
  [firmware |-> {File("f1", "openwrt", TRUE), File("f2", "openwrt", TRUE)},
   ram      |-> {File("r1", "foreign", TRUE)},
   factory  |-> {File("e2", "foreign", TRUE)},
   uboot    |-> {File("u1", "foreign", FALSE)}]
=============================================================================
