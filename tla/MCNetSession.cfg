SPECIFICATION SessionSpec
CONSTANTS
  Commands = {"dhcp", "tftp", "sntp", "ping"}
  Conns = {c1, c2, c3}
INVARIANTS Balanced PollsLiveDevice CallbacksHaveContext
