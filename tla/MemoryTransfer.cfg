SPECIFICATION FairSpec
CONSTANTS
  PBUFSIZ = 60
  WriteSizes = {22, 60}
  RegSizes = {24}
  Addrs = {0, 60, 190}
  Lens = {1, 9, 20}
  Specials = {{}, {1}, {2, 3, 4, 8, 9}}
  CoreSpace = 4096
  MaskSpace = 64
  Worlds = {{"errors"}, {"errors", "quits"}, {"errors", "timeouts", "quits"}}
INVARIANTS PacketRight CountsTrue OnlyOwnBytes
PROPERTY TransferReturns
