\* Two processes and a kernel thread, a stack of one page and an image of two.
\* Nine pages are free, fewer than the two processes need, so that both the test
\* and the requests fail; two bits behind the zone may be given as well.
SPECIFICATION TaskMemSpec
CONSTANTS
  Clients = {a, b, k}
  Users = {a, b}
  StackPages = 1
  ImagePages = 1
  Normal = 10
  Dma = 5
  Kernel = 1
  Top = 16
  Counts = {1}
  Aligned = {0, 3}
SYMMETRY UserSymmetry
CHECK_DEADLOCK FALSE
INVARIANTS
  NoSharing
  Accounting
  AheadIsFree
  OwnsWhatItLists
  EndsWhole
PROPERTIES
  UsesPagesAsAllowed
