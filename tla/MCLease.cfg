CONSTANTS
  a = a  b = b  s = s
  MAC = {a, b, s}
  NoAddr = NoAddr  NoMAC = NoMAC
  MaxAddr = 2
  LeaseTime = 2
  MaxNow = 3
  Configs <- EditedConfigs
SPECIFICATION Spec
SYMMETRY Clients
\* TypeOK is a conjunct of IInv.
INVARIANTS LeasesAllowed Exclusive Durable IInv
PROPERTIES StableAddress HoldRespected ImplementsBook
