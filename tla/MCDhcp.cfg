CONSTANTS
  a = a  b = b
  Client = {a, b}
  NoAddr = NoAddr
  Pool = {1, 2}
  Bindings <- SomeBindings
  Archs <- OneBoots
  UserClass <- ByVendorClass
  Embedded = {"undionly.kpxe", "snponly.efi"}
  MaxHandlers = 2
SPECIFICATION FairSpec
\* TypeOK is a conjunct of HInv.
INVARIANTS UsedByOne HInv
  
