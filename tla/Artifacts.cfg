CONSTANTS
  Artifact = {kernel, initramfs}
  MaxRelease = 3
SPECIFICATION FairSpec
\* TypeOK is a conjunct of AInv.
INVARIANTS ServedTogether AInv
PROPERTY Installed
