SPECIFICATION Spec
CONSTANTS
  x = x
  g = g
  k1 = k1
  k2 = k2
  k3 = k3
  None = None
  Names = {x}
  Grants = {g}
  KeyPairs = {k1, k2, k3}
  GrantId <- MCGrantId
  Algorithm <- MCAlgorithm
  KeyStrings <- MCKeyStrings
  Entries <- MCEntries
  Blobs <- MCBlobs
  MaxChanges = 3
INVARIANTS
  PublicKeyIsReturned
