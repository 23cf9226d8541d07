\* A translation takes the place of the one that asked to be chained to it.
SPECIFICATION Spec
CONSTANTS
  k1 = k1  k2 = k2  k3 = k3
  Keys <- ThreeKeys
  Redir <- FirstRedirected
  Exits = {1}
  n_sectors = 2
  SectorRoom = 2
  UnredirRoom = 1
  MaxSBs = 5
INVARIANT SafeToErase
