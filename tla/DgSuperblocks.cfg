\* Sectors that fill up and are recycled, code that is unmapped, wrapped functions.
SPECIFICATION Spec
CONSTANTS
  k1 = k1  k2 = k2  k3 = k3
  Keys <- ThreeKeys
  Redir <- FirstRedirected
  Exits = {1}
  n_sectors = 2
  SectorRoom = 2
  UnredirRoom = 1
  MaxSBs = 5
INVARIANTS TypeOK OrdinaryExact MainSafe NoDanglingJump EdgesMatch FastCacheFresh
