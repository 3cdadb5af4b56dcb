SPECIFICATION DhcpFairSpec
CONSTANTS
  c1 = c1
  c2 = c2
  c3 = c3
  Clients <- MCClients
  Addresses = {1, 2, 3}
  Pool = {2}
  Reserved = {1}
  MaxLeases = 2
  AllowOutOfPool = TRUE
  None = 0
INVARIANTS DhcpTypeOK OneHolder
PROPERTY AddressReturns
