SPECIFICATION DhcpSpec
CONSTANTS
  c1 = c1
  c2 = c2
  c3 = c3
  Clients <- MCClients
  Addresses = {1, 2, 3, 4}
  Pool = {2, 3}
  Reserved = {1}
  MaxLeases = 2
  AllowOutOfPool = FALSE
  None = 0
PROPERTY AckIsExact
