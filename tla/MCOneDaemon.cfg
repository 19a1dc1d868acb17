CONSTANTS
  c1 = c1
  c2 = c2
  d1 = d1
  d2 = d2
  d3 = d3
  Clients <- MCClients
  Readers <- MCReaders
  Daemons <- MCDaemons
  MaxFaults = 0
SPECIFICATION StartupSpec
INVARIANTS
  OneDaemon
