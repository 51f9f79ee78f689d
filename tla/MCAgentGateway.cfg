\* Two workers, two connections one after the other, one command, two faults;
\* two hosts behind one address, one operator, one sweeper, two requests or a fault.
SPECIFICATION BoundedSpec
CONSTANTS
  Workers = {w1, w2}
  None = None
  MaxConns = 2
  MaxCmds = 1
  MaxGatewayFaults = 2
  Hosts = {h1, h2}
  Ips = {i1}
  Admins = {a1}
  Sweepers = {s1}
  Grouped = TRUE
  Uses = 2
  MaxFaults = 1
  MaxOps = 2
  MaxBusy = 2
INVARIANTS
  GatewayInv
  FleetInv
SYMMETRY Alike
CHECK_DEADLOCK FALSE
