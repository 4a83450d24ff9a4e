SPECIFICATION Spec
CONSTANTS
  ip1 = ip1
  ip2 = ip2
  Sources = {ip1, ip2}
  Ports = {22, 80}
  AUTH_PORTS = {22}
  Tools = {"nmap"}
  NoTool = "none"
  PORT_SCAN_WINDOW = 1
  PORT_SCAN_THRESHOLD = 1
  BF_WINDOW = 2
  BF_THRESHOLD = 2
  DEBOUNCE_WINDOW = 2
  MaxHeld = 3
SYMMETRY AnySource
INVARIANTS
  TypeOK
  AlertsAreExact
PROPERTIES
  Debounced
