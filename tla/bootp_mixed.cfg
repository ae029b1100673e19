SPECIFICATION Spec
CONSTANTS
    Clients = {"DHCP", "RARP"}
    Mixed = TRUE
    DhcpServers = {"A", "B"}
    BootpServers = {}
    RarpServers = {"A"}
    Gateways = {"A"}
    NoServer = "0"
    TIMEOUT_COUNT = 2
    MaxRequests = 3
INVARIANT AddressGranted
CHECK_DEADLOCK FALSE
