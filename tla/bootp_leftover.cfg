SPECIFICATION Spec
CONSTANTS
    Clients = {"DHCP"}
    Mixed = FALSE
    DhcpServers = {"A", "B"}
    BootpServers = {"C"}
    RarpServers = {"A"}
    Gateways = {"A", "C"}
    NoServer = "0"
    TIMEOUT_COUNT = 2
    MaxRequests = 3
INVARIANT NoOtherGateway
CHECK_DEADLOCK FALSE
