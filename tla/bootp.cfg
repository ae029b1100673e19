SPECIFICATION FairSpec
CONSTANTS
    Clients = {"BOOTP", "DHCP", "RARP"}
    Mixed = FALSE
    DhcpServers = {"A", "B"}
    BootpServers = {"C"}
    RarpServers = {"A"}
    Gateways = {"A", "C"}
    NoServer = "0"
    TIMEOUT_COUNT = 2
    MaxRequests = 3
INVARIANTS TypeOK AddressGranted OneLease GatewayFollows
PROPERTY WaitEnds
CHECK_DEADLOCK FALSE
