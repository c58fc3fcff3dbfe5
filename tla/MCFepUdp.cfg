SPECIFICATION UFairSpec
CONSTANTS
    NPorts = 1
    Ids = {1}
    MaxReceCount = 0
    CountMod = 2
    QueueSize = 1
    Zero = Zero
    NoReading = NoReading
    Cells = {Zero}
    Hosts = {Server, h1}
    Server = Server
    MboxSize = 1
    h1 = h1
    Datagrams <- MCDatagrams
INVARIANTS SocketTypeOK NeverWaits
PROPERTIES ImplementsGateway AskIsAnswered TickLeadsToFrame SilentGoesOffline
