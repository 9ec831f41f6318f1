\* Every call of WaitForConnections returns, whatever the peer count does.
CONSTANTS
    MaxWait = 3
    Poll = 2
    MaxPeers = 3
SPECIFICATION Spec
PROPERTY WaitReturns
