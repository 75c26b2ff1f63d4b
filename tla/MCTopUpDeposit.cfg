SPECIFICATION Spec
CONSTANTS
    MaxOrder = 2
    Methods = {"ubcoin"}
    Handlers = {h1}
    Nodes = {1}
    NodeOf <- OneNode
    MaxFaults = 0
INVARIANT DepositCreditedOnce
