SPECIFICATION FairSpec
CONSTANTS
    MaxOrder = 1
    Methods = {"epay", "yipay", "stripe", "antom", "creem", "waffo", "ubcoin"}
    Handlers = {h1, h2, h3}
    Nodes = {1}
    NodeOf <- OneNode
    MaxFaults = 2
INVARIANTS TypeOK CreditedOnce AckedIsCredited CreditedIsSuccess
PROPERTY PaymentEnds
