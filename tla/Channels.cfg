SPECIFICATION ChannelsSpec
CONSTANTS
    Call = {"tool", "final", "again"}
    KeyOf <- MCKeyOf
    ToolCalls = {"tool"}
    Before <- MCBefore
    MaxActions = 3
    Media = {1, 2}
    TextLimit = 2
    Texts <- MCTexts
    DeliveryFaults = 1
    Rebinds = 1
    Reqst = {"o1", "o2"}
    Kinds <- MCKinds
    MaxEntry = 4
    ManagerFaults = 1
    Msg = {"codeA", "codeB", "photo", "pic"}
    From <- MCFrom
    Carries <- MCCarries
    Quotes <- MCQuotes
    Room = 1
    Handler = {h1, h2}
    Deliveries = 3
    BindChanges = 1
    IngressFaults = 1
    h1 = h1
    h2 = h2
INVARIANTS DeliveriesHonest ConnectionFollowsConfig IngressExact
PROPERTIES DeliveriesFenced StandingAtCommit ChannelsSettle
CHECK_DEADLOCK FALSE
