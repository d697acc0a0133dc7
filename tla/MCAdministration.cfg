SPECIFICATION Spec
CONSTANTS
    None = None
    Setups = {"p", "q"}
    SetupKeys = {"k1"}
    Payloads = {"p1", "p2", "bad", "old"}
    BadPayloads = {"bad"}
    OldPayloads = {"old"}
    TokenRequired = FALSE
    Migrated = {TRUE, FALSE}
    MaxOpenConns = 2
    SetupFaults = TRUE
    Blank = Blank
CHECK_DEADLOCK FALSE
INVARIANTS
    FreshAfterAck
    
    
    StrictestRuleDecides
    PolicyInForce
    KeysAreRecognised
    AdminsAreAuthorised
    
    ListingIsComplete
PROPERTIES
    SetupIsSound
