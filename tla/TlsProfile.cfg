SPECIFICATION FairTlsSpec
CONSTANTS
    Ciphers <- MCCiphers
    Profiles <- MCProfiles
    TLSProfiles <- MCTLSProfiles
    KnownCiphers <- MCKnownCiphers
    Handshakes = {h1}
    Shared = FALSE
    Nil = Nil
    Error = Error
    MaxEdits = 2
    MaxCerts = 2
    MaxFailures = 1
INVARIANTS
    RestingIsFresh
    

    
CHECK_DEADLOCK FALSE
