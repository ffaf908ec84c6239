\* Two clients and one sandbox; one Config is returned.
CONSTANTS
    OwnMaps <- MCOwnMaps
    CallerConfigs <- MCCallerConfigs
    Environments <- MCEnvironments
    Versions <- MCVersions
    NewKeys <- MCNewKeys
    MaxClients = 2
    MaxReturned = 1
    MaxBoxes = 1
SPECIFICATION Spec
INVARIANTS
    CredentialsAreTheSDKs
    FileURLsVerify
    
PROPERTIES
    ReturnedConfigIsDetached
