SPECIFICATION FairSpec
CONSTANTS
    MaxInitialTriesToConnect = 3
    MaxRetriesToConnect = 10
    ConfiguredRetries = Unset
    Unset = Unset
PROPERTIES
    TriesFollowOptions
