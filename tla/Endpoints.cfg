SPECIFICATION Spec
CONSTANTS
    None = None
    Configurations <- MCConfigurations
    Names <- MCNames
    HostNames = {"h1", "h2"}
    Files <- MCFiles
    GlobalCa = "ca.pem"
    GlobalInsecure = TRUE
    Readable = {"ca.pem"}
    Vhosts <- MCVhosts
INVARIANTS
    PublishReachesDiscoverer
    ManageReachesDiscoverer
    CallsFollowConfiguration
