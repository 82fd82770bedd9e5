SPECIFICATION SidecarSpec
CONSTANTS
    MaxPid <- MCMaxPid
    Faults = {"crash", "stuck", "disk", "spawn"}
INVARIANTS
    DescriptorOwned
    ChildOwned
    TokenGone
PROPERTIES
    Leased
    MonitorHonest
    PluginEnds
