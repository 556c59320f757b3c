SPECIFICATION RegistrySpec
CONSTANTS
    dev = dev
    web = web
    api = api
    apiWeb = apiWeb
    d1 = d1
    d3 = d3
    mine = mine
    Dirs = {dev, web, api, apiWeb}
    NoDir = NoDir
    Parent <- Tree
    Hidden = {}
    Terminals = {t1, t2}
    Name <- Names
    Domains = {d1, d3, mine}
    DefaultDomain <- Defaults
    Like <- Matches
    InitialRows = {}
    InitialDisk <- Bare
    Contents <- Put
    MaxChanges = 3
    MaxProjects = 3
    Idle = Idle
SYMMETRY Symmetry
CHECK_DEADLOCK FALSE
INVARIANTS RegistryTypeOK RegistryIntegrity
PROPERTIES ParkKeepsDomains ParkMirrorsDisk
