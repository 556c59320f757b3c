SPECIFICATION Spec
CONSTANTS
    dev = dev
    web = web
    api = api
    dWeb = dWeb
    dApi = dApi
    mine = mine
    aWeb = aWeb
    aApi = aApi
    aMine = aMine
    Dirs = {dev, web, api}
    NoDir = NoDir
    Parent <- Tree
    Hidden = {}
    Terminals = {t1}
    Name <- Names
    Domains = {dWeb, dApi, mine}
    DefaultDomain <- Defaults
    Like <- Matches
    InitialRows <- Registered
    InitialDisk <- Work
    Contents = {}
    MaxChanges = 0
    MaxProjects = 2
    Idle = Idle
    NoDomain = NoDomain
    Manifest <- Manifests
    NoManifest = NoManifest
    BareDomain <- Defaults
    AliasOf <- Aliased
    NoAlias = NoAlias
    ServiceDomain = dWeb
    ServiceAlias = service
    Refused = {}
    UserLines <- Own
    MaxEdits = 1
    MaxCommands = 4
    Off = Off
CHECK_DEADLOCK FALSE
INVARIANTS ProxyTypeOK 
PROPERTIES UserLinesSurvive
