SPECIFICATION Spec
CONSTANTS
    infra_web = infra_web
    infra_net = infra_net
    aang = aang
    web = web
    app = app
    queue = queue
    Projects = {aang}
    Services = {web, app, queue}
    ComposeNetworks <- Measured
    ProxyNetwork = infra_web
    DefaultNetwork = infra_web
    SharedServicesNetwork = infra_net
    Gateways = {g1, g2, g3, g4}
    Loopback = Loopback
    AnyHost = AnyHost
    GivenAddrs = {g1, AnyHost}
    NotGiven = NotGiven
    None = None
SYMMETRY Symmetry
INVARIANT StatusMeansHeard
