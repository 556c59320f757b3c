SPECIFICATION Spec
CONSTANTS
    Terminals = {t1, t2}
    Services = {"prometheus", "grafana", "jupyter"}
    GrafanaFiles <- Provisioned
    Gateways = {1, 2}
    MaxCommands = 3
    MaxChanges = 2
    Idle = Idle
    Absent = Absent
    NoGateway = NoGateway
SYMMETRY Symmetry
CHECK_DEADLOCK FALSE
INVARIANTS ServiceTypeOK EditRecoverable JupyterTokenAgrees
