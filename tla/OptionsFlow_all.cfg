CONSTANTS
    r1 = r1
    h1 = h1
    h2 = h2
    Flows = {"f1", "f2"}
    Entries = {e1, e2}
    Hosts = {h1, h2}
    Routers = {r1}
    RouterAt <- MCRouterAt
    Conns = {"ubus"}
    Beside = {"none", "deploying"}
    Brokers = {"b1"}
    MaxPassword = 3
    Reach <- MCReach
    Straight = {"f2"}
    MacMissing = FALSE
    Unsure = {"f2"}
SPECIFICATION Spec
INVARIANTS TypeOK OneEntryPerRouter
PROPERTIES CredentialsProved OptionsOnRouter
