\* Two connections of three plugins, one client, two commands, and the host's end.
SPECIFICATION FairSpec
CONSTANTS
    Sessions = {p, q, r}
    p = p
    q = q
    r = r
    i1 = i1
    i2 = i2
    pq = pq
    MaxConns = 2
    InstanceOf <- MCInstanceOf
    ContextOf <- MCContextOf
    Abbreviates <- MCAbbreviates
    Clients = {c1}
    c1 = c1
    Host = Host
    Cmds = {relayed, own}
    relayed = relayed
    own = own
    Issuer <- MCIssuer
    Target <- MCTarget
    KeepAlive = FALSE
INVARIANTS
    ListsAreTrue
    RelaysPending
    ResolvesWhatIsMeant
PROPERTIES
    CommandsEnd
CHECK_DEADLOCK FALSE
