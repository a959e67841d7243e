SPECIFICATION Spec
CONSTANTS
    finance = finance
    xero = xero
    investec = investec
    read = read
    write = write
    c1 = c1
    c2 = c2
    None = None
    FINANCE = finance
    READ = read
    WRITE = write
    RESERVED_DOMAINS = {}
    Names <- MCNames
    FINANCE_PROVIDERS <- MCProviders
    Clients <- TwoClients
    Shapes <- FewShapes
    Deployments <- AllDeployments
    Pool = 1
INVARIANTS
    EveryRequestAudited
