SPECIFICATION Spec
CONSTANTS
    finance = finance
    csc = csc
    xero = xero
    netcash = netcash
    read = read
    write = write
    openid = openid
    admin = admin
    None = None
    FINANCE = finance
    READ = read
    WRITE = write
    Names <- MCNames
    RESERVED_DOMAINS <- MCReserved
    FINANCE_PROVIDERS <- MCProviders
    Requirements <- MCRequirements
    Tokens <- MCTokens
INVARIANTS
    TypeOK
    AllowedByAuthority
    RefusalNamesFirstMissing
    NoRequestTimeError
PROPERTIES
    GrantsAreMonotone
    PermissionsDecideAlone
CHECK_DEADLOCK FALSE
