CONSTANTS
    i1 = i1  i2 = i2  g1 = g1  g2 = g2  a1 = a1  a2 = a2  b1 = b1  b2 = b2
    p1 = p1  p2 = p2  admin = admin  oracle = oracle
    NoAccount = NoAccount  NoAgent = NoAgent  NoBinding = NoBinding
    Intents <- MCIntents
    Agents <- MCAgents
    Actions <- MCActions
    Bindings <- MCBindings
    Accounts <- MCAccounts
    RoleAccounts <- MCRoleAccounts
    Admin = admin
    Oracle = oracle
    IntentDigests <- MCIntentDigests
    PrincipalSigs <- MCPrincipalSigs
    VerificationDigests <- MCVerificationDigests
    OracleSigs <- MCOracleSigs
    MaxTime = 3
SPECIFICATION Spec
INVARIANTS
    RegisteredAsSigned
    VerdictAttested
PROPERTIES
    AttestationsSpentOnce
    DeadStaysDead
    ImplementsGate
