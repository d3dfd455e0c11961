SPECIFICATION ExecSpec
CONSTANTS
    p = p
    usd = usd
    Keys = {k1, k2}
    Identities = {i1, i2}
    Projects = {p}
    ProjectOf <- MCProjectOf
    Currencies = {usd}
    Amounts = {1}
    Policies <- MCPolicies
    DefaultPolicy <- MCDefault
    Payloads = {r1, r2}
    Global = Global
    Unknown = Unknown
    None = None
    Callers = {c1, c2}
SYMMETRY MCSymmetry
INVARIANTS
    SentOnce
    AnswersAgree
PROPERTIES
    NoBlindResend
    Ceilings
    EvidenceKept
