CONSTANTS
    f1 = f1 f2 = f2
    a = a A = A b = b
    here = here there = there
    Facts = {f1, f2}
    Texts = {a, A}
    Norm <- MCNorm
    Place <- MCPlace
    InitFacts <- MCInit
    Origins <- MCOrigins
    Races = {FALSE}
    MaxUpsets = 2
SPECIFICATION Spec
CHECK_DEADLOCK FALSE
INVARIANTS ConfirmIsDurable SuppressionIsCarried
PROPERTIES LedgerIsObeyed
