CONSTANTS
    r1 = r1 r2 = r2 r3 = r3 r4 = r4
    healer = healer ctHeal = ctHeal button = button
    regrade = regrade ctRegrade = ctRegrade
    None = None
    Rows <- Four
    HealRows = {r1, r3}
    EvidenceRows = {r1, r2, r3, r4}
    InitFlagged = {r3, r4}
    Healers = {healer, ctHeal}
    Buttons = {button}
    Regraders = {regrade}
    Percent = 50
    Floor = 2
    Rollover = 1
    Modes <- SerialAndRacing
    MaxPasses = 2
    MaxChurn = 1
    MaxResets = 1
    MaxTime = 1
SPECIFICATION Spec
CHECK_DEADLOCK FALSE
INVARIANTS WithinBudget NoWipe PurgedIsBackedUp FlaggedReachesExport
PROPERTIES DeletesAreSound TripHolds
