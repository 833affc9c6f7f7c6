CONSTANTS
    r1 = r1
    r2 = r2
    r3 = r3
    r4 = r4
    Reqs = {r1, r2, r3, r4}
    Emails <- MCEmails
    NoUser = NoUser
    NoTenant = NoTenant
    NoPlace = NoPlace
    Scenarios <- MCScenarios
    Stored <- MCStored
    Far <- MCFar
    Country <- MCCountry
    Soon = 1
    KnownMax = 3
    HistoryMax = 1
    MaxTries = 2
    MaxFails = 1
SPECIFICATION Spec
CHECK_DEADLOCK FALSE
INVARIANTS
    RegistrationAtomic
    SystemOnlyInScope
    UsedCodeRefused
    NewDeviceTold
PROPERTIES
    MailDrains
