SPECIFICATION Spec
CONSTANTS
    Client = {t1, t2}
    Flusher = {t1}
    NumFrames = 1
    NumPages = 2
    OldPages = 1
    MaxLsn = 2
    PinModulus = 4
INVARIANTS
    NoFrameLost
    CleanIsOnDisk
    WalBeforePage
    GuardSeesLatest
    WakeupToCome
