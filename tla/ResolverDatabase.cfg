SPECIFICATION LiveSpec
CONSTANTS
    MaxRetries = 3
    Timeout = 7
    CallerDeadlines <- AnyCaller
    None = None
PROPERTY
    SilentDatabaseFallsBack
