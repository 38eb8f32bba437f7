CONSTANTS
    lowest_trackable_value = 1
    highest_trackable_value = 500
    significant_figures = 1
    ticks_per_half_distance = 5
    Halvings = 3
    Commands <- MCCommands
    Instants <- MCInstants
    MS = 10
    S = 10
    CALIBRATE_DELAY_MS = 1
    TIMEOUT_INTERVAL_MS = 4
    SOCKET_TIMEOUT_MS = 4
    MinInterval = 3
    MAXL = 4
    UINT64_MAX = 65535
    MaxSends = 3
    MaxSamples = 3
SPECIFICATION LiveSpec
CONSTRAINT OneThreadSetBack
CHECK_DEADLOCK FALSE
INVARIANTS CountsReconcile ReportIsOfTheLatencies SpectrumIsOfTheLatencies WithinIsAShare
           FileIsOfTheLatencies WindowIsOfTheTarget DeathIsKnown
PROPERTIES AlwaysReports
