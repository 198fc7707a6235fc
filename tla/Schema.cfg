SPECIFICATION Spec
CONSTANTS
    ci = ci
    dev = dev
    Runners <- MCRunners
    Releases <- MCReleases
SYMMETRY Symmetry
INVARIANTS SchemaFollowsVersion StuckOnlyOnRows OnlyAddressAndReminderMisfit
PROPERTIES ExitZeroMeansMigrated
