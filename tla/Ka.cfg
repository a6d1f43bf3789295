CONSTANTS
    Opts <- MCOpts
    DftOpt <- MCDftOpt
    StartsFirst = TRUE
    SilenceMax = 11
    Never = Never
    Dead = Dead
SPECIFICATION KaFairSpec
INVARIANTS KaTypeOK
PROPERTIES NotTooSoon GoneIsNoticed
