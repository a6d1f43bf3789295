CONSTANTS
    Opts <- MCOpts
    DftOpt <- MCDftOpt
    StartsFirst = FALSE
    SilenceMax = 11
    Never = Never
    Dead = Dead
SPECIFICATION KaSpec
INVARIANTS VclockGiven
