\* Every command, with the timer, a simulation and a name no strategy has.
CONSTANTS
    Loops = {l1, l2}
    Monitors = {m1}
    Http = http
    Timer = timer
    AutoStart = TRUE
    rl = rl
    lstm = lstm
    typo = typo
    Strategies <- Known
    Default = rl
    Configured <- Unknown
    None = none
    MaxSims = 1
SPECIFICATION Spec
INVARIANTS TypeOK StopSticks
PROPERTY StopDrains
SYMMETRY Symmetry
