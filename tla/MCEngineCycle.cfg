\* A session that trades with LSTMDynamic.
CONSTANTS
    Loops = {l1, l2}
    Monitors = {m1, m2}
    Http = http
    Timer = timer
    AutoStart = FALSE
    rl = rl
    lstm = lstm
    typo = typo
    Strategies <- Both
    Default = rl
    Configured <- Ranked
    None = none
    MaxSims = 0
SPECIFICATION Spec
INVARIANT OneSequentialCycle
