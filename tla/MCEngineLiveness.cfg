\* Commands over HTTP only, without simulations: the graph must stay small.
CONSTANTS
    Loops = {l1, l2}
    Monitors = {m1, m2}
    Http = http
    Timer = timer
    AutoStart = FALSE
    rl = rl
    lstm = lstm
    typo = typo
    Strategies <- Known
    Default = rl
    Configured <- Known
    None = none
    MaxSims = 0
SPECIFICATION FairSpec
PROPERTIES StopLasts HaltStopsTrading StartLasts
