\* The two strategies there are, two trading loops, one monitor.
SPECIFICATION FairSpec
CONSTANTS
    rl = rl
    lstm = lstm
    Names <- Both
    Loops = {l1, l2}
    Monitors = {m1}
    None = none
INVARIANTS
    TypeOK
    ViewsAgree
PROPERTIES
    SwapsTakeEffect
    TargetPrevails
