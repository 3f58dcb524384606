SPECIFICATION Spec
CONSTANTS
    Symbols = {s1}
    LSTM = LSTM
    RL = RL
    News = News
    Guard = Guard
    Advisors <- Table
    Weight <- DefaultWeight
    BuyScores <- Buys
    AdvisorScores <- Opinions
    Asked = Asked
    Excluded = Excluded
    Lost = Lost
    Malformed = Malformed
    Fallback = Fallback
    Dispatch = Dispatch
    Nobody = Nobody
    KillAge = 1
    NoError = NoError
INVARIANT NoTradeBeforeGate
