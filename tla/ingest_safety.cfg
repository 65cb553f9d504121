SPECIFICATION Spec
CONSTANTS
    Receivers = {r1}
    MaxHour = 2
    MaxLines = 3
    MaxOutages = 1
    FlushEvery = 2
    Days = {d1, d2}
    Cut = Cut
    Rest = Rest
    Noise = Noise
    CutDay = d2
    Sent = {d1, Cut, Rest}
    BatchSize = 2
    KeepHours = 0
    MaxKills = 1
    MaxStops = 1
INVARIANTS
    IInv
    RiskBounded
PROPERTIES
    LossesExplained
    DeliverySpec
