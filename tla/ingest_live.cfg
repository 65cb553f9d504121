SPECIFICATION FairSpec
CONSTANTS
    Receivers = {r1, r2}
    MaxHour = 1
    MaxLines = 3
    MaxOutages = 0
    FlushEvery = 2
    Days = {d1, d2}
    Cut = Cut
    Rest = Rest
    Noise = Noise
    CutDay = d2
    Sent = {d1}
    BatchSize = 2
    KeepHours = 0
    MaxKills = 1
    MaxStops = 1
PROPERTIES
    PublishedIsStored
    Settles
    StreamDrains
