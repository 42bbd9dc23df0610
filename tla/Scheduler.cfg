SPECIFICATION PartsSpec
CONSTANTS
    t1 = t1
    t2 = t2
    b1 = b1
    Long = 3
    Task = {t1, t2}
    Backup = {b1}
    None = None
    Minutes <- MCMinutes
    Minute <- MCMinute
    Pause = 6
    Interval <- MCInterval
    TaskGap = 11
    BackupGap = 12
    Work <- MCWork
    Start <- MCStart
    Horizon = 94
    Crashes = 1
    Requests = 1
    Rule = {everywhere, one}
    Server = {s1, s2}
    everywhere = everywhere
    s1 = s1
    ServerId <- ServerOf
    Cooldown <- CooldownOf
    AlertHorizon = 2
    AlertPasses = 2
    AlertKills = 1
INVARIANTS  NoTwoMinutesMissed 
PROPERTIES SpacedStarts
CHECK_DEADLOCK FALSE
