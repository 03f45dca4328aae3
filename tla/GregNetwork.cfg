SPECIFICATION FairSpec
CONSTANTS
    FF_min = 41000
    FF_max = 57000
    FF_0 = 34000
    FF_Alpha = 86080000
    Kp_min = 2000
    Kp_max = 3000
    Kp_0 = 1143
    Kp_Beta = 2229000
    P_setpoint = 500
    N2_floor = 10
    regMinOpenAngle = 410
    regMaxOpenAngle = 580
    regMaxOpenFirstStart = 500
    regClosedAngle = 0
    P_press_extra = 15
    P_disconnect <- MCDisconnect
    P_half_abort = 575
    P_full_abort = 630
    regPressuriseAngle = 380
    PressAngleStep = 50
    WORD = 5
    BuckPeriod = 2
    BuckPulse = 1
    BuckHold = 1
    BuckExit = 1
    StartPeriod = 1
    FeedbackReadings <- MCFeedbackFew
    N2Readings <- MCN2Few
    PressAngleArgs <- MCPressArgs
    DebugArgs <- MCDebugArgs
    ServoArgs <- MCServoArgs
    AgeCap = 0
    MaxBoots = 1
PROPERTIES
    LifecycleKept
    DisarmReturns
    ClosedEventually
