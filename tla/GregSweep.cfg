SPECIFICATION Spec
CONSTANTS
    FF_min = 41000
    FF_max = 57000
    FF_0 = 34000
    FF_Alpha = 86080000
    Kp_min = 2000
    Kp_max = 3000
    Kp_0 = 1143
    Kp_Beta = 2229000
    P_setpoint = 500
    N2_floor = 10
    regMinOpenAngle = 410
    regMaxOpenAngle = 580
    regMaxOpenFirstStart = 500
    FeedbackGrid <- MCFeedback
    N2Grid <- MCN2
    P_full_abort = 630
INVARIANTS
    MinimumOpenAtFullAbort
PROPERTIES
    RisingPressureNeverOpens
    FallingNitrogenNeverCloses
