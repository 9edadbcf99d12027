CONSTANTS
    FrameSilence = 3
    ReadTimeout = 2
    SwitchRefresh = 2
    StaleAfter = 10
    PublishEvery = 2
    Clouds = {"up", "mute", "down"}
    Mishaps = {"drop", "die", "lapse", "wedge"}
    HasSwitches = TRUE
SPECIFICATION Spec
INVARIANTS ReattachDoesNotBlink 
PROPERTY ReadingsResume
