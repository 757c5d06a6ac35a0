CONSTANTS
    None = None
    Builtin = Builtin
    Partial = Partial
    Readings <- TwoReadings
    Keepalive = 1
    Watchdog = 4
    MaxCall = 1
    ExitWait = 1
    Backlog = 1
SPECIFICATION FairSpec
INVARIANTS TypeOK NoCommandLost PanelShowsRendered WholeFrameOnScreen
PROPERTIES GaugeComesUp PanelHandedBack
