CONSTANTS
    Callers = {c1, c2}
    NoCaller = NoCaller
    Pids = {p1, p2}
    NoPid = NoPid
    Commands = {"control-start", "control-stop", "control-restart", "service-start",
                "service-stop", "service-restart", "save", "save-and-restart"}
SPECIFICATION ServiceSpec
INVARIANT ServiceTypeOK OneInstance Started
PROPERTY StopLeavesNothing
