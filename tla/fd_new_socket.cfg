SPECIFICATION Spec
CONSTANTS
    Clients = {"COMMAND"}
    Others = {}
    Fds = {3}
    Free = Free
INVARIANTS
    NewSocketSurvives
