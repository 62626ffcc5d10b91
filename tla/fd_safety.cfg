SPECIFICATION Spec
CONSTANTS
    Clients = {"COMMAND", "EVENT"}
    Others = {other}
    Fds = {3, 4, 5}
    Free = Free
INVARIANTS
    TypeOK
    NoLeak
