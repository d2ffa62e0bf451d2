SPECIFICATION Spec
CONSTANTS
    Slots = {0, 1, 2}
    Hosts = {h1}
    Request = 2
    Buffer = 1
PROPERTY ReplyPossible
CHECK_DEADLOCK FALSE
