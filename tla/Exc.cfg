SPECIFICATION Spec
CONSTANTS
    StackTop = 13
    ZONE = 1
    Pages = {"heap", "guest", "unrec", "disk"}
    Premapped = {"unrec"}
    GuestExcs = {"PROG", "HEA", "SC", "DSEG", "ISEG", "ALIGN"}
INVARIANTS ContextRestored OnlyFatalHangs
PROPERTY ExceptionsEnd
CHECK_DEADLOCK FALSE
