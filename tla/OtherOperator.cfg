\* A second operator is enrolled while a console waits.
SPECIFICATION Spec
CONSTANTS
    Consoles = {tty1, ttyS0}
    NoConsole = NoConsole
    MAX_OPERATOR = 2
INVARIANT
    AuthorisedByOperator
