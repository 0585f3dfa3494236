\* Both terminals; calls may outlive the consoles' deadlines.
SPECIFICATION LiveSpec
CONSTANTS
    Consoles = {tty1, ttyS0}
    NoConsole = NoConsole
    MAX_OPERATOR = 1
INVARIANTS
    UnlockedByCheck
PROPERTY
    ConsoleAnswers
