CONSTANTS
    ShellModes = {"auto", "posix", "prompt_only"}
    Devices = {"posix", "appliance"}
    Logins = {TRUE, FALSE}
    MaxOps = 2
    MaxEvents = 1
    Limit = 5
    None = None
    Protocols = {"scp", "sftp", "ftp"}
    Keyword <- MCKeyword
    MaxText = 3
SPECIFICATION RemotesSpec
INVARIANTS
    AnswersAreTrue PasswordAtPrompts TransfersAreWhole
PROPERTY ImplementsConsole
CHECK_DEADLOCK FALSE
