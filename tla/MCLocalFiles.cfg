SPECIFICATION Spec
CONSTANTS
    Workers = {"run", "handler"}
    Packager = "run"
    PackageNames = {"first.run"}
    Builds = {1, 2, 3}
    NameOf <- MCNameOf
    SizeOf <- MCSizeOf
    Places = {1, 2}
    MaxEdits = 1
    MaxMembers = 2
    MaxFiles = 1
INVARIANTS PackagesAsListed OldTreeKept UnpackedIsClear
PROPERTY OthersFilesStay
CHECK_DEADLOCK FALSE
