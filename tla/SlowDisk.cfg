SPECIFICATION Spec
CONSTANTS
    Machines = {{"virtio"}}
    Lba = {0, 1}
    Sector = {Blank, a}
    Blank = Blank
    a = a
    Attempts = 3
    MaxErrors = 0
INVARIANTS
    CompletionIsOurs
