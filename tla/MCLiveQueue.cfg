\* Three clients, with every write of theirs conditional or not.
SPECIFICATION QueueSpec
CONSTANTS
    Client = {c1, c2, c3}
    MaxWrites = 2
    None = None
SYMMETRY Alike
INVARIANT QueueTypeOK
PROPERTIES
    NoUpdateIsLost
    ImplementsRegister
