SPECIFICATION FairSpec
CONSTANTS
    yasm = yasm
    Name = {ogg, opus, yasm}
    Kind <- MCKind
    Sourced = {ogg, opus, yasm}
    Signature = {1, 2}
INVARIANTS
    TypeOK
    RefusedIfStuck
    OutIsComplete
PROPERTIES
    BuiltAfterDepends
    JobEnds
