CONSTANTS
    ann = ann
    bob = bob
    pw = pw
    wrong = wrong
    x = x
    y = y
    Public = public
    UserIds = {id1, id2}
    Users = {ann, bob}
    Passwords = {pw, wrong}
    Anonymous = anonymous
    Names = {1, 2, 3}
    Unnameable = {3}
    Contents = {x, y}
    Torn = torn
    Requests <- MCRequests
    Dir = dir
    Free = free
    Outside = outside
    FarOutside = faroutside
    Unechoed <- MCUnechoed
    Long = long
    Garbled = garbled
    Nothing = nothing
    MaxDepth = 2
    MaxRequests = 3
    MaxCrashes = 1
SPECIFICATION Spec
INVARIANT TypeOK
INVARIANT TreeSound
INVARIANT FilesWereUploaded
INVARIANT ListIsTree
INVARIANT EndsOnlyByConflict
INVARIANT RegisteredStays
PROPERTY ImplementsFileStore
CHECK_DEADLOCK FALSE
