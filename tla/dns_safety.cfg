CONSTANTS
    local = local
    web = web
    www = www
    cdn = cdn
    cd = cd
    short = short
    top = top
    long = long
    pics = pics
    img = img
    NoName = NoName
    NoRecord = NoRecord
    Names = {local, web, www, cdn, cd, short, top, long, pics, img}
    Size <- MCSize
    CutName <- MCCutName
    UncutName <- MCUncutName
    Static = {local}
    DefaultStatic = {}
    Responses <- MCResponses
    Alias <- MCAlias
    Queries <- MCQueries
    StaticTtl = 2
    Ttls = {1}
    MaxTime = 2
    MaxQueries = 2
    MaxLosses = 1
    MaxRepeats = 1
    MaxCrashes = 1
SPECIFICATION Spec
INVARIANT TypeOK
 
INVARIANT FileIsMemory
INVARIANT WithinTimeToLive
INVARIANT AnswersReadRight
PROPERTY Served
CHECK_DEADLOCK FALSE
