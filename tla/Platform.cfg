SPECIFICATION PlatformSpec
CONSTANTS
    VolUnit = 8
    VolVolumes <- SomeVolumes
    VolDevices <- SomeDevices
    VolStreams = {"MUSIC", "VC_CALL"}
    VolTable <- SomeTable
    VolCustom <- SomeCustom
    VolMaxEffects = 2
    VoxIds = {1, 2}
    VoxConfigs = {"mono16", "stereo48"}
    VoxDefault = "mono16"
    CfDims = {1, 2, 17, 33, 65, 129, 193, 256, 385, 512, 720, 961, 1080, 1088, 1089, 1441, 1633, 1889, 1919, 1920, 1921, 2160, 3840, 8192}
    CfMaxDim = 8192
    XmlMaxNodes = 4
    XmlMaxTokens = 5
    XmlMaxDepth = 4
    XmlMaxLost = 1
    XmlTags <- SomeTags
    XtValues <- SomeValues
    XtCodePoints = {1, 10, 38, 127, 128, 2047, 2048, 65535, 65536, 1114111, 1114112, 9999999, 10000000, 16777216}
    XtMaxZeros = 2
    XtBodies <- SomeBodies
    TkSec = 2
    TkMargin = 4
    TkRefresh = 3
    TkMinWall = 16
    TkMaxWall = 60
    TkAhead = {15, 26, 58}
    TkMaxReal = 3
    TkMaxSets = 2
    TkMaxFaults = 2
    FwNames <- SomeNames
    FwTexts <- SomeTexts
    FwContents <- SomeContents
    FwBuffer = 3
    FwMaxImage = 4
    FwMaxPartitions = 2
    FwMaxReleases = 2
    kEncoders = {"avc.encoder"}
    kDecoders = {"avc.decoder"}
    CjComponents <- VendorComponents
    CjAliases <- SomeAliases
    CjSpecs <- SomeSpecs
    C2Objects = {"a", "b", "c"}
    C2Resources = {1, 2, 3}
    kCloneHandle = 3
    C2Methods = {1, 3}
INVARIANTS
    CalibrationFits
    PlanesFit
    TreeSound
    
    TextKept
    ClockKept
    FirmwareTold
    CodecsConfined
    HandlesOwned
PROPERTY
    SessionsSound
CHECK_DEADLOCK FALSE
