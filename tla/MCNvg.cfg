SPECIFICATION Spec
CONSTANTS
    dot = dot
    block = block
    comma = comma
    dash = dash
    bar = bar
    white = white
    Glyph <- MCGlyph
    PackGlyph <- MCPackGlyph
    Box <- MCBox
    White = white
    AnySize <- MCAnySize
    Flags = {"antialias", "stencil_strokes"}
    MaxFontImages = 3
    InitSize = 2
    MaxSize = 3
    MaxString = 2
    MaxTexts = 1
    MaxDraws = 2
    MaxTextureId = 4
    MaxPathCalls = 2
    MaxPoints = 3
    MaxTess = 1
    ncap = 3
    MaxText = 5
    RowWidths = {0, 2}
    MaxQueued = 8
    MaxImages = 1
    FileLens = {2, 5, 6}
    BufLen = 3
    TestLen = 2
    MaxRead = 4
    MaxPos = 8
    NumSyms = 4
    MaxBits = 4
    FastBits = 2
    DataLen = 9
    GuessLen = 2
    MaxOut = 6
    Dims = {1, 3}
    ReqComps = {0, 1, 2, 3, 4}
    IdatLens = {0, 2, 3}
    IdataLimit = 2
    MaxIdata = 5
    MaxDim = 9
    MaxLine = 9
    ByteValues = 4
    LzwSize = 1
    TableSize = 8
    Canvases <- MCCanvases
    Offsets <- MCOffsets
    Shortfalls <- MCShortfalls
    MaxCodes = 7
INVARIANTS
    VerticesFit
    DrawsOwnData
    TextShowsItsGlyphs
    FontImagesAccounted
    AtlasSound
    LayoutCoversText
    StreamInOrder
    InflateSound
    PngDelivers
    GifDecodes
