\* Two chromas at two depths; 4:2:0 at 8 bits is the third cell.
SPECIFICATION Spec
CONSTANTS
    Chromas = 2
    Depths = 2
    FirstChoice = 3
    VkFormats <- MCVkFormats
    FormatMap <- MCFormatMap
    EncFormats <- MCEncFormats
    MaxInputs = 2
    Reports <- MCReports
    MaxLapses = 1
    Undefined = Undefined
INVARIANT
    PreferredIsFused
