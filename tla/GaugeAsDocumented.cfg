SPECIFICATION NumberSpec
CONSTANTS
    DblMax = 6
    NoValue = NoValue
PROPERTY
    GaugeAsDocumented
