\* Every line of up to two tags, numbers of up to three digits before and behind the
\* point, one of which is in range on either side and two of which the Ragel grammar
\* takes.
SPECIFICATION Spec
CONSTANTS
    Representable = 1
    Normal = 1
    MaxDigits = 2
    Key <- MCKey
    TagText = {x, y}
    JsonSize = 1
    StableSort = TRUE
    MaxTags = 2
    NoRefusal <- MCNoRefusal
INVARIANTS
    ParsersAgree
    DocumentedUnderstood
    UndocumentedRefused
    TagsAsDocumented
