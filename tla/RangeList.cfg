CONSTANTS
    Top = 12
    Grain = 2
SPECIFICATION Spec
PROPERTY ImplementsSet
