SPECIFICATION Spec
CONSTANTS
    CommandLines <- UnknownLines
    Names <- MCNames
    MaxFaults = 0
PROPERTY Ends
