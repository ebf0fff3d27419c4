SPECIFICATION Spec
CONSTANTS
    CommandLines <- UsualLines
    Names <- MCNames
    MaxFaults = 1
INVARIANT RunsWhatWasAsked
INVARIANT OpenedAsAsked
INVARIANT GivenBack
PROPERTY Ends
