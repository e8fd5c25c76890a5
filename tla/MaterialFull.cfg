SPECIFICATION Spec
CONSTANTS
    MaxUploads = 2
    MaxHistory = 1
    Clips = 2
INVARIANT FullInputFits
