SPECIFICATION Spec
CONSTANTS
    MaxUploads = 1
    MaxHistory = 1
    Clips = 1
INVARIANT NoSendUnderLock
