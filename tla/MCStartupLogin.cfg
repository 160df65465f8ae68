SPECIFICATION Spec
CONSTANTS
    mail = "mail"
    pw = "pw"
    admin = "admin"
    corp = "corp"
    hex = "2001"
    junk = "junk"
    file = "file"
    fileSecret = "fileSecret"
    Given <- Starts
    Replies <- Typed
    Number <- Numerals
    LoopbackHosts <- Loopbacks
    Invalid = Invalid
    Nothing = Nothing
INVARIANT FileLoginVerbatim
