SPECIFICATION Spec
CONSTANTS
    WebUrl = "web"
    Urls = {"u1", "u2"}
    Data = {"state=0"}
    Space = 6
    MaxRedirects = 2
    MaxHead = 12
    None = "none"
INVARIANTS
    RedirectTarget
    RequestIntact
    OneConnection
PROPERTIES
    CallReturns
