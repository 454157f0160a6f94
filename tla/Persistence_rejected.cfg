SPECIFICATION Spec
CONSTANTS
    Handlers = {h1}
    Main = main
    MaxKeys = 2
    Proxies = {"", "good", "bad"}
    Malformed = {"bad"}
INVARIANT RejectedStaysOut
