SPECIFICATION Spec
CONSTANTS
    Handlers = {h1, h2}
    Main = main
    MaxKeys = 2
    Proxies = {"", "good"}
    Malformed = {}
INVARIANT ProxyInSync
