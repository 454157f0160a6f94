SPECIFICATION Spec
CONSTANTS
    Handlers = {h1, h2}
    Main = main
    MaxKeys = 2
    Proxies = {"", "good", "bad"}
    Malformed = {"bad"}
INVARIANTS IdentityKept LogoutSticks SavedWhenQuiet
