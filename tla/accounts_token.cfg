SPECIFICATION Spec
CONSTANTS
    Callers = {c1, c2}
    Usernames = {u}
    Passwords = {p, q}
    Tokens = {t1, t2}
    NoUser = NoUser
    NoToken = NoToken
    Second = 2
    TokenExpired = 1
    ZoneOffset = 0
    LastMoment = 3
    Faults = {}
PROPERTY EveryTokenHonoured
