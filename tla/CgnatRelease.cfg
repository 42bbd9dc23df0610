SPECIFICATION Spec
CONSTANTS
    Request = {r1}
    Subscriber = {s1, s2, s3}
    PortStart = 10
    PortEnd = 15
    PerSubscriber = 2
    None = None
INVARIANTS BlocksAreDisjoint
