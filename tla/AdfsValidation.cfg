SPECIFICATION Spec
CONSTANTS
    c1 = c1
    c2 = c2
    c3 = c3
    c4 = c4
    d1 = d1
    d2 = d2
    a1 = a1
    a2 = a2
    Callers = {c1, c2, c3, c4}
    Domains = {d1, d2}
    Authorities = {a1, a2}
    DomainOf <- ThreeOfOneDomain
    AuthorityOf <- TwoAuthorities
    None = None
INVARIANTS
    NoErrorMeansTrusted
CHECK_DEADLOCK FALSE
