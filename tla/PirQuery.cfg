CONSTANTS
    Q = 64
    BYTE = 2
    m = 2
    elem_size = 4
    plaintext_bits = 3
    dim = 1
    queries = 2
    Elems = {{}, {0, 3}, {1, 2, 3}}
    Words = {0, 37}
    Secrets = {1, 63}
SPECIFICATION Spec
INVARIANTS
    Retrieved
    PirInv
