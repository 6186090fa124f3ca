SPECIFICATION StableLockSpec
CONSTANTS
    Base = {b1, b2}
    Request = {1}
    Drone = {}
    Attempt = {g1, g2}
    None = None
    b1 = b1
    b2 = b2
    g1 = g1
    g2 = g2
SYMMETRY Symmetry
INVARIANTS NoMutualRefusal
