\* One walk of an OLT that is removed meanwhile.
SPECIFICATION Spec
CONSTANTS
    Walk = {w1, w2}
    IfIndex = {i1, i2}
PROPERTIES NeverThrows
