SPECIFICATION Spec
CONSTANTS
    Proc = {p1, p2, p3}
    PT = {t1, t2, t3}
    Page = {g1, g2, g3}
    NVA = 1
    Val = {z, v}
    Zero = z
    Junk = junk
    None = none
    Image <- DataImage
    ImageSize = 1
SYMMETRY Symmetric
INVARIANTS RefcountExact FreeExact
 
CHECK_DEADLOCK FALSE
