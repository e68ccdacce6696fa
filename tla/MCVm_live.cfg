SPECIFICATION FairSpec
CONSTANTS
    Proc = {p1, p2}
    PT = {t1, t2}
    Page = {g1, g2}
    NVA = 2
    Val = {z}
    Zero = z
    Junk = junk
    None = none
    Image <- DataImage
    ImageSize = 1
PROPERTIES AccessCompletes
CHECK_DEADLOCK FALSE
