SPECIFICATION FairSpec
CONSTANTS
    Boxes = {b1, b2}
    Images = {i1}
    Runner = b1
    ImagesOf <- MCImagesOf
    Workers = {w1, w2}
    MaxBatch = 1
    ProbesPerHour = 1
    MaxRestarts = 1
INVARIANTS TypeOK PassAddsUp FatalStops
PROPERTY ReadWithoutScanner
CHECK_DEADLOCK FALSE
