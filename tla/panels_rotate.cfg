CONSTANTS
    Devices = {d1, d2}
    Layout = {d1}
    Pool = {solo}
    Spread = spread
    Rotation = rotation
    Op = op
    Nobody = nobody
    Pinnable = {d1}
    Failing = {d2}
SPECIFICATION Spec
INVARIANTS TypeOK
PROPERTIES RotationGoesOn RecordsConverge
