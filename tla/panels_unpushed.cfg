CONSTANTS
    Devices = {d1}
    Layout = {d1}
    Pool = {solo}
    Spread = spread
    Rotation = rotation
    Op = op
    Nobody = nobody
    Pinnable = {d1}
    Failing = {}
SPECIFICATION Spec
PROPERTIES PassedOverIsShowing
