SPECIFICATION Spec
CONSTANTS
    v1 = v1  v2 = v2
    p1 = p1  p2 = p2
    colour = colour  size = size  cloth = cloth
    red = red  blue = blue  large = large  silk = silk
    Variant = {v1, v2}
    Value <- MCValue
    Process = {p1, p2}
    Calls <- MCCalls
    MaxValues = 2
    NoVariant = NoVariant
INVARIANTS CombinationsDistinct KeyIsAttached DesyncNeedsOverlap
PROPERTIES ImplementsRegistry UpdatesEnd
