SPECIFICATION Spec
CONSTANTS
    g1 = g1  g10 = g10  galpha = galpha  grc = grc
    gnb = gnb  g128 = g128  g1a = g1a  h10 = h10
    NoPkg = NoPkg
    Pkg = {g1, g10, galpha, grc, gnb, g128, g1a, h10}
    Name <- MCName
    Version <- MCVersion
    StrOrder <- MCStrOrder
    Patterns <- MCPatterns
    IntMax = 31
INVARIANTS BestExact RangeConvex CollatingSequence
CHECK_DEADLOCK FALSE
