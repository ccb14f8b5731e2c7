SPECIFICATION FairSpec
CONSTANTS
    Proc = {p1, p2, p3, p4, p5}
    FirstAlone = TRUE
    NoProc = NoProc
PROPERTY GuardsData
PROPERTY SomeoneEnters
