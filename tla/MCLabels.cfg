SPECIFICATION Spec
CONSTANTS
    Objects <- Catalogue
    Scans <- OneOrTwo
    KeyOrder <- Order
    Snippets = {"(tls)"}
    Named = {"@m"}
    PathKeys = {"*"}
    Proxies = {"reverse_proxy"}
    Multiline = {"two_lines"}
CHECK_DEADLOCK FALSE
INVARIANTS
    OrderIndependent
    LabelsSurvive
    ReadsBack
