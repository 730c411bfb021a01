CONSTANTS
    global = global
    local = local
    Files <- MCFiles
    Order <- MCOrder
    Windows = TRUE
    Base <- MCBase
    Limit = 4
    Texts = {a, b}
    NoTexts = NoTexts
    NoIndex = NoIndex
    Year = 2
    Retention = 0
    MaxPosts = 3
SPECIFICATION Spec
INVARIANTS TypeOK OwnText
 
