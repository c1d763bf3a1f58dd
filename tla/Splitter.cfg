SPECIFICATION SplitSpec
CONSTANTS
    Space = {" "}
    SP_SIZE = 2
    Moved = Moved
    Texts <- MCTexts
    Matches <- MCMatches
INVARIANTS PiecesArrive ListFits
