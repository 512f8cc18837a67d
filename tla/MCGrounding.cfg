CONSTANTS
    name = name
    amount = amount
    flag = flag
    Field = {name, amount, flag}
    Named = {name, amount}
    PageWidth = 6
    MinTextWords = 2
    MaxTextPages = 2
    Threshold = 80
    Unspaced = {8, 9}
    Digit = {4}
    Confidence = {79, 80, 95}
    Picks <- MCPicks
    Docs <- MCDocs
    Engines = {"none", "tesseract", "docling"}
    Leaves <- MCLeaves
    Runs = 2
SPECIFICATION RefinerSpec
INVARIANTS GroundingIsTruthful BestPageWins
