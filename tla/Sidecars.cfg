SPECIFICATION FairSpec
CONSTANTS
    a = a
    b = b
    x = x
    y = y
    n = n
    Names = {n}
    Shown <- SamePicture
    Stems <- MCStems
    DirOf <- TwoDirectories
    None = None
    Own = Own
    PdfStems = {a, b}
    OwnStems = {a}
    DeleteStems = {a}
    MaxUser = 3
    MaxFaults = 1
    Faults = {"convert", "insert", "crash"}
    Dying = {{"conversion"}, {"run", "api"}}
    OneTask = TRUE
    FilesWhileBusy = FALSE

    
PROPERTIES
    OwnMarkdownKept
    
