CONSTANTS
    old = old  new = new  NoImage = NoImage
    Image = {old, new}
    Size <- Small
    Version <- OneVersion
    Product = {new}
    Old = old
    AppSect1 = 1  AppCap = 2  DataSect1 = 2  DataCap = 3
    MaxBoxes = 1  Retries = 2
    MaxNotify = 2  MaxCancel = 1  MaxCut = 1
SPECIFICATION Spec
INVARIANTS StartsWholeApp AckedIsInstalled
PROPERTIES Installs TaskEnds
