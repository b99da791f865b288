SPECIFICATION Spec
CONSTANTS
    Menu <- MCMenu
    Segs = 2
    MaxVal = 1
    Rates = {1}
    Remote = {"mode"}
    LongStep = 1
    ShortIdle = 1
    LongIdle = 2
INVARIANTS PagesExist
PROPERTIES StoresWhatIsShown EditStartsClean GoesHome
