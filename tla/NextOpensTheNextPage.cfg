SPECIFICATION Spec
CONSTANTS
    NItems = 6
    Direction = "ltr"
    PageSpread <- MCPageSpread
    PackageLayout = "reflowable"
    ItemLayout <- MCItemLayout
    ColumnsOf <- MCColumnsOf
    ElementsOf <- MCElementsOf
    Height = 100
INVARIANT
    NextOpensTheNextPage
