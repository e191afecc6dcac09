CONSTANTS
    OtherCategories <- MC_OtherCategories
    OtherActions <- MC_OtherActions
    CatIds <- MC_CatIds
SPECIFICATION Spec
INVARIANT ParseErrorDescribesRequest
