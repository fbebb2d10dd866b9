SPECIFICATION Spec
CONSTANTS
    None = None
    Null = Null
    Blank = Blank
    NullText = "None"
    Malformed = Malformed
    NaN = NaN
    Infinity = Infinity
    Texts <- SomeTexts
    Secrets <- SomeSecrets
    PageSize = 2
    Situations <- SomeSituations
    Catalogues <- SomeCatalogues
    Items <- ChangedItems
    SomeText <- SomeInput
    MaxCalls = 2
    MaxChanges = 1
INVARIANTS
    TypeOK
    AppliedCredentialsWhole
    AcceptedApplySuffices
    OptionsOfTheCategory
    RequiredFieldsGiven
    FormSuffices
    ListedComesBack
    UpdateSendsNamed
    PriceNearest
PROPERTIES
    KeepsOutcome
CHECK_DEADLOCK FALSE
