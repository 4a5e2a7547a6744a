CONSTANTS
    Absent = Absent
    Position <- PlaceOf
    Patterns <- PatternTable
    Aliases <- AliasTable
    ServiceLabels <- ServiceLabelTable
    CountryAliases <- CountryAliasTable
    TextAliases <- TextAliasTable
    CountryLabels <- CountryLabelTable
    Codes = {"ua", "gb", "ax", "dr", "bp"}
    Numeric = {"12", "16", "358", "380", "44"}
    AnyWords = {"any", "any operator"}
    AnyName = "any"
    AnyLabel = "any operator"
    Catalogues <- TwoCatalogues
    DefaultService = "openai"
    DefaultCountry = "gb"
    DefaultOperator = "any"
    Requests <- ThreeRequests
    Countries = {"ua"}
    Callers = {c1, c2}
    MaxTickets = 1
SPECIFICATION NamesSpec
INVARIANTS
    SentAsListed
    AnswersBearTheNames
    LoadingChangesNoName
SYMMETRY AnyClient
