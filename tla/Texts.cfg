CONSTANTS
    CacheDirectives <- MCDirectives
    Separators <- MCSeparators
    Wildcards <- MCWildcards
    Alias <- MCAlias
    Offers <- MCOffers
    Selections <- MCSelections
    Addresses <- MCAddresses
    Messages <- MCMessages
    MaxItems <- MCMaxItems
SPECIFICATION Spec
CHECK_DEADLOCK FALSE
INVARIANT DirectivesReadBack
INVARIANT OrderHasNoMeaning
INVARIANT OffersSurvive
INVARIANT VariantsApart
INVARIANT KeyOfResource
INVARIANT ResourcesApart
INVARIANT OriginOfResource
INVARIANT StoredEndToEnd
