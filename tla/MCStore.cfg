SPECIFICATION Spec
CONSTANTS
    ra = ra
    rb = rb
    doc = doc
    ext = ext
    docKey = docKey
    extKey = extKey
    Replicas <- MCReplicas
    Attrs <- MCAttrs
    DataKeys <- MCDataKeys
    AttrOf <- MCAttrOf
    Genesis <- MCGenesis
    NodeOf <- MCNodeOf
    Payloads <- MCPayloads
    Filters <- MCFilters
    Values = {1, 2}
    TxIds = {1, 2, 3}
INVARIANTS CausalExact  AttributesDefined RecoveredExact MergeLaws
