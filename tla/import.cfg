CONSTANTS
    None = None
    Workers = 2
    Permits = 1
    Entries <- MCEntries
    Breaks = {4, 6}
    Watermark = 2
    Hot = {5}
    MaxFaults = 2
    FieldsOf <- MCFieldsOf
    ExtensionsOf <- MCExtensionsOf
    Previous <- MCPrevious
SPECIFICATION Spec
INVARIANTS TypeOK ResultScheduleFree Inv
PROPERTIES ContractKept ImportReturns ThreadsEnd
