CONSTANTS
    None = None
    Workers = 2
    Permits = 2
    Entries <- MCEntries
    Breaks = {6}
    Watermark = 2
    Hot = {4, 5}
    MaxFaults = 1
    MaxAttempts = 2
    FieldsOf <- MCFieldsOf
    ExtensionsOf <- MCExtensionsOf
    Previous <- MCPrevious
SPECIFICATION RetrySpec
INVARIANT OneRowEach
