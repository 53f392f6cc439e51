SPECIFICATION McpSpec
CONSTANTS
    Urls = {"a", "b"}
    Served <- MCServed
    Depths = {1, 10}
    MaxMessages = 4
CHECK_DEADLOCK FALSE
INVARIANTS TreeAsRead NumbersReach
