CONSTANTS
    TentativeBudget = 40
    Patience = 8
    Speaking = {"llama", "generic"}
    Replies <- CodeReplies
SPECIFICATION ToolSpec
INVARIANT WrittenIsRead
