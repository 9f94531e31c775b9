CONSTANTS
    TentativeBudget = 40
    Patience = 8
    Speaking = {"hermes", "mistral", "deepseek", "llama", "generic"}
    Replies <- MCReplies
SPECIFICATION ToolSpec
INVARIANTS CannotBeUnprinted WrittenIsRead ModesAgree
