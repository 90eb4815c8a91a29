\* Two rounds, so that a retired worker races the current one; one failure.
SPECIFICATION ClipboardFairSpec
CONSTANTS
    MAX_ROUNDS = 2
    MAX_PROMPTS = 1
    MAX_DECODERS = 1
    MaxFailures = 1
INVARIANTS ChannelPublished OnlyCurrentRenders PromptOwned ChannelsWatched
PROPERTIES RetiredKeepsOut AttemptsResolve RetiredEnd WatchersEnd
