SPECIFICATION Spec
CONSTANTS
    MAX_ROUNDS = 2
    MAX_PROMPTS = 1
    MAX_DECODERS = 1

PROPERTY RetiredPublishesNothing
