SPECIFICATION Spec
CONSTANTS
    None = None
    Blank = Blank
    call_a = call_a
    call_b = call_b
    name_x = name_x
    name_y = name_y
    fc0 = fc0
    fc1 = fc1
    CallIds = {call_a, call_b}
    Names = {name_x, name_y}
    SynthesizedName = SynthesizedName
    FnIds <- MCFnIds
    Providers = {"openai_chat", "litellm", "responses", "anthropic",
                 "bedrock", "gemini"}
    MaxAttempts = 2
    MaxChunks <- MCMaxChunks
SYMMETRY Symmetry
INVARIANTS
    CallsIntact
    FinishContract
    ChatTranslatorsAgree
PROPERTY RetryInvisible
