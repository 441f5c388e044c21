SPECIFICATION Spec
CONSTANTS
    process = process
    one = one
    other = other
    deepseek = deepseek
    openai = openai
    anthropic = anthropic
    Process = {process}
    Thread = {one, other}
    Home <- HomeOf
    Makes <- MakesOf
    Chain <- ChainOf
    Configured = {deepseek, openai}
    Version = {1}
    Threshold = 2
    Cooldown = 1
    TTL = 2
    MaxLoad = 1
SYMMETRY Symmetry
INVARIANTS
    TypeOK AnswersAreFresh StrikesAreBounded RetiredPromptsFade
