SPECIFICATION SamplerSpec
CONSTANTS
    MaxSeeds = 5
    MaxWeight = 2
INVARIANT ExactWhenInStep
PROPERTY SetIsExact
