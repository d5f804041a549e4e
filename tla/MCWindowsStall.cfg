\* An overlap of at least the window size, as a smaller max_tokens with the
\* default overlap gives.
CONSTANT Inputs <- Stalling
SPECIFICATION FairSpec
PROPERTY Terminates
