\* Two recipes, one file that holds the other recipe.
SPECIFICATION Spec
CONSTANTS
    N = 2
    MaxDeps = 1
    MaxOpen = 2
    MaxBad = 1
INVARIANT ReadsWhatIsNamed
