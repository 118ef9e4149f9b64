\* Two files that anyone may edit, and strings of the same trees.
SPECIFICATION Spec
CONSTANTS
    Paths = {"config.yaml", "other.yaml"}
    Trees <- MCTrees
INVARIANT
    ScalarsAreFound
