CONSTANTS
    Chunks <- MCChunks
    Children <- MCChildren
    Roots = {2, 3}
    Manifests = {1}
    NoRoot = NoRoot
    Callers = {p1}
SPECIFICATION Spec
INVARIANTS Resumable

