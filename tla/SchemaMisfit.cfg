SPECIFICATION Spec
CONSTANTS
    ci = ci
    dev = dev
    Runners <- MCRunners
    Releases <- MCReleases
SYMMETRY Symmetry
INVARIANT CodeFitsSchema
