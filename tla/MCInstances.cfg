\* No symmetry: liveness.
CONSTANTS
  Ids = {i}
  Handlers = {g, h}
  MaxTtl = 2
  Nobody = Nobody
SPECIFICATION MCSpec
INVARIANTS ExitsTold
PROPERTIES SweepsOnlyLapsed UnusedGoes
