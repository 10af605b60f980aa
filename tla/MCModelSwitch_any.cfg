SPECIFICATION Spec
CONSTANTS
  m1 = m1
  m2 = m2
  r1 = r1
  r2 = r2
  r3 = r3
  NONE = NONE
  Models = {m1, m2}
  Requests = {r1, r2, r3}
  Policy = "always_sleep_previous"
  startup_awake_model = m1
  LateEffects = TRUE
  Drift = TRUE
SYMMETRY Symmetry
INVARIANTS
  TypeOK
  ReservationsExact
  ReservedOnActive
  OneUncertainModel
  SettledWhenUnlocked
  DecisionFresh
PROPERTIES
  RefinesGroupExclusion
