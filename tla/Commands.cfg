SPECIFICATION Spec
CONSTANTS
  Texts           <- MCTexts
  Regions         <- MCRegions
  Served          <- MCServed
  MaxCertificates = 2
  Setups          <- MCSetups
  InitialRows     <- MCInitialRows
  SignIns         <- MCSignIns
  MaxLogin        = 2
  Lefts           = {1}
  Buffer          = 1
  BuildFeatures   = {}
INVARIANTS AuditIsServe DoctorIsServe MixedIsSuperseded
