SPECIFICATION Spec
CONSTANTS
  RingExists <- MCNoRing
  UmaskDenies = TRUE
  MaxClients <- MCMaxClients
  MaxCrashes <- MCMaxCrashes
PROPERTY PeerNeverDisturbed
