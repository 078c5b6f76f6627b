SPECIFICATION Spec
CONSTANTS
  RingExists <- MCRingExists
  UmaskDenies = TRUE
  MaxClients <- MCMaxClients
  MaxCrashes <- MCMaxCrashes
INVARIANTS MappedIsSized PublishedWhileIO
PROPERTIES PeerUndisturbed PluginGetsRing
