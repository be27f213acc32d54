\* One Capture: any configuration, any order of playback, questions and fetches.
SPECIFICATION Spec
CONSTANTS
  Owned = {"force", "ignore"}
  MaxRef = 4
  Captured <- MCCaptured
  Textures <- MCTextures
  Unused <- MCUnused
  Manifests = {"described", "unparseable"}
  LastCommand = 2
  MaxErrors = 2
INVARIANTS
  ConfigDecidesLoad
  ServedHasDescriptor
  LiveNoneIsExplained
  QuietErrorsNeverSurface
PROPERTY
  ImplementsFacade
