\* Genuine images and refused ones.  The host exchanges that of the message
\* subkernel and writes on and over the scratch memory of the loader.
SPECIFICATION FairSpec
CONSTANTS
  Images <- AllImages
  HostSites = {"msg", "scratch", "overlap"}
  AnyTag = AnyTag
  Nobody = Nobody
INVARIANTS
  LoaderInv
  OnlyVettedCodeRuns
  ImagesAreSealed
  NoDataLeftBehind
  KeyEndsWithMain
  FaultHasCause
PROPERTY ReturnReachesMsg
