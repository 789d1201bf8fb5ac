SPECIFICATION Spec
CONSTANTS
  near = near far = far hill = hill gauge = gauge cloth = cloth
  Unwritten = Unwritten
  Poses = {"apart", "stacked", "sunk"}
  Pairs <- AllPairs
  InRange <- Range4
  Swept <- Sweep4
  Touching <- Touch4
  Filtered <- Filtered4
  Crowded <- Crowded4
  Collidable = {near, far, hill}
  Explicit = {far, hill}
  Sensed = {gauge}
  TypeOf <- Geoms4
  Types = {"boxbox", "heights", "spheres"}
  BoxBox = "boxbox"
  Route <- Routes3
  Points <- Points4
  Elements = {cloth}
  FlexTouching <- Cloth3
  NaconMaxes = {5}
  NaccdMaxes = {2}
INVARIANT StepHasItsContacts
