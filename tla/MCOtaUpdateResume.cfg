\* Two parts tell a whole image from a mixed one.
CONSTANTS
  factory = factory
  update = update
  rogue = rogue
  Images <- MCImages
  Signed <- MCSigned
  Offered <- MCOffered
  Factory = factory
  Blank = Blank
  NoImage = NoImage
  Size = 2
SPECIFICATION Spec
PROPERTY ConfigResumeKeepsImage
