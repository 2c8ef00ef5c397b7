SPECIFICATION FairSpec
CONSTANTS
  img1 = img1
  img2 = img2
  Images <- MCImages
  BlocksOf <- MCBlocksOf
  SlotBlocks = 3
  NONE = NONE
  ERASED = ERASED
  TORN = TORN
PROPERTY EventuallyBoots
