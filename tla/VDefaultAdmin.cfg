SPECIFICATION FairSpec
CONSTANTS
  Instances = {i1}
  Passwords = {"weak"}
  MaxCrashes = 0
PROPERTIES FirstStart
