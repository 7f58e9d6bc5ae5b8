SPECIFICATION FairSpec
CONSTANTS
  Instances = {i1, i2}
  Passwords = {"strong", "weak"}
  MaxCrashes = 2
INVARIANTS SchemaComplete
PROPERTIES CredentialsKept StartsAgain
