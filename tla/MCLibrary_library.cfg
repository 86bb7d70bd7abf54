SPECIFICATION MCSpec
VIEW MCView
CONSTANTS
  Brand = {"AAAA"}
  NoBrand = NoBrand
  Product = {"T", "D"}
  Event = {"I7S"}
  Time = {1}
  NoTime = NoTime
  AccessPoint = {"I7", "H1"}
  Supported = {"I7"}
  Char = {"a", "&", "."}
  GoodChar = {"a", "."}
  Dot = "."
  MaxRlzLength = 1
  RawRlz <- SomeRawRlz
  Foreign <- SomeForeign
  MaxValues = 2
  MaxEmpty = 1
  Sid = {"s1", "s2", "s3"}
  NoSid = ""
  Found <- SomeFound
  Digest <- SomeDigest
  HashLength = 2
  VolumeId <- SomeVolumeId
  Burst = {1, 3, 7, 129, 131, 255}
  Width = 16
  Users = "Users"
  Everyone = "Everyone"
  Right = {"read", "write"}
  Generic <- SomeGeneric
  OldDacl <- SomeDacl
  MaxAces = 3
INVARIANTS
  TypeOK
  OtherSoftwareKept
  UninstallCleans
  UninstallResumes
  IdIdentifies
  ChecksumDetects
  ChecksumIsCrc
  HexReadsBack
  HasAccessSound
  MachineKeyOpen
PROPERTIES
  StoreSpec
  CallsActAsAsked
