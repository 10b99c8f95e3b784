SPECIFICATION CipherSpec
CONSTANTS
  Box <- MCBox
  MaxLeaves = 4
  Nil = Nil
  Length = 3
  LongBits = 4
  State = {0, 1, 2, 3, 4}
  Configs <- MCConfigs
  Signature = {s1, s2, s3, s4, s5}
  Size = 4
  MaxSeen = 2
  None = None
  Byte = {0, 1}
  Xor <- MCXor
  BlockSize = 2
  Encrypt <- MCEncrypt
  CallLengths = {1, 5}
INVARIANT OptimizedIsReference
