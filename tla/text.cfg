SPECIFICATION Spec
CONSTANTS
  Byte = {0, 1, 62, 127, 128, 255}
  Char = {65, 47, 61, 33}
  Letter = {32, 47, 58, 65, 97}
  Call <- MCCall
  MaxLength <- MCMaxLength
INVARIANTS Base64Reference ComparesConsistently EditsReversible StreamsDeliver
