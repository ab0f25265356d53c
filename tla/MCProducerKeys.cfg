CONSTANTS
    KeyChars = {"a", "b", "s"}
    Scheme <- MCScheme
    SignatureScheme = {"secp256k1"}
    VaultKeys = {"b", "s"}
    Panic = Panic
    Configs <- MCConfigs
INIT Init
NEXT Next
INVARIANTS
    KeysMatchReference
