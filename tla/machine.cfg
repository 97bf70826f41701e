SPECIFICATION Spec
CONSTANTS
    Configs <- MCConfigs
    Kernels <- MCKernels
    Executing <- MCExecuting
    Instructions <- MCInstructions
    Slots <- MCSlots
    MaxProgram = 2
INVARIANTS
    IdentityMapped
    Intact
    GuestFinds
    OnBoundary
    RegistersAgree
    DevicesSee
