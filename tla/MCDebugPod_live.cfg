SPECIFICATION FairSpec
CONSTANTS
    Calls = {c1}
    Names = {alice, robot}
    People = {alice}
    Jobs = {j1}
    AppPod = AppPod
PROPERTIES
    EveryJobGoes
    EveryCallEnds
