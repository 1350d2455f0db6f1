SPECIFICATION Spec
CONSTANTS
    Inputs <- MCInputs
    ServiceStates <- MCServiceStates
    ConfigMaps <- MCConfigMaps
    SubPods <- MCSubPods
INVARIANTS
    
    OnlyProbesLag
    ServersAreReadyPods
    
CHECK_DEADLOCK FALSE
