SPECIFICATION FairDrivingSpec
CONSTANTS
    Workers = 2
    IdModulus = 16
    MaxCalls = 3
    Input <- MCInput
    controls <- MCControls
    places <- MCPlaces
    MaxTouched = 1
INVARIANTS
    FramesOutliveTasks
    RunsOnce
    ControlsOwnVehicle
    ReverseIsGear
    ObeysItsClient
PROPERTIES
    ImplementsCalls
    CallsAreServed
    StopEndsOrHangs
\* After EndPlay the server has stopped, or hangs in Stop.
CHECK_DEADLOCK FALSE
