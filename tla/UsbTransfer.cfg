CONSTANTS
  Endpoints = 2
  MaxTransfer = 3
SPECIFICATION Spec
INVARIANTS OneTransfer NothingLost WaitCanEnd EveryEndpointInTurn
PROPERTY ImplementsSweep
