CONSTANTS
  Daemons = {d1, d2}
  Launches <- MCLaunches
  Remote <- MCRemote
  Machines <- MCMachines
  MaxLaunches = 2
  MaxFaults = 1
  MaxMeddling = 1
SPECIFICATION DaemonSpec
INVARIANTS PairingCurrent
PROPERTIES OnceSelfContained StopEnds StartsAgain
CHECK_DEADLOCK FALSE
