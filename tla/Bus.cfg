\* Three modules, of which one is asked for; three bytes are heard badly, by
\* the modules or by the host (16).
CONSTANTS
  Modules = {1, 2, 3}
  Asked = 1
  Rounds = 4
  Counts = {0, 200}
  Faulty = {1, 2, 3, 16}
  Faults = 3
  Noise = {0, 84, 128}
SPECIFICATION Spec
INVARIANTS OneSpeaker Enumerated
PROPERTY Ends
CHECK_DEADLOCK FALSE
