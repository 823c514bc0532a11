SPECIFICATION Spec
CONSTANTS
    NDeps = 0
    MaxBody = 0
PROPERTY DisconnectUnwindsStream
