CONSTANTS
    Capacities = {0, 2}
    Exporters = {file, memory}
    MaxSamples = 4
SPECIFICATION Spec
INVARIANTS SampleConservation QueueIsLatest DeliveredInOrder ExporterIsolation StoppedMeansDrained
PROPERTIES QueueDrains
CHECK_DEADLOCK FALSE
