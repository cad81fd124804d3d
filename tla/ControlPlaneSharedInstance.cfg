SPECIFICATION Spec
CONSTANTS
    Processes = {p1, p2}
    Instances = {i1, i2}
    MaxContainers = 1
    MaxFiles = 1
    MaxChanges = 0
    None = None
PROPERTY RunningSessionsSurviveStarts
