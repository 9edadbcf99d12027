CONSTANTS
    Branches = {1, 2}
    Feed = 9
    Platforms = {"sensor", "switch"}
    Unusual = {"slow", "empty", "appear"}
SPECIFICATION Spec
 
PROPERTIES OneEntityEach 
