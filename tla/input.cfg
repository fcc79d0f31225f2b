\* Two keys and two modifiers, of which one chord maps both, one maps a key to
\* another without modifiers; four presses make two overlapping chords, or a
\* chord and a swipe; two time-outs of the tap, so that one comes after the
\* notice of the other was handled while away; and two tasks that wait, so that
\* the app is left and entered again before the first has run.
CONSTANTS
    Keys = {"c", "left"}
    GuestKeys = {"c", "left", "home"}
    Mods = {"command", "control"}
    Command = "command"
    Escape = "left"
    ExitMods = {"command", "control"}
    chord <- Profile
    pointerModifiers <- PointerProfile
    workspaceChord <- NextWorkspace
    MaxPresses = 4
    MaxTasks = 2
    MaxTimeouts = 2
SPECIFICATION Spec
INVARIANTS InputInv DownIsHeld NothingStuck AwayMeansReleased
PROPERTIES ChordArrives
