----------------------------- MODULE InputRouter -----------------------------
(***************************************************************************)
(* ImmersionController, ImmersiveInputCapture and GuestInputRouter: the    *)
(* keys, modifiers and swipes of the host on their way into the guest.     *)
(* While the event tap is on, every event of the keyboard goes through the *)
(* router, which maps a host key and its modifiers to a chord of the guest *)
(* and has to release what it pressed.  While the tap is not on, the view  *)
(* of the display gets the events and passes them on unmapped.  The system *)
(* turns a slow tap off and tells so later; the app is left and entered    *)
(* again, and what that causes is done by tasks that run later.            *)
(***************************************************************************)
EXTENDS Naturals, Sequences

CONSTANTS
    Keys,                \* keys of the host's keyboard
    GuestKeys,           \* keys of the guest's, the same key codes among them
    Mods,                \* modifiers
    Command,             \* the modifier that stands for a native gesture
    Escape, ExitMods,    \* the exit shortcut
    chord(_, _),         \* KeyboardMappingSettings.chord, for one profile
    pointerModifiers(_), \* KeyboardMappingSettings.pointerModifiers
    workspaceChord,      \* KeyboardMappingSettings.workspaceChord
    MaxPresses,          \* bound: keys, modifiers, buttons pressed and swipes
    MaxTasks,            \* bound: tasks that wait for the main actor
    MaxTimeouts          \* bound: times the system turns the tap off

Chord == [key: GuestKeys, mods: SUBSET Mods]

ASSUME ConstantsAssumption ==
    /\ Keys \subseteq GuestKeys /\ "none" \notin GuestKeys
    /\ Command \in Mods /\ Escape \in Keys /\ ExitMods \subseteq Mods
    /\ \A k \in Keys : \A m \in SUBSET Mods : chord(k, m) \in Chord
    /\ \A m \in SUBSET Mods : pointerModifiers(m) \in SUBSET Mods
    /\ workspaceChord \in Chord
    /\ MaxPresses \in Nat /\ MaxTasks \in Nat /\ MaxTimeouts \in Nat

VARIABLES
    native,   \* usesNativeKeyboardMapping: a machine of Apple's framework
    immersed, \* whether activeMachineID and inputCapture are set
    frontmost,\* whether the app is active
    tap,      \* the event tap: none, off or on
    notice,   \* whether tapDisabledByTimeout waits to be handled
    tasks,    \* tasks of the observers, in the order they were made
    held,     \* host keys the user holds
    mods,     \* host modifiers the user holds
    button,   \* whether a button of the mouse is held (the view's buttonMask)
    swiping,  \* whether the user's swipe goes on
    router,   \* the fields of GuestInputRouter
    gesture,  \* the fields of ImmersiveInputCapture on gestures
    guest,    \* what is down in the guest: keys and modifiers
    viaView,  \* history: those of them that the view pressed
    lifted,   \* history: modifiers of the router that others released
    presses, timeouts  \* for the bounds

user == <<held, mods, button, swiping, presses>>
capture == <<router, gesture, guest, viaView, lifted>>
control == <<immersed, tap, notice>>
vars == <<native, frontmost, tasks, timeouts, user, capture, control>>

NoChord == [key |-> "none", mods |-> {}, required |-> {}]
NoRouter == [active |-> [k \in Keys |-> NoChord], pointer |-> {}, host |-> {},
             latched |-> {}, guest |-> {}]
NoGesture == [tracks |-> FALSE, fired |-> FALSE, command |-> FALSE]
Nothing == [keys |-> {}, mods |-> {}]

Router == [active: [Keys -> [key: GuestKeys, mods: SUBSET Mods, required: SUBSET Mods]
                              \union {NoChord}],
           pointer: SUBSET Mods, host: SUBSET Mods, latched: SUBSET Mods,
           guest: SUBSET Mods]
Gesture == [tracks: BOOLEAN, fired: BOOLEAN, command: BOOLEAN]
Down == [keys: SUBSET GuestKeys, mods: SUBSET Mods]

TypeOK ==
    /\ native \in BOOLEAN /\ immersed \in BOOLEAN /\ frontmost \in BOOLEAN
    /\ tap \in {"none", "off", "on"} /\ notice \in BOOLEAN
    /\ tasks \in Seq({"resign", "become", "exit"})
    /\ held \in SUBSET Keys /\ mods \in SUBSET Mods
    /\ button \in BOOLEAN /\ swiping \in BOOLEAN
    /\ router \in Router /\ gesture \in Gesture
    /\ guest \in Down /\ viaView \in Down /\ lifted \in SUBSET Mods
    /\ presses \in 0..MaxPresses /\ timeouts \in 0..MaxTimeouts

Init ==
    /\ native \in BOOLEAN
    /\ immersed = FALSE /\ frontmost = TRUE
    /\ tap = "none" /\ notice = FALSE /\ tasks = <<>>
    /\ held = {} /\ mods = {} /\ button = FALSE /\ swiping = FALSE
    /\ router = NoRouter /\ gesture = NoGesture
    /\ guest = Nothing /\ viaView = Nothing
    /\ lifted = {}
    /\ presses = 0 /\ timeouts = 0

-----------------------------------------------------------------------------
(* GuestInputRouter                                                         *)

Active(r) == {k \in Keys : r.active[k] # NoChord}
KeysIn(r) == {r.active[k].key : k \in Active(r)}

Target(r) ==
    (UNION {r.active[k].mods : k \in Keys})
      \union r.pointer \union (IF r.host = {} THEN {} ELSE r.latched)

synchronized(r) == [r EXCEPT !.guest = Target(r)]

(* What is down once the router went from r to s and released those keys. *)
Emitted(down, r, s, keys) ==
    [keys |-> down.keys \ keys,
     mods |-> (down.mods \ (r.guest \ s.guest)) \union (s.guest \ r.guest)]

(* The router becomes s: it emits what has changed, after it has released
   some keys.  The view's are those that nobody else pressed or released. *)
Becomes(r, s, pressed, released) ==
    /\ router' = s
    /\ guest' = [Emitted(guest, r, s, released) EXCEPT !.keys = @ \union pressed]
    /\ viaView' = [keys |-> viaView.keys \ released,
                   mods |-> viaView.mods \ (r.guest \ s.guest)]
    /\ lifted' = lifted \intersect s.guest

(* Mutant of Pressed: the modifiers of the last chord stay latched. *)
MutantKeepsLatched(k, m) ==
    synchronized([router EXCEPT
        !.latched = @ \union chord(k, m).mods,
        !.active[k] = [key |-> chord(k, m).key, mods |-> chord(k, m).mods,
                       required |-> m]])

Pressed(k, m) ==
    synchronized([router EXCEPT
        !.latched = chord(k, m).mods,
        !.active[k] = [key |-> chord(k, m).key, mods |-> chord(k, m).mods,
                       required |-> m]])

press(k, m, repeats) ==
    IF ~repeats /\ router.active[k] = NoChord
    THEN Becomes(router, Pressed(k, m), {chord(k, m).key}, {})
    ELSE UNCHANGED <<router, guest, viaView, lifted>>

Without(r, ks) ==
    synchronized([r EXCEPT
        !.active = [k \in Keys |-> IF k \in ks THEN NoChord ELSE @[k]]])
KeysOf(ks) == {router.active[k].key : k \in ks \intersect Active(router)}

(* Mutant of release: the modifiers are not synchronized. *)
MutantLeavesModifiers(k) ==
    Becomes(router, [router EXCEPT !.active[k] = NoChord], {}, KeysOf({k}))

release(k) ==
    IF router.active[k] # NoChord
    THEN Becomes(router, Without(router, {k}), {}, KeysOf({k}))
    ELSE UNCHANGED <<router, guest, viaView, lifted>>

(* Modifiers that are no longer latched once the host holds only updated. *)
Unlatched(updated) ==
    IF updated = {} \/ Command \in router.host \ updated THEN Mods
    ELSE router.host \ updated

(* Mutant of updateHostModifiers: keys stay down without their modifiers. *)
MutantKeepsKeys(updated) ==
    Becomes(router,
            synchronized([router EXCEPT !.host = updated,
                                        !.latched = @ \ Unlatched(updated)]),
            {}, {})

updateHostModifiers(updated) ==
    LET ks == {k \in Active(router) : ~ router.active[k].required \subseteq updated}
        r == Without(router, ks)
        s == synchronized([r EXCEPT !.host = updated,
                                    !.latched = @ \ Unlatched(updated)])
    IN
    /\ router' = s
    /\ guest' = Emitted(Emitted(guest, router, r, KeysOf(ks)), r, s, {})
    /\ viaView' = [keys |-> viaView.keys \ KeysOf(ks),
                   mods |-> viaView.mods \ (router.guest \ s.guest)]
    /\ lifted' = lifted \intersect r.guest \intersect s.guest

beginPointerInteraction(m) ==
    Becomes(router, synchronized([router EXCEPT !.pointer = pointerModifiers(m)]), {}, {})
endPointerInteraction ==
    Becomes(router, synchronized([router EXCEPT !.pointer = {}]), {}, {})

(* releaseAll, after releaseNativeGestureModifier. *)
releaseAll ==
    /\ router' = NoRouter
    /\ guest' = [keys |-> guest.keys \ KeysIn(router),
                 mods |-> (guest.mods \ router.guest)
                            \ (IF gesture.command THEN {Command} ELSE {})]
    /\ viaView' = [keys |-> viaView.keys \ KeysIn(router),
                   mods |-> viaView.mods \ router.guest]
    /\ lifted' = {}
    /\ gesture' = [gesture EXCEPT !.command = FALSE]

(* sendWorkspaceSwipe: QEMU's runtime has a router of its own send the chord,
   unless the last swipe was less than a quarter of a second ago. *)
sendWorkspaceSwipe ==
    \/ UNCHANGED <<router, guest, viaView, lifted>>
    \/ /\ ~native
       /\ guest' = [keys |-> guest.keys \ {workspaceChord.key},
                    mods |-> guest.mods \ workspaceChord.mods]
       /\ viaView' = [keys |-> viaView.keys \ {workspaceChord.key},
                      mods |-> viaView.mods \ workspaceChord.mods]
       /\ lifted' = lifted \union (router.guest \intersect workspaceChord.mods)
       /\ UNCHANGED router

-----------------------------------------------------------------------------
(* The user's keyboard, mouse and trackpad                                  *)

Counted(pressed) ==
    IF pressed THEN presses < MaxPresses /\ presses' = presses + 1
    ELSE UNCHANGED presses

Tapped == tap = "on" /\ ~native
Viewed == tap # "on" /\ frontmost /\ ~native
RouterUnchanged == UNCHANGED <<router, guest, viaView, lifted>>

(* The view passes a key or a modifier on to the runtime. *)
ViewSends(field, x, down) ==
    /\ guest' = [guest EXCEPT ![field] = IF down THEN @ \union {x} ELSE @ \ {x}]
    /\ viaView' = [viaView EXCEPT ![field] = IF down THEN @ \union {x} ELSE @ \ {x}]
    /\ lifted' = IF field = "mods" /\ ~down THEN lifted \union ({x} \intersect router.guest)
                 ELSE lifted
    /\ UNCHANGED router

ExitShortcut(k) == k = Escape /\ ExitMods \subseteq mods
(* Seen by the tap, or by the event monitor while there is none. *)
ExitSeen == immersed /\ (tap = "on" \/ (tap = "none" /\ frontmost))

(* keyDown of the view: a key that goes down with Command goes up at once. *)
ViewKeyDown(k, repeats) ==
    IF Command \notin mods THEN ViewSends("keys", k, TRUE)
    ELSE IF repeats THEN RouterUnchanged ELSE ViewSends("keys", k, FALSE)

KeyDown(k, repeats) ==
    /\ repeats <=> k \in held
    /\ held' = held \union {k}
    /\ Counted(~repeats)
    /\ IF ExitShortcut(k) /\ ExitSeen
       THEN /\ Len(tasks) < MaxTasks
            /\ tasks' = Append(tasks, "exit")
            /\ RouterUnchanged
       ELSE /\ UNCHANGED tasks
            /\ CASE Tapped -> press(k, mods, repeats)
                 [] Viewed -> ViewKeyDown(k, repeats)
                 [] OTHER -> RouterUnchanged
    /\ UNCHANGED <<native, frontmost, timeouts, mods, button, swiping, gesture, control>>

KeyUp(k) ==
    /\ k \in held
    /\ held' = held \ {k}
    /\ Counted(FALSE)
    /\ CASE Tapped -> release(k)
         [] Viewed -> ViewSends("keys", k, FALSE)
         [] OTHER -> RouterUnchanged
    /\ UNCHANGED <<native, frontmost, tasks, timeouts, mods, button, swiping, gesture,
                   control>>

FlagsChanged(m) ==
    /\ mods' = IF m \in mods THEN mods \ {m} ELSE mods \union {m}
    /\ Counted(m \notin mods)
    /\ CASE Tapped -> updateHostModifiers(mods')
         [] Viewed -> ViewSends("mods", m, m \in mods')
         [] OTHER -> RouterUnchanged
    /\ UNCHANGED <<native, frontmost, tasks, timeouts, held, button, swiping, gesture,
                   control>>

MouseDown ==
    /\ frontmost /\ ~button
    /\ button' = TRUE
    /\ Counted(TRUE)
    /\ IF immersed THEN beginPointerInteraction(mods) ELSE RouterUnchanged
    /\ UNCHANGED <<native, frontmost, tasks, timeouts, held, mods, swiping, gesture, control>>

MouseUp ==
    /\ button
    /\ button' = FALSE
    /\ Counted(FALSE)
    /\ IF immersed THEN endPointerInteraction ELSE RouterUnchanged
    /\ UNCHANGED <<native, frontmost, tasks, timeouts, held, mods, swiping, gesture, control>>

(* makeNativeModifierEvent turns the event of the gesture into one of the
   Command key; without the native mapping the gesture is swallowed. *)
GestureCommand(down) ==
    /\ guest' = IF ~native THEN guest
                ELSE [guest EXCEPT !.mods = IF down THEN @ \union {Command}
                                            ELSE @ \ {Command}]
    /\ lifted' = IF native /\ ~down THEN lifted \union ({Command} \intersect router.guest)
                 ELSE lifted
    /\ UNCHANGED <<router, viaView>>

SwipeBegins ==
    /\ ~swiping
    /\ swiping' = TRUE
    /\ Counted(TRUE)
    /\ IF tap = "on"
       THEN /\ gesture' = [tracks |-> TRUE, fired |-> FALSE, command |-> native]
            /\ GestureCommand(TRUE)
       ELSE UNCHANGED capture
    /\ UNCHANGED <<native, frontmost, tasks, timeouts, held, mods, button, control>>

SwipeChanges ==
    /\ swiping /\ tap = "on"
    /\ gesture.tracks /\ ~gesture.fired
    /\ gesture' = [gesture EXCEPT !.fired = TRUE]
    /\ sendWorkspaceSwipe
    /\ UNCHANGED <<native, frontmost, tasks, timeouts, user, control>>

(* A swipe that was not fired before fires when it ends with a velocity: in
   QEMU's case the chord, in the other one only a key that stays nowhere. *)
SwipeEnds ==
    /\ swiping
    /\ swiping' = FALSE
    /\ Counted(FALSE)
    /\ IF tap = "on" /\ gesture.tracks
       THEN /\ gesture' = NoGesture
            /\ IF native THEN GestureCommand(FALSE)
               ELSE IF gesture.fired THEN RouterUnchanged ELSE sendWorkspaceSwipe
       ELSE UNCHANGED capture
    /\ UNCHANGED <<native, frontmost, tasks, timeouts, held, mods, button, control>>

SwipeCancelled ==
    /\ swiping
    /\ swiping' = FALSE
    /\ Counted(FALSE)
    /\ IF tap = "on"
       THEN gesture' = NoGesture /\ GestureCommand(FALSE)
       ELSE UNCHANGED capture
    /\ UNCHANGED <<native, frontmost, tasks, timeouts, held, mods, button, control>>

-----------------------------------------------------------------------------
(* The event tap                                                            *)

TapTimesOut ==
    /\ tap = "on" /\ ~notice
    /\ timeouts < MaxTimeouts
    /\ timeouts' = timeouts + 1
    /\ tap' = "off"
    /\ notice' = TRUE
    /\ UNCHANGED <<native, frontmost, tasks, user, capture, immersed>>

(* Mutant of TapDisabled: the tap is turned on again, and no more. *)
MutantOnlyEnables ==
    /\ notice
    /\ notice' = FALSE
    /\ tap' = "on"
    /\ UNCHANGED <<native, frontmost, tasks, timeouts, user, capture, immersed>>

(* handle, for tapDisabledByTimeout *)
TapDisabled ==
    /\ notice
    /\ notice' = FALSE
    /\ tap' = "on"
    /\ releaseAll
    /\ UNCHANGED <<native, frontmost, tasks, timeouts, user, immersed>>

-----------------------------------------------------------------------------
(* ImmersionController                                                      *)

(* enter, with or without the permission to make a tap. *)
Enter ==
    /\ ~immersed /\ frontmost
    /\ immersed' = TRUE
    /\ tap' \in {"none", "on"}
    /\ UNCHANGED <<native, frontmost, tasks, timeouts, user, capture, notice>>

(* exit: ImmersiveInputCapture.stop and releaseAllKeys of the runtime. *)
exit ==
    IF immersed
    THEN /\ immersed' = FALSE /\ tap' = "none" /\ notice' = FALSE
         /\ router' = NoRouter /\ gesture' = NoGesture
         /\ guest' = Nothing /\ viaView' = Nothing /\ lifted' = {}
    ELSE UNCHANGED <<control, capture>>

(* A button, or the machine stops: onChange(of: runtimeState). *)
Exit ==
    /\ immersed
    /\ exit
    /\ UNCHANGED <<native, frontmost, tasks, timeouts, user>>

(* didResignActive and didBecomeActive; the observers live with immersion. *)
Activates(active) ==
    /\ frontmost = ~active
    /\ frontmost' = active
    /\ IF immersed
       THEN /\ Len(tasks) < MaxTasks
            /\ tasks' = Append(tasks, IF active THEN "become" ELSE "resign")
       ELSE UNCHANGED tasks
    /\ UNCHANGED <<native, timeouts, user, capture, control>>

(* Mutant of resigned: the keys that the view has pressed are left down. *)
MutantOnlyRouter ==
    /\ tap' = IF tap = "none" THEN "none" ELSE "off"
    /\ releaseAll
    /\ UNCHANGED <<immersed, notice>>

(* The observers' tasks: setEnabled(false) and releaseAllKeys; start or
   setEnabled(true). *)
resigned ==
    IF immersed
    THEN /\ tap' = IF tap = "none" THEN "none" ELSE "off"
         /\ router' = NoRouter
         /\ gesture' = [gesture EXCEPT !.command = FALSE]
         /\ guest' = Nothing /\ viaView' = Nothing /\ lifted' = {}
         /\ UNCHANGED <<immersed, notice>>
    ELSE UNCHANGED <<control, capture>>

became ==
    /\ IF immersed
       THEN tap' = "on" \/ (tap = "none" /\ tap' = "none")
       ELSE UNCHANGED tap
    /\ UNCHANGED <<immersed, notice, capture>>

RunTask ==
    /\ tasks # <<>>
    /\ tasks' = Tail(tasks)
    /\ CASE Head(tasks) = "resign" -> resigned
         [] Head(tasks) = "become" -> became
         [] Head(tasks) = "exit" -> exit
    /\ UNCHANGED <<native, frontmost, timeouts, user>>

-----------------------------------------------------------------------------

Next ==
    \/ \E k \in Keys : \E repeats \in BOOLEAN : KeyDown(k, repeats)
    \/ \E k \in Keys : KeyUp(k)
    \/ \E m \in Mods : FlagsChanged(m)
    \/ MouseDown \/ MouseUp
    \/ SwipeBegins \/ SwipeChanges \/ SwipeEnds \/ SwipeCancelled
    \/ TapTimesOut \/ TapDisabled
    \/ Enter \/ Exit
    \/ \E active \in BOOLEAN : Activates(active)
    \/ RunTask

Spec == Init /\ [][Next]_vars

-----------------------------------------------------------------------------
(* Properties                                                               *)

(* A key that the router holds down in the guest is held on the host, with
   the modifiers it was pressed with: whatever was released while the tap was
   off has been released in the guest when the tap is on again. *)
DownIsHeld ==
    tap = "on" /\ ~notice =>
       \A k \in Active(router) : k \in held /\ router.active[k].required \subseteq mods

(* When the user holds nothing, nothing stays down in the guest, in whatever
   order keys, modifiers, buttons and swipes were released and whatever the
   tap missed; except what the view has pressed before the tap was on. *)
NothingStuck ==
    /\ tap = "on" /\ ~notice
    /\ held = {} /\ mods = {} /\ ~button /\ ~swiping
    => guest.keys \subseteq viaView.keys /\ guest.mods \subseteq viaView.mods

(* What is down in the guest is the router's, the gesture's or the view's,
   and the router's modifiers are down unless another has released them. *)
Owned ==
    /\ guest.keys \subseteq KeysIn(router) \union viaView.keys
    /\ guest.mods \subseteq router.guest \union viaView.mods
                               \union (IF gesture.command THEN {Command} ELSE {})
    /\ router.guest \subseteq guest.mods \union lifted

(* The native mapping leaves the router empty, but for the pointer; so does a
   tap that is off, with the gesture's Command released; one that is on has
   missed nothing. *)
TapInv ==
    /\ tap # "none" \/ notice => immersed
    /\ ~immersed => router = NoRouter /\ gesture = NoGesture
    /\ router.pointer # {} => button
    /\ gesture.command => native /\ gesture.tracks
    /\ native => Active(router) = {} /\ router.host = {}
    /\ tap # "on" /\ ~notice => Active(router) = {} /\ router.host = {} /\ ~gesture.command
    /\ tap = "on" /\ ~notice => router.host \subseteq mods /\ (gesture.command => swiping)

(* Inductive: the router's record of the guest's modifiers is what its fields
   ask for, and the parts above. *)
InputInv ==
    /\ TypeOK
    /\ router.guest = Target(router)
    /\ Owned
    /\ TapInv
    /\ DownIsHeld

(* While another app is frontmost nothing is down in the guest, not even what
   the view has pressed; unless the tap, turned on again by a late notice, has
   passed on what is typed into that app. *)
AwayMeansReleased ==
    immersed /\ ~frontmost /\ tasks = <<>> /\ tap # "on" /\ ~notice => guest = Nothing

(* The inductive invariant behind it: the task that releases everything is yet
   to run, after every task that turns the tap on; or it has run, and only the
   notice can have turned the tap on since. *)
Waits(task) == \E i \in DOMAIN tasks : tasks[i] = task

AwayInv ==
    immersed /\ ~frontmost =>
       /\ \A i \in DOMAIN tasks : tasks[i] = "become" =>
             \E j \in DOMAIN tasks : j > i /\ tasks[j] = "resign"
       /\ \/ Waits("resign")
          \/ tap = "on" \/ notice
          \/ router = NoRouter /\ guest = Nothing

(* A key that the router presses goes down in the guest together with the
   modifiers of the chords that are held and of the pointer, and no others:
   what an earlier chord has latched does not leak into it. *)
ChordArrives ==
    [][\A k \in Keys :
         LET wanted == (UNION {router'.active[j].mods : j \in Keys}) \union router'.pointer
         IN  router.active[k] = NoChord /\ router'.active[k] # NoChord =>
               /\ router'.active[k].key \in guest'.keys
               /\ guest'.mods \subseteq wanted \union viaView'.mods
               /\ wanted \subseteq guest'.mods \union lifted'
      ]_vars
=============================================================================
