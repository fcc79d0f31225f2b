-------------------------- MODULE InputRouter_proofs --------------------------
(***************************************************************************)
(* Proofs that InputInv is an inductive invariant of InputRouter, and that *)
(* DownIsHeld and NothingStuck follow, for every keyboard, every profile   *)
(* and every bound.  The router's operations are treated once, by lemmas   *)
(* on what they leave in the router and in the guest (CaptureOK).          *)
(***************************************************************************)
EXTENDS InputRouter, SequenceTheorems, TLAPS

CaptureOK ==
    /\ router \in Router /\ guest \in Down /\ viaView \in Down
    /\ lifted \in SUBSET Mods
    /\ router.guest = Target(router)
    /\ Owned

-----------------------------------------------------------------------------
(* Facts about routers                                                      *)

LEMMA TargetType ==
    ASSUME NEW r \in Router
    PROVE  /\ Target(r) \in SUBSET Mods
           /\ synchronized(r) \in Router
           /\ synchronized(r).guest = Target(synchronized(r))
           /\ synchronized(r).active = r.active
           /\ synchronized(r).pointer = r.pointer
           /\ synchronized(r).host = r.host
           /\ synchronized(r).latched = r.latched
<1>1. \A k \in Keys : r.active[k].mods \in SUBSET Mods
  BY DEF Router, NoChord
<1>2. Target(r) \in SUBSET Mods
  BY <1>1 DEF Target, Router
<1>3. /\ synchronized(r) \in Router
      /\ synchronized(r).active = r.active
      /\ synchronized(r).pointer = r.pointer
      /\ synchronized(r).host = r.host
      /\ synchronized(r).latched = r.latched
      /\ synchronized(r).guest = Target(r)
  BY <1>2 DEF synchronized, Router
<1>4. Target(synchronized(r)) = Target(r)
  BY <1>3 DEF Target
<1>5. QED
  BY <1>2, <1>3, <1>4

LEMMA NoRouterType ==
    NoRouter \in Router /\ NoRouter.guest = Target(NoRouter) /\ Active(NoRouter) = {}
<1>1. NoRouter \in Router
  BY DEF NoRouter, Router
<1>2. Active(NoRouter) = {}
  BY DEF Active, NoRouter
<1>3. Target(NoRouter) = {}
  BY DEF Target, NoRouter, NoChord
<1>4. QED
  BY <1>1, <1>2, <1>3 DEF NoRouter

LEMMA PressedType ==
    ASSUME NEW k \in Keys, NEW m \in SUBSET Mods, router \in Router
    PROVE  /\ Pressed(k, m) \in Router
           /\ Pressed(k, m).guest = Target(Pressed(k, m))
           /\ Pressed(k, m).pointer = router.pointer
           /\ Pressed(k, m).host = router.host
           /\ Pressed(k, m).latched = chord(k, m).mods
           /\ Pressed(k, m).active =
                [router.active EXCEPT ![k] = [key |-> chord(k, m).key,
                                              mods |-> chord(k, m).mods,
                                              required |-> m]]
<1> DEFINE c == [key |-> chord(k, m).key, mods |-> chord(k, m).mods, required |-> m]
           r == [router EXCEPT !.latched = chord(k, m).mods, !.active[k] = c]
<1>1. chord(k, m).key \in GuestKeys /\ chord(k, m).mods \in SUBSET Mods
  BY ConstantsAssumption DEF Chord
<1>2. c \in [key: GuestKeys, mods: SUBSET Mods, required: SUBSET Mods]
  BY <1>1
<1>3. /\ r \in Router
      /\ r.active = [router.active EXCEPT ![k] = c]
      /\ r.pointer = router.pointer /\ r.host = router.host
      /\ r.latched = chord(k, m).mods
  BY <1>1, <1>2 DEF Router
<1>4. Pressed(k, m) = synchronized(r)
  BY DEF Pressed
<1>5. QED
  BY <1>3, <1>4, TargetType

LEMMA WithoutType ==
    ASSUME NEW r \in Router, NEW ks \in SUBSET Keys
    PROVE  /\ Without(r, ks) \in Router
           /\ Without(r, ks).guest = Target(Without(r, ks))
           /\ Without(r, ks).pointer = r.pointer
           /\ Without(r, ks).host = r.host
           /\ Active(Without(r, ks)) = Active(r) \ ks
           /\ \A k \in Active(r) \ ks : Without(r, ks).active[k] = r.active[k]
<1> DEFINE a == [k \in Keys |-> IF k \in ks THEN NoChord ELSE r.active[k]]
           s == [r EXCEPT !.active = a]
<1>1. s \in Router /\ s.active = a /\ s.pointer = r.pointer /\ s.host = r.host
  BY DEF Router
<1>2. Without(r, ks) = synchronized(s)
  BY DEF Without
<1>3. Without(r, ks).active = a
  BY <1>1, <1>2, TargetType
<1>4. QED
  BY <1>1, <1>2, <1>3, TargetType DEF Active

-----------------------------------------------------------------------------
(* The router's operations keep CaptureOK                                   *)

LEMMA BecomesOK ==
    ASSUME CaptureOK, gesture' = gesture,
           NEW s \in Router, s.guest = Target(s),
           NEW pressed \in SUBSET GuestKeys, NEW released,
           pressed \subseteq KeysIn(s),
           KeysIn(router) \ released \subseteq KeysIn(s),
           Becomes(router, s, pressed, released)
    PROVE  CaptureOK' /\ router' = s
<1>1. router' = s /\ lifted' \in SUBSET Mods
  BY DEF Becomes, CaptureOK
<1>2. router.guest \in SUBSET Mods /\ s.guest \in SUBSET Mods
  BY DEF CaptureOK, Router
<1>3. /\ guest'.keys = (guest.keys \ released) \union pressed
      /\ guest'.mods = (guest.mods \ (router.guest \ s.guest)) \union (s.guest \ router.guest)
      /\ guest' \in Down
  BY <1>2 DEF Becomes, Emitted, CaptureOK, Down
<1>4. /\ viaView'.keys = viaView.keys \ released
      /\ viaView'.mods = viaView.mods \ (router.guest \ s.guest)
      /\ viaView' \in Down
  BY DEF Becomes, CaptureOK, Down
<1>5. guest'.keys \subseteq KeysIn(s) \union viaView'.keys
  BY <1>3, <1>4 DEF CaptureOK, Owned
<1> DEFINE c == IF gesture.command THEN {Command} ELSE {}
<1>6. guest'.mods \subseteq s.guest \union viaView'.mods \union c
  <2>1. guest.mods \subseteq router.guest \union viaView.mods \union c
    BY DEF CaptureOK, Owned
  <2> HIDE DEF c
  <2>2. QED
    BY <2>1, <1>3, <1>4
<1>7. s.guest \subseteq guest'.mods \union lifted'
  <2>1. lifted' = lifted \intersect s.guest
    BY DEF Becomes
  <2>2. router.guest \subseteq guest.mods \union lifted
    BY DEF CaptureOK, Owned
  <2>3. QED
    BY <1>3, <2>1, <2>2
<1>8. Owned'
  BY <1>1, <1>5, <1>6, <1>7 DEF Owned
<1>9. QED
  BY <1>1, <1>3, <1>4, <1>8 DEF CaptureOK

LEMMA PressOK ==
    ASSUME CaptureOK, gesture' = gesture, mods \in SUBSET Mods,
           NEW k \in Keys, NEW repeats, press(k, mods, repeats)
    PROVE  /\ CaptureOK'
           /\ router'.pointer = router.pointer /\ router'.host = router.host
           /\ \A j \in Active(router') :
                 \/ j \in Active(router) /\ router'.active[j] = router.active[j]
                 \/ j = k /\ router'.active[j].required = mods
<1>1. CASE ~repeats /\ router.active[k] = NoChord
  <2> DEFINE s == Pressed(k, mods)
  <2>1. /\ s \in Router /\ s.guest = Target(s)
        /\ s.pointer = router.pointer /\ s.host = router.host
        /\ s.active = [router.active EXCEPT ![k] = [key |-> chord(k, mods).key,
                                                    mods |-> chord(k, mods).mods,
                                                    required |-> mods]]
    BY PressedType DEF CaptureOK
  <2>2. chord(k, mods).key \in GuestKeys /\ chord(k, mods).key # "none"
    BY ConstantsAssumption DEF Chord
  <2>3. router.active \in [Keys -> [key: GuestKeys, mods: SUBSET Mods, required: SUBSET Mods]
                                      \union {NoChord}]
    BY DEF CaptureOK, Router
  <2>4. s.active[k].key = chord(k, mods).key /\ s.active[k].required = mods
    BY <2>1, <2>3
  <2>5. \A j \in Keys : j # k => s.active[j] = router.active[j]
    BY <2>1, <2>3
  <2>6. s.active[k] # NoChord
    BY <2>2, <2>4 DEF NoChord
  <2>7. {chord(k, mods).key} \subseteq KeysIn(s)
    BY <2>4, <2>6 DEF KeysIn, Active
  <2>8. KeysIn(router) \ {} \subseteq KeysIn(s)
    BY <1>1, <2>5 DEF KeysIn, Active
  <2>9. Becomes(router, s, {chord(k, mods).key}, {})
    BY <1>1 DEF press
  <2> HIDE DEF s
  <2>10. CaptureOK' /\ router' = s
    BY <2>1, <2>2, <2>7, <2>8, <2>9, BecomesOK
  <2>11. QED
    BY <2>1, <2>4, <2>5, <2>10 DEF Active
<1>2. CASE ~(~repeats /\ router.active[k] = NoChord)
  <2>1. UNCHANGED <<router, guest, viaView, lifted>>
    BY <1>2 DEF press
  <2>2. QED
    BY <2>1 DEF CaptureOK, Owned, KeysIn, Active, Target
<1>3. QED
  BY <1>1, <1>2

LEMMA ReleaseOK ==
    ASSUME CaptureOK, gesture' = gesture, NEW k \in Keys, release(k)
    PROVE  /\ CaptureOK'
           /\ router'.pointer = router.pointer /\ router'.host = router.host
           /\ Active(router') = Active(router) \ {k}
           /\ \A j \in Active(router') : router'.active[j] = router.active[j]
<1>1. CASE router.active[k] # NoChord
  <2> DEFINE s == Without(router, {k})
  <2>1. /\ s \in Router /\ s.guest = Target(s)
        /\ s.pointer = router.pointer /\ s.host = router.host
        /\ Active(s) = Active(router) \ {k}
        /\ \A j \in Active(router) \ {k} : s.active[j] = router.active[j]
    BY WithoutType DEF CaptureOK
  <2>2. Becomes(router, s, {}, KeysOf({k}))
    BY <1>1 DEF release
  <2> HIDE DEF s
  <2>3. KeysIn(router) \ KeysOf({k}) \subseteq KeysIn(s)
    BY <2>1 DEF KeysIn, KeysOf
  <2>4. {} \in SUBSET GuestKeys /\ {} \subseteq KeysIn(s)
    OBVIOUS
  <2>5. CaptureOK' /\ router' = s
    BY <2>1, <2>2, <2>3, <2>4, BecomesOK
  <2>6. QED
    BY <2>1, <2>5
<1>2. CASE router.active[k] = NoChord
  <2>1. UNCHANGED <<router, guest, viaView, lifted>>
    BY <1>2 DEF release
  <2>2. QED
    BY <1>2, <2>1 DEF CaptureOK, Owned, KeysIn, Active, Target
<1>3. QED
  BY <1>1, <1>2

LEMMA UpdateOK ==
    ASSUME CaptureOK, gesture' = gesture, NEW updated \in SUBSET Mods,
           updateHostModifiers(updated)
    PROVE  /\ CaptureOK'
           /\ router'.pointer = router.pointer /\ router'.host = updated
           /\ \A j \in Active(router') :
                 /\ j \in Active(router) /\ router'.active[j] = router.active[j]
                 /\ router.active[j].required \subseteq updated
<1> DEFINE ks == {k \in Active(router) : ~ router.active[k].required \subseteq updated}
           r == Without(router, ks)
           q == [r EXCEPT !.host = updated, !.latched = @ \ Unlatched(updated)]
           s == synchronized(q)
           c == IF gesture.command THEN {Command} ELSE {}
<1>1. ks \in SUBSET Keys
  BY DEF Active
<1>2. /\ r \in Router /\ r.pointer = router.pointer
      /\ Active(r) = Active(router) \ ks
      /\ \A j \in Active(router) \ ks : r.active[j] = router.active[j]
  BY <1>1, WithoutType DEF CaptureOK
<1>3. /\ q \in Router /\ q.active = r.active
      /\ q.pointer = router.pointer /\ q.host = updated
  <2> HIDE DEF r
  <2>1. QED
    BY <1>2 DEF Router
<1>4. /\ s \in Router /\ s.guest = Target(s) /\ s.active = r.active
      /\ s.pointer = router.pointer /\ s.host = updated
  <2> HIDE DEF q
  <2>1. QED
    BY <1>3, TargetType
<1>5. /\ router' = s
      /\ guest' = Emitted(Emitted(guest, router, r, KeysOf(ks)), r, s, {})
      /\ viaView' = [keys |-> viaView.keys \ KeysOf(ks),
                     mods |-> viaView.mods \ (router.guest \ s.guest)]
      /\ lifted' \in SUBSET Mods
  BY DEF updateHostModifiers, CaptureOK
<1> HIDE DEF ks, r, q, s, c
<1>6. Active(s) = Active(router) \ ks /\ \A j \in Active(s) : s.active[j] = router.active[j]
  BY <1>2, <1>4 DEF Active
<1>7. \A j \in Active(s) : router.active[j].required \subseteq updated
  BY <1>6 DEF ks
<1>8. /\ guest'.keys = guest.keys \ KeysOf(ks)
      /\ guest'.mods = (((guest.mods \ (router.guest \ r.guest)) \union (r.guest \ router.guest))
                         \ (r.guest \ s.guest)) \union (s.guest \ r.guest)
  BY <1>5 DEF Emitted
<1>9. router.guest \in SUBSET Mods /\ r.guest \in SUBSET Mods /\ s.guest \in SUBSET Mods
  BY <1>2, <1>4 DEF CaptureOK, Router
<1>10. guest' \in Down
  BY <1>5, <1>8, <1>9 DEF CaptureOK, Down, Emitted
<1>11. viaView' \in Down
  BY <1>5 DEF CaptureOK, Down
<1>12. guest'.keys \subseteq KeysIn(s) \union viaView'.keys
  <2>1. KeysIn(router) \ KeysOf(ks) \subseteq KeysIn(s)
    BY <1>6 DEF KeysIn, KeysOf
  <2>2. viaView'.keys = viaView.keys \ KeysOf(ks)
    BY <1>5
  <2>3. QED
    BY <1>8, <2>1, <2>2 DEF CaptureOK, Owned
<1>13. guest'.mods \subseteq s.guest \union viaView'.mods \union c
  <2>1. guest.mods \subseteq router.guest \union viaView.mods \union c
    BY DEF CaptureOK, Owned, c
  <2>2. viaView'.mods = viaView.mods \ (router.guest \ s.guest)
    BY <1>5
  <2>3. QED
    BY <1>8, <2>1, <2>2
<1>14. s.guest \subseteq guest'.mods \union lifted'
  <2>1. lifted' = lifted \intersect r.guest \intersect s.guest
    BY DEF updateHostModifiers, r, s, q, ks
  <2>2. router.guest \subseteq guest.mods \union lifted
    BY DEF CaptureOK, Owned
  <2>3. QED
    BY <1>8, <2>1, <2>2
<1>15. CaptureOK'
  BY <1>4, <1>5, <1>10, <1>11, <1>12, <1>13, <1>14 DEF CaptureOK, Owned, c
<1>16. QED
  BY <1>4, <1>5, <1>6, <1>7, <1>15

LEMMA PointerOK ==
    ASSUME CaptureOK, gesture' = gesture, NEW p \in SUBSET Mods,
           Becomes(router, synchronized([router EXCEPT !.pointer = p]), {}, {})
    PROVE  /\ CaptureOK'
           /\ router'.pointer = p /\ router'.host = router.host
           /\ router'.active = router.active
<1> DEFINE q == [router EXCEPT !.pointer = p]
           s == synchronized(q)
<1>1. q \in Router /\ q.active = router.active /\ q.pointer = p /\ q.host = router.host
  BY DEF CaptureOK, Router
<1>2. /\ s \in Router /\ s.guest = Target(s)
      /\ s.active = router.active /\ s.pointer = p /\ s.host = router.host
  <2> HIDE DEF q
  <2>1. QED
    BY <1>1, TargetType
<1>3. Becomes(router, s, {}, {})
  OBVIOUS
<1> HIDE DEF q, s
<1>4. KeysIn(s) = KeysIn(router)
  BY <1>2 DEF KeysIn, Active
<1>5. /\ {} \in SUBSET GuestKeys /\ {} \subseteq KeysIn(s)
      /\ KeysIn(router) \ {} \subseteq KeysIn(s)
  BY <1>4
<1>6. CaptureOK' /\ router' = s
  BY <1>2, <1>3, <1>5, BecomesOK
<1>7. QED
  BY <1>2, <1>6

LEMMA ReleaseAllOK ==
    ASSUME CaptureOK, gesture \in Gesture, releaseAll
    PROVE  CaptureOK' /\ router' = NoRouter
             /\ gesture' = [gesture EXCEPT !.command = FALSE]
<1>1. router' = NoRouter /\ gesture' = [gesture EXCEPT !.command = FALSE] /\ lifted' = {}
  BY DEF releaseAll
<1>2. gesture'.command = FALSE
  BY <1>1 DEF Gesture
<1>3. guest' \in Down /\ viaView' \in Down
  BY DEF releaseAll, CaptureOK, Down
<1>4. guest'.keys \subseteq viaView'.keys
  BY DEF releaseAll, CaptureOK, Owned
<1>5. guest'.mods \subseteq viaView'.mods
  BY DEF releaseAll, CaptureOK, Owned
<1>6. Owned'
  BY <1>1, <1>2, <1>4, <1>5 DEF Owned, NoRouter
<1>7. QED
  BY <1>1, <1>3, <1>6, NoRouterType DEF CaptureOK

LEMMA EmptyOK ==
    ASSUME router' = NoRouter, guest' = Nothing, viaView' = Nothing, lifted' = {}
    PROVE  CaptureOK'
  BY NoRouterType DEF CaptureOK, Owned, Nothing, Down, NoRouter

LEMMA QuietOK ==
    ASSUME CaptureOK, UNCHANGED <<router, guest, viaView, lifted, gesture>>
    PROVE  CaptureOK'
  BY DEF CaptureOK, Owned, KeysIn, Active, Target

LEMMA ViewSendsOK ==
    ASSUME CaptureOK, gesture' = gesture, NEW down \in BOOLEAN,
           NEW field \in {"keys", "mods"}, NEW x,
           field = "keys" => x \in GuestKeys, field = "mods" => x \in Mods,
           ViewSends(field, x, down)
    PROVE  CaptureOK' /\ router' = router
<1>1. router' = router
  BY DEF ViewSends
<1>2. lifted' \in SUBSET Mods
  BY DEF ViewSends, CaptureOK
<1>3. KeysIn(router') = KeysIn(router) /\ Target(router') = Target(router)
  BY <1>1
<1> DEFINE c == IF gesture.command THEN {Command} ELSE {}
<1>4. /\ guest.keys \subseteq KeysIn(router) \union viaView.keys
      /\ guest.mods \subseteq router.guest \union viaView.mods \union c
      /\ router.guest \subseteq guest.mods \union lifted
  BY DEF CaptureOK, Owned
<1>5. SUFFICES /\ guest' \in Down /\ viaView' \in Down
               /\ guest'.keys \subseteq KeysIn(router) \union viaView'.keys
               /\ guest'.mods \subseteq router.guest \union viaView'.mods \union c
               /\ router.guest \subseteq guest'.mods \union lifted'
  BY <1>1, <1>2, <1>3 DEF CaptureOK, Owned
<1> HIDE DEF c
<1>6. CASE field = "keys"
  <2>1. /\ guest'.mods = guest.mods /\ viaView'.mods = viaView.mods /\ lifted' = lifted
        /\ guest'.keys = IF down THEN guest.keys \union {x} ELSE guest.keys \ {x}
        /\ viaView'.keys = IF down THEN viaView.keys \union {x} ELSE viaView.keys \ {x}
        /\ guest' \in Down /\ viaView' \in Down
    BY <1>6 DEF ViewSends, CaptureOK, Down
  <2>2. QED
    BY <1>4, <2>1
<1>7. CASE field = "mods"
  <2>1. /\ guest'.keys = guest.keys /\ viaView'.keys = viaView.keys
        /\ guest'.mods = IF down THEN guest.mods \union {x} ELSE guest.mods \ {x}
        /\ viaView'.mods = IF down THEN viaView.mods \union {x} ELSE viaView.mods \ {x}
        /\ guest' \in Down /\ viaView' \in Down
    BY <1>7 DEF ViewSends, CaptureOK, Down
  <2>2. lifted' = IF down THEN lifted ELSE lifted \union ({x} \intersect router.guest)
    BY <1>7 DEF ViewSends
  <2>3. QED
    BY <1>4, <2>1, <2>2
<1>8. QED
  BY <1>6, <1>7

-----------------------------------------------------------------------------
(* Every action keeps InputInv                                              *)

Rest ==
    /\ native \in BOOLEAN /\ immersed \in BOOLEAN /\ frontmost \in BOOLEAN
    /\ tap \in {"none", "off", "on"} /\ notice \in BOOLEAN
    /\ tasks \in Seq({"resign", "become", "exit"})
    /\ held \in SUBSET Keys /\ mods \in SUBSET Mods
    /\ button \in BOOLEAN /\ swiping \in BOOLEAN /\ gesture \in Gesture
    /\ presses \in 0..MaxPresses /\ timeouts \in 0..MaxTimeouts

LEMMA Parts == InputInv <=> CaptureOK /\ Rest /\ TapInv /\ DownIsHeld
  BY DEF InputInv, CaptureOK, Rest, TypeOK

LEMMA PartsNext == InputInv' <=> CaptureOK' /\ Rest' /\ TapInv' /\ DownIsHeld'
  BY DEF InputInv, CaptureOK, Rest, TypeOK

LEMMA CountedType ==
    ASSUME presses \in 0..MaxPresses, NEW b, Counted(b)
    PROVE  presses' \in 0..MaxPresses
  BY ConstantsAssumption DEF Counted

LEMMA KeyDownInv ==
    ASSUME InputInv, NEW k \in Keys, NEW repeats \in BOOLEAN, KeyDown(k, repeats)
    PROVE  InputInv'
<1>1. CaptureOK /\ Rest /\ TapInv /\ DownIsHeld
  BY Parts
<1>2. /\ held' = held \union {k}
      /\ UNCHANGED <<native, frontmost, timeouts, mods, button, swiping, gesture,
                      immersed, tap, notice>>
  BY DEF KeyDown, control
<1>3. Rest'
  <2>1. presses' \in 0..MaxPresses
    BY <1>1, CountedType DEF KeyDown, Rest
  <2>2. tasks' \in Seq({"resign", "become", "exit"})
    <3>1. tasks' = tasks \/ tasks' = Append(tasks, "exit")
      BY DEF KeyDown
    <3>2. QED
      BY <1>1, <3>1 DEF Rest
  <2>3. QED
    BY <1>1, <1>2, <2>1, <2>2 DEF Rest
<1>4. CASE UNCHANGED <<router, guest, viaView, lifted>>
  <2>1. CaptureOK'
    BY <1>1, <1>2, <1>4, QuietOK
  <2>2. TapInv' /\ DownIsHeld'
    BY <1>1, <1>2, <1>4 DEF TapInv, DownIsHeld, Active
  <2>3. QED
    BY <1>3, <2>1, <2>2, PartsNext
<1>5. CASE Tapped /\ press(k, mods, repeats)
  <2>1. /\ CaptureOK'
        /\ router'.pointer = router.pointer /\ router'.host = router.host
        /\ \A j \in Active(router') :
              \/ j \in Active(router) /\ router'.active[j] = router.active[j]
              \/ j = k /\ router'.active[j].required = mods
    BY <1>1, <1>2, <1>5, PressOK DEF Rest
  <2>2. TapInv'
    BY <1>1, <1>2, <1>5, <2>1 DEF TapInv, Tapped
  <2>3. DownIsHeld'
    BY <1>1, <1>2, <2>1 DEF DownIsHeld, Active
  <2>4. QED
    BY <1>3, <2>1, <2>2, <2>3, PartsNext
<1>6. ASSUME NEW down \in BOOLEAN, Viewed, ViewSends("keys", k, down) PROVE InputInv'
  <2>1. CaptureOK' /\ router' = router
    BY <1>1, <1>2, <1>6, ViewSendsOK, ConstantsAssumption
  <2>2. TapInv' /\ DownIsHeld'
    BY <1>1, <1>2, <2>1 DEF TapInv, DownIsHeld, Active
  <2>3. QED
    BY <1>3, <2>1, <2>2, PartsNext
<1>7. CASE Viewed /\ ViewKeyDown(k, repeats)
  BY <1>4, <1>6, <1>7 DEF ViewKeyDown, RouterUnchanged
<1>8. QED
  BY <1>4, <1>5, <1>7 DEF KeyDown, RouterUnchanged

LEMMA KeyUpInv ==
    ASSUME InputInv, NEW k \in Keys, KeyUp(k)
    PROVE  InputInv'
<1>1. CaptureOK /\ Rest /\ TapInv /\ DownIsHeld
  BY Parts
<1>2. /\ held' = held \ {k}
      /\ UNCHANGED <<native, frontmost, timeouts, tasks, mods, button, swiping, gesture,
                      immersed, tap, notice>>
  BY DEF KeyUp, control
<1>3. Rest'
  <2>1. presses' \in 0..MaxPresses
    BY <1>1, CountedType DEF KeyUp, Rest
  <2>2. QED
    BY <1>1, <1>2, <2>1 DEF Rest
<1>4. CASE ~Tapped /\ UNCHANGED <<router, guest, viaView, lifted>>
  <2>1. CaptureOK'
    BY <1>1, <1>2, <1>4, QuietOK
  <2>2. TapInv'
    BY <1>1, <1>2, <1>4 DEF TapInv, Active
  <2>3. DownIsHeld'
    BY <1>1, <1>2, <1>4 DEF TapInv, DownIsHeld, Active, Tapped
  <2>4. QED
    BY <1>3, <2>1, <2>2, <2>3, PartsNext
<1>5. CASE Tapped /\ release(k)
  <2>1. /\ CaptureOK'
        /\ router'.pointer = router.pointer /\ router'.host = router.host
        /\ Active(router') = Active(router) \ {k}
        /\ \A j \in Active(router') : router'.active[j] = router.active[j]
    BY <1>1, <1>2, <1>5, ReleaseOK
  <2>2. TapInv'
    BY <1>1, <1>2, <1>5, <2>1 DEF TapInv, Tapped
  <2>3. DownIsHeld'
    BY <1>1, <1>2, <2>1 DEF DownIsHeld
  <2>4. QED
    BY <1>3, <2>1, <2>2, <2>3, PartsNext
<1>6. CASE Viewed /\ ViewSends("keys", k, FALSE)
  <2>1. CaptureOK' /\ router' = router
    BY <1>1, <1>2, <1>6, ViewSendsOK, ConstantsAssumption
  <2>2. TapInv' /\ DownIsHeld'
    BY <1>1, <1>2, <1>6, <2>1 DEF TapInv, DownIsHeld, Active, Viewed
  <2>3. QED
    BY <1>3, <2>1, <2>2, PartsNext
<1>7. QED
  BY <1>4, <1>5, <1>6 DEF KeyUp, RouterUnchanged

LEMMA FlagsChangedInv ==
    ASSUME InputInv, NEW m \in Mods, FlagsChanged(m)
    PROVE  InputInv'
<1>1. CaptureOK /\ Rest /\ TapInv /\ DownIsHeld
  BY Parts
<1>2. /\ mods' \in SUBSET Mods
      /\ UNCHANGED <<native, frontmost, timeouts, tasks, held, button, swiping, gesture,
                      immersed, tap, notice>>
  BY <1>1 DEF FlagsChanged, control, Rest
<1>3. Rest'
  <2>1. presses' \in 0..MaxPresses
    BY <1>1, CountedType DEF FlagsChanged, Rest
  <2>2. QED
    BY <1>1, <1>2, <2>1 DEF Rest
<1>4. CASE ~Tapped /\ UNCHANGED <<router, guest, viaView, lifted>>
  <2>1. CaptureOK'
    BY <1>1, <1>2, <1>4, QuietOK
  <2>2. TapInv' /\ DownIsHeld'
    BY <1>1, <1>2, <1>4 DEF TapInv, DownIsHeld, Active, Tapped
  <2>3. QED
    BY <1>3, <2>1, <2>2, PartsNext
<1>5. CASE Tapped /\ updateHostModifiers(mods')
  <2>1. /\ CaptureOK'
        /\ router'.pointer = router.pointer /\ router'.host = mods'
        /\ \A j \in Active(router') :
              /\ j \in Active(router) /\ router'.active[j] = router.active[j]
              /\ router.active[j].required \subseteq mods'
    BY <1>1, <1>2, <1>5, UpdateOK
  <2>2. TapInv'
    BY <1>1, <1>2, <1>5, <2>1 DEF TapInv, Tapped
  <2>3. DownIsHeld'
    BY <1>1, <1>2, <2>1 DEF DownIsHeld
  <2>4. QED
    BY <1>3, <2>1, <2>2, <2>3, PartsNext
<1>6. CASE Viewed /\ ViewSends("mods", m, m \in mods')
  <2>1. CaptureOK' /\ router' = router
    <3>1. ViewSends("mods", m, TRUE) \/ ViewSends("mods", m, FALSE)
      BY <1>6 DEF ViewSends
    <3>2. QED
      BY <1>1, <1>2, <3>1, ViewSendsOK
  <2>2. TapInv' /\ DownIsHeld'
    BY <1>1, <1>2, <1>6, <2>1 DEF TapInv, DownIsHeld, Active, Viewed
  <2>3. QED
    BY <1>3, <2>1, <2>2, PartsNext
<1>7. QED
  BY <1>4, <1>5, <1>6 DEF FlagsChanged, RouterUnchanged

LEMMA MouseInv ==
    ASSUME InputInv, MouseDown \/ MouseUp
    PROVE  InputInv'
<1>1. CaptureOK /\ Rest /\ TapInv /\ DownIsHeld
  BY Parts
<1>2. /\ button' = ~button /\ button' \in BOOLEAN
      /\ UNCHANGED <<native, frontmost, timeouts, tasks, held, mods, swiping, gesture,
                      immersed, tap, notice>>
  BY DEF MouseDown, MouseUp, control
<1>3. Rest'
  <2>1. presses' \in 0..MaxPresses
    BY <1>1, CountedType DEF MouseDown, MouseUp, Rest
  <2>2. QED
    BY <1>1, <1>2, <2>1 DEF Rest
<1>4. CASE ~immersed
  <2>1. UNCHANGED <<router, guest, viaView, lifted>>
    BY <1>4 DEF MouseDown, MouseUp, RouterUnchanged
  <2>2. CaptureOK'
    BY <1>1, <1>2, <2>1, QuietOK
  <2>3. TapInv' /\ DownIsHeld'
    BY <1>1, <1>2, <1>4, <2>1 DEF TapInv, DownIsHeld, Active, NoRouter
  <2>4. QED
    BY <1>3, <2>2, <2>3, PartsNext
<1>5. CASE immersed
  <2>1. PICK p \in SUBSET Mods :
          /\ Becomes(router, synchronized([router EXCEPT !.pointer = p]), {}, {})
          /\ p # {} => button'
    <3>1. CASE MouseDown
      <4>1. pointerModifiers(mods) \in SUBSET Mods
        BY <1>1, ConstantsAssumption DEF Rest
      <4>2. QED
        BY <1>5, <3>1, <4>1 DEF MouseDown, beginPointerInteraction
    <3>2. CASE MouseUp
      BY <1>5, <3>2 DEF MouseUp, endPointerInteraction
    <3>3. QED
      BY <3>1, <3>2
  <2>2. /\ CaptureOK'
        /\ router'.pointer = p /\ router'.host = router.host
        /\ router'.active = router.active
    BY <1>1, <1>2, <2>1, PointerOK
  <2>3. TapInv' /\ DownIsHeld'
    BY <1>1, <1>2, <1>5, <2>1, <2>2 DEF TapInv, DownIsHeld, Active
  <2>4. QED
    BY <1>3, <2>2, <2>3, PartsNext
<1>6. QED
  BY <1>4, <1>5 DEF MouseDown, MouseUp

(* A gesture leaves the router as it is. *)
LEMMA GestureCommandOK ==
    ASSUME CaptureOK, gesture \in Gesture, gesture' \in Gesture,
           NEW down \in BOOLEAN, GestureCommand(down), native \in BOOLEAN,
           gesture'.command = (native /\ down), gesture.command => native
    PROVE  CaptureOK' /\ router' = router
<1>1. router' = router /\ viaView' = viaView /\ lifted' \in SUBSET Mods
  BY ConstantsAssumption DEF GestureCommand, CaptureOK
<1>2. guest'.keys = guest.keys /\ guest' \in Down
  BY ConstantsAssumption DEF GestureCommand, CaptureOK, Down
<1>3. guest'.mods = IF ~native THEN guest.mods
                    ELSE IF down THEN guest.mods \union {Command} ELSE guest.mods \ {Command}
  BY DEF GestureCommand, CaptureOK, Down
<1>4. lifted' = IF native /\ ~down THEN lifted \union ({Command} \intersect router.guest)
                ELSE lifted
  BY DEF GestureCommand
<1>5. KeysIn(router') = KeysIn(router) /\ Target(router') = Target(router)
  BY <1>1
<1>6. guest'.mods \subseteq router.guest \union viaView.mods
                             \union (IF gesture'.command THEN {Command} ELSE {})
  BY <1>3 DEF CaptureOK, Owned
<1>7. router.guest \subseteq guest'.mods \union lifted'
  BY <1>3, <1>4 DEF CaptureOK, Owned
<1>8. Owned'
  BY <1>1, <1>2, <1>5, <1>6, <1>7 DEF CaptureOK, Owned
<1>9. QED
  BY <1>1, <1>2, <1>5, <1>8 DEF CaptureOK

LEMMA SwipeSentOK ==
    ASSUME CaptureOK, gesture'.command = gesture.command, sendWorkspaceSwipe
    PROVE  CaptureOK' /\ router' = router
<1>1. CASE UNCHANGED <<router, guest, viaView, lifted>>
  BY <1>1 DEF CaptureOK, Owned, KeysIn, Active, Target
<1>2. CASE /\ guest' = [keys |-> guest.keys \ {workspaceChord.key},
                        mods |-> guest.mods \ workspaceChord.mods]
           /\ viaView' = [keys |-> viaView.keys \ {workspaceChord.key},
                          mods |-> viaView.mods \ workspaceChord.mods]
           /\ lifted' = lifted \union (router.guest \intersect workspaceChord.mods)
           /\ UNCHANGED router
  <2>1. guest' \in Down /\ viaView' \in Down
    BY <1>2 DEF CaptureOK, Down
  <2>2. lifted' \in SUBSET Mods
    BY <1>2 DEF CaptureOK, Router
  <2>3. Owned'
    BY <1>2 DEF CaptureOK, Owned, KeysIn, Active
  <2>4. QED
    BY <1>2, <2>1, <2>2, <2>3 DEF CaptureOK, Target
<1>3. QED
  BY <1>1, <1>2 DEF sendWorkspaceSwipe

LEMMA SwipeInv ==
    ASSUME InputInv, SwipeBegins \/ SwipeChanges \/ SwipeEnds \/ SwipeCancelled
    PROVE  InputInv'
<1>1. CaptureOK /\ Rest /\ TapInv /\ DownIsHeld
  BY Parts
<1>2. UNCHANGED <<native, frontmost, tasks, timeouts, held, mods, button, immersed, tap, notice>>
  BY DEF SwipeBegins, SwipeChanges, SwipeEnds, SwipeCancelled, user, control
<1>3. presses' \in 0..MaxPresses
  BY <1>1, CountedType
  DEF SwipeBegins, SwipeChanges, SwipeEnds, SwipeCancelled, Rest, user
<1>4. SUFFICES /\ CaptureOK' /\ router' = router
               /\ gesture' \in Gesture /\ swiping' \in BOOLEAN
               /\ ~immersed => gesture' = gesture
               /\ gesture'.command => native /\ gesture'.tracks
               /\ tap # "on" /\ ~notice => ~gesture'.command
               /\ tap = "on" /\ ~notice => (gesture'.command => swiping')
  <2>1. Rest'
    BY <1>1, <1>2, <1>3, <1>4 DEF Rest
  <2>2. TapInv' /\ DownIsHeld'
    BY <1>1, <1>2, <1>4 DEF TapInv, DownIsHeld, Active
  <2>3. QED
    BY <1>4, <2>1, <2>2, PartsNext
<1>5. /\ gesture \in Gesture /\ NoGesture \in Gesture
      /\ native \in BOOLEAN /\ swiping \in BOOLEAN
      /\ gesture.command => native /\ gesture.tracks
      /\ ~NoGesture.command
      /\ tap # "on" /\ ~notice => ~gesture.command
      /\ tap = "on" => immersed
  BY <1>1 DEF Rest, TapInv, Gesture, NoGesture
<1>6. CASE UNCHANGED capture /\ tap # "on" /\ swiping' \in BOOLEAN
  <2>1. UNCHANGED <<router, guest, viaView, lifted, gesture>>
    BY <1>6 DEF capture
  <2>2. QED
    BY <1>1, <1>5, <1>6, <2>1, QuietOK
<1>7. CASE SwipeBegins /\ tap = "on"
  <2>1. /\ gesture' = [tracks |-> TRUE, fired |-> FALSE, command |-> native]
        /\ GestureCommand(TRUE) /\ swiping' = TRUE
    BY <1>7 DEF SwipeBegins
  <2>2. gesture' \in Gesture /\ gesture'.command = (native /\ TRUE) /\ gesture'.tracks
    BY <1>5, <2>1 DEF Gesture
  <2>3. CaptureOK' /\ router' = router
    BY <1>1, <1>5, <2>1, <2>2, GestureCommandOK
  <2>4. QED
    BY <1>5, <1>7, <2>1, <2>2, <2>3
<1>8. CASE SwipeChanges
  <2>1. /\ gesture' = [gesture EXCEPT !.fired = TRUE]
        /\ sendWorkspaceSwipe /\ swiping' = swiping /\ tap = "on"
    BY <1>8 DEF SwipeChanges, user
  <2>2. /\ gesture' \in Gesture /\ gesture'.command = gesture.command
        /\ gesture'.tracks = gesture.tracks
    BY <1>5, <2>1 DEF Gesture
  <2>3. CaptureOK' /\ router' = router
    BY <1>1, <2>1, <2>2, SwipeSentOK
  <2>4. QED
    BY <1>1, <1>5, <2>1, <2>2, <2>3 DEF TapInv
<1>9. CASE swiping' = FALSE /\ gesture' = NoGesture /\ GestureCommand(FALSE) /\ tap = "on"
  <2>1. gesture'.command = (native /\ FALSE)
    BY <1>5, <1>9 DEF NoGesture
  <2>2. CaptureOK' /\ router' = router
    BY <1>1, <1>5, <1>9, <2>1, GestureCommandOK
  <2>3. QED
    BY <1>5, <1>9, <2>2
<1>10. CASE /\ swiping' = FALSE /\ gesture' = NoGesture /\ ~native /\ tap = "on"
            /\ RouterUnchanged \/ sendWorkspaceSwipe
  <2>1. gesture'.command = gesture.command
    BY <1>5, <1>10 DEF Gesture, NoGesture
  <2>2. sendWorkspaceSwipe
    BY <1>10 DEF RouterUnchanged, sendWorkspaceSwipe
  <2>3. CaptureOK' /\ router' = router
    BY <1>1, <2>1, <2>2, SwipeSentOK
  <2>4. QED
    BY <1>5, <1>10, <2>3
<1>11. CASE UNCHANGED capture /\ SwipeEnds /\ ~gesture.tracks
  <2>1. UNCHANGED <<router, guest, viaView, lifted, gesture>> /\ swiping' = FALSE
    BY <1>11 DEF capture, SwipeEnds
  <2>2. QED
    BY <1>1, <1>5, <1>11, <2>1, QuietOK
<1>12. CASE SwipeEnds
  BY <1>6, <1>9, <1>10, <1>11, <1>12 DEF SwipeEnds
<1>13. CASE SwipeBegins /\ tap # "on"
  BY <1>6, <1>13 DEF SwipeBegins
<1>14. CASE SwipeCancelled
  BY <1>6, <1>9, <1>14 DEF SwipeCancelled
<1>15. QED
  BY <1>7, <1>8, <1>12, <1>13, <1>14

LEMMA TapStepInv ==
    ASSUME InputInv, TapTimesOut \/ TapDisabled
    PROVE  InputInv'
<1>1. CaptureOK /\ Rest /\ TapInv /\ DownIsHeld
  BY Parts
<1>2. CASE TapTimesOut
  <2>1. /\ UNCHANGED <<native, frontmost, tasks, held, mods, button, swiping, presses, immersed>>
        /\ UNCHANGED <<router, guest, viaView, lifted, gesture>>
        /\ tap = "on" /\ tap' = "off" /\ notice' = TRUE
    BY <1>2 DEF TapTimesOut, user, capture
  <2>2. timeouts' \in 0..MaxTimeouts
    BY <1>1, <1>2, ConstantsAssumption DEF TapTimesOut, Rest
  <2>3. CaptureOK'
    BY <1>1, <2>1, QuietOK
  <2>4. Rest'
    BY <1>1, <2>1, <2>2 DEF Rest
  <2>5. TapInv' /\ DownIsHeld'
    BY <1>1, <2>1 DEF TapInv, DownIsHeld, Active
  <2>6. QED
    BY <2>3, <2>4, <2>5, PartsNext
<1>3. CASE TapDisabled
  <2>1. /\ UNCHANGED <<native, frontmost, tasks, timeouts, held, mods, button, swiping, presses,
                        immersed>>
        /\ releaseAll /\ notice /\ tap' = "on" /\ notice' = FALSE
    BY <1>3 DEF TapDisabled, user
  <2>2. /\ CaptureOK' /\ router' = NoRouter
        /\ gesture' = [gesture EXCEPT !.command = FALSE]
    BY <1>1, <2>1, ReleaseAllOK DEF Rest
  <2>3. gesture' \in Gesture /\ gesture'.command = FALSE
    BY <1>1, <2>2 DEF Rest, Gesture
  <2>4. Rest'
    BY <1>1, <2>1, <2>3 DEF Rest
  <2>5. NoRouter.pointer = {} /\ NoRouter.host = {}
    BY DEF NoRouter
  <2>6. TapInv' /\ DownIsHeld'
    BY <1>1, <2>1, <2>2, <2>3, <2>5, NoRouterType DEF TapInv, DownIsHeld
  <2>7. QED
    BY <2>2, <2>4, <2>6, PartsNext
<1>4. QED
  BY <1>2, <1>3

LEMMA ExitOK ==
    ASSUME CaptureOK, Rest, TapInv, DownIsHeld, exit,
           UNCHANGED <<native, frontmost, timeouts, held, mods, button, swiping, presses>>,
           tasks' \in Seq({"resign", "become", "exit"})
    PROVE  InputInv'
<1>1. CASE immersed
  <2>1. /\ immersed' = FALSE /\ tap' = "none" /\ notice' = FALSE
        /\ router' = NoRouter /\ gesture' = NoGesture
        /\ guest' = Nothing /\ viaView' = Nothing /\ lifted' = {}
    BY <1>1 DEF exit
  <2>2. CaptureOK'
    BY <2>1, EmptyOK
  <2>3. Rest'
    BY <2>1 DEF Rest, Gesture, NoGesture
  <2>4. NoRouter.pointer = {} /\ NoRouter.host = {} /\ ~NoGesture.command
    BY DEF NoRouter, NoGesture
  <2>5. TapInv' /\ DownIsHeld'
    BY <2>1, <2>4, NoRouterType DEF TapInv, DownIsHeld
  <2>6. QED
    BY <2>2, <2>3, <2>5, PartsNext
<1>2. CASE ~immersed
  <2>1. UNCHANGED <<immersed, tap, notice, router, guest, viaView, lifted, gesture>>
    BY <1>2 DEF exit, control, capture
  <2>2. CaptureOK'
    BY <2>1, QuietOK
  <2>3. Rest' /\ TapInv' /\ DownIsHeld'
    BY <2>1 DEF Rest, TapInv, DownIsHeld, Active
  <2>4. QED
    BY <2>2, <2>3, PartsNext
<1>3. QED
  BY <1>1, <1>2

LEMMA ControlInv ==
    ASSUME InputInv,
           Enter \/ Exit \/ (\E active \in BOOLEAN : Activates(active)) \/ RunTask
    PROVE  InputInv'
<1> DEFINE Task == {"resign", "become", "exit"}
<1>1. CaptureOK /\ Rest /\ TapInv /\ DownIsHeld
  BY Parts
<1>2. CASE Enter
  <2>1. /\ UNCHANGED <<native, frontmost, tasks, timeouts, held, mods, button, swiping, presses>>
        /\ UNCHANGED <<router, guest, viaView, lifted, gesture, notice>>
        /\ ~immersed /\ immersed' = TRUE /\ tap' \in {"none", "on"}
    BY <1>2 DEF Enter, user, capture
  <2>2. CaptureOK'
    BY <1>1, <2>1, QuietOK
  <2>3. Rest'
    BY <1>1, <2>1 DEF Rest
  <2>4. NoRouter.pointer = {} /\ NoRouter.host = {} /\ ~NoGesture.command
    BY DEF NoRouter, NoGesture
  <2>5. TapInv' /\ DownIsHeld'
    BY <1>1, <2>1, <2>4, NoRouterType DEF TapInv, DownIsHeld
  <2>6. QED
    BY <2>2, <2>3, <2>5, PartsNext
<1>3. CASE Exit
  BY <1>1, <1>3, ExitOK DEF Exit, user, Rest
<1>4. ASSUME NEW active \in BOOLEAN, Activates(active) PROVE InputInv'
  <2>1. /\ UNCHANGED <<native, timeouts, held, mods, button, swiping, presses, immersed, tap,
                        notice>>
        /\ UNCHANGED <<router, guest, viaView, lifted, gesture>>
        /\ frontmost' = active
    BY <1>4 DEF Activates, user, capture, control
  <2>2. tasks' \in Seq(Task)
    <3>1. \/ tasks' = tasks
          \/ tasks' = Append(tasks, IF active THEN "become" ELSE "resign")
      BY <1>4 DEF Activates
    <3>2. QED
      BY <1>1, <3>1 DEF Rest
  <2>3. CaptureOK'
    BY <1>1, <2>1, QuietOK
  <2>4. Rest'
    BY <1>1, <2>1, <2>2 DEF Rest
  <2>5. TapInv' /\ DownIsHeld'
    BY <1>1, <2>1 DEF TapInv, DownIsHeld, Active
  <2>6. QED
    BY <2>3, <2>4, <2>5, PartsNext
<1>5. CASE RunTask
  <2>1. /\ UNCHANGED <<native, frontmost, timeouts, held, mods, button, swiping, presses>>
        /\ tasks' = Tail(tasks) /\ tasks # <<>>
    BY <1>5 DEF RunTask, user
  <2>2. tasks' \in Seq(Task) /\ Head(tasks) \in Task
    BY <1>1, <2>1, HeadTailProperties DEF Rest
  <2>3. resigned \/ became \/ exit
    BY <1>5, <2>2 DEF RunTask
  <2>4. CASE exit
    BY <1>1, <2>1, <2>2, <2>4, ExitOK
  <2>5. CASE resigned /\ immersed
    <3>1. /\ tap' = IF tap = "none" THEN "none" ELSE "off"
          /\ router' = NoRouter /\ gesture' = [gesture EXCEPT !.command = FALSE]
          /\ guest' = Nothing /\ viaView' = Nothing /\ lifted' = {}
          /\ UNCHANGED <<immersed, notice>>
      BY <2>5 DEF resigned
    <3>2. CaptureOK'
      BY <3>1, EmptyOK
    <3>3. gesture' \in Gesture /\ gesture'.command = FALSE
      BY <1>1, <3>1 DEF Rest, Gesture
    <3>4. Rest'
      BY <1>1, <2>1, <2>2, <3>1, <3>3 DEF Rest
    <3>5. NoRouter.pointer = {} /\ NoRouter.host = {}
      BY DEF NoRouter
    <3>6. TapInv' /\ DownIsHeld'
      BY <1>1, <2>1, <2>5, <3>1, <3>3, <3>5, NoRouterType DEF TapInv, DownIsHeld
    <3>7. QED
      BY <3>2, <3>4, <3>6, PartsNext
  <2>6. CASE became /\ immersed
    <3>1. /\ UNCHANGED <<immersed, notice, router, guest, viaView, lifted, gesture>>
          /\ tap' = "on" \/ (tap' = "none" /\ tap = "none")
      BY <2>6 DEF became, capture
    <3>2. CaptureOK'
      BY <1>1, <3>1, QuietOK
    <3>3. Rest'
      BY <1>1, <2>1, <2>2, <3>1 DEF Rest
    <3>4. TapInv'
      BY <1>1, <2>1, <2>6, <3>1 DEF TapInv, Active
    <3>5. DownIsHeld'
      BY <1>1, <2>1, <3>1 DEF TapInv, DownIsHeld, Active
    <3>6. QED
      BY <3>2, <3>3, <3>4, <3>5, PartsNext
  <2>7. CASE (resigned \/ became) /\ ~immersed
    <3>1. exit
      BY <2>7 DEF resigned, became, exit, control
    <3>2. QED
      BY <2>4, <3>1
  <2>8. QED
    BY <2>3, <2>4, <2>5, <2>6, <2>7
<1>6. QED
  BY <1>2, <1>3, <1>4, <1>5

LEMMA InitInv == Init => InputInv
<1> SUFFICES ASSUME Init PROVE InputInv
  OBVIOUS
<1>1. CaptureOK
  BY NoRouterType DEF Init, CaptureOK, Owned, Nothing, Down, NoRouter
<1>2. Rest
  <2>1. presses \in 0..MaxPresses /\ timeouts \in 0..MaxTimeouts
    BY ConstantsAssumption DEF Init
  <2>2. gesture \in Gesture
    BY DEF Init, Gesture, NoGesture
  <2>3. tasks \in Seq({"resign", "become", "exit"})
    BY DEF Init
  <2>4. held \in SUBSET Keys /\ mods \in SUBSET Mods
    BY DEF Init
  <2>5. /\ native \in BOOLEAN /\ immersed \in BOOLEAN /\ frontmost \in BOOLEAN
        /\ tap \in {"none", "off", "on"} /\ notice \in BOOLEAN
        /\ button \in BOOLEAN /\ swiping \in BOOLEAN
    BY DEF Init
  <2>6. QED
    BY <2>1, <2>2, <2>3, <2>4, <2>5 DEF Rest
<1>3. TapInv /\ DownIsHeld
  BY NoRouterType DEF Init, TapInv, DownIsHeld, NoRouter, NoGesture
<1>4. QED
  BY <1>1, <1>2, <1>3, Parts

LEMMA NextInv == InputInv /\ [Next]_vars => InputInv'
<1> SUFFICES ASSUME InputInv, [Next]_vars PROVE InputInv'
  OBVIOUS
<1>1. CASE UNCHANGED vars
  <2>1. /\ UNCHANGED <<router, guest, viaView, lifted, gesture>>
        /\ UNCHANGED <<native, frontmost, tasks, timeouts, held, mods, button, swiping, presses,
                        immersed, tap, notice>>
    BY <1>1 DEF vars, user, capture, control
  <2>2. CaptureOK'
    BY <2>1, Parts, QuietOK
  <2>3. Rest' /\ TapInv' /\ DownIsHeld'
    BY <2>1, Parts DEF Rest, TapInv, DownIsHeld, Active
  <2>4. QED
    BY <2>2, <2>3, PartsNext
<1>2. CASE Next
  BY <1>2, KeyDownInv, KeyUpInv, FlagsChangedInv, MouseInv, SwipeInv, TapStepInv, ControlInv
  DEF Next
<1>3. QED
  BY <1>1, <1>2

-----------------------------------------------------------------------------

(* The inductive invariant holds, for every keyboard and profile. *)
THEOREM InputInvariant == Spec => []InputInv
  BY InitInv, NextInv, PTL DEF Spec

(* A key the router holds down in the guest is held on the host with the
   modifiers it was pressed with, whenever the tap is on and has no notice to
   handle: what ImmersiveInputCapture.handle missed was released by it. *)
THEOREM HeldKeys == Spec => []DownIsHeld
<1>1. InputInv => DownIsHeld
  BY DEF InputInv
<1>2. QED
  BY <1>1, InputInvariant, PTL

(* Once the user holds nothing, GuestInputRouter has left no key and no
   modifier down in the guest. *)
THEOREM NoStuckKeys == Spec => []NothingStuck
<1>1. InputInv => NothingStuck
  <2> SUFFICES ASSUME InputInv, tap = "on", ~notice, held = {}, mods = {}, ~button, ~swiping
               PROVE  guest.keys \subseteq viaView.keys /\ guest.mods \subseteq viaView.mods
    BY DEF NothingStuck
  <2>1. Active(router) = {}
    BY DEF InputInv, DownIsHeld
  <2>2. router.pointer = {} /\ router.host = {} /\ ~gesture.command
    BY DEF InputInv, TapInv
  <2>3. KeysIn(router) = {}
    BY <2>1 DEF KeysIn
  <2>4. \A k \in Keys : router.active[k].mods = {}
    BY <2>1 DEF Active, NoChord
  <2>5. Target(router) = {}
    BY <2>2, <2>4 DEF Target
  <2>6. QED
    BY <2>2, <2>3, <2>5 DEF InputInv, Owned
<1>2. QED
  BY <1>1, InputInvariant, PTL

(* A step that makes no press leaves every inactive key inactive. *)
LEMMA OnlyPressActivates ==
    ASSUME InputInv, [Next]_vars, NEW k \in Keys,
           router.active[k] = NoChord, router'.active[k] # NoChord
    PROVE  /\ Tapped /\ gesture' = gesture
           /\ Becomes(router, Pressed(k, mods), {chord(k, mods).key}, {})
<1>1. CaptureOK /\ Rest /\ TapInv /\ DownIsHeld
  BY Parts
<1>2. router' # router /\ router' # NoRouter
  BY DEF NoRouter
<1>3. ASSUME Active(router') \subseteq Active(router) PROVE FALSE
  BY <1>3 DEF Active
<1>4. ASSUME NEW j \in Keys, NEW repeats \in BOOLEAN, KeyDown(j, repeats)
      PROVE  /\ Tapped /\ gesture' = gesture
             /\ Becomes(router, Pressed(k, mods), {chord(k, mods).key}, {})
  <2>1. Tapped /\ press(j, mods, repeats) /\ gesture' = gesture
    BY <1>2, <1>4 DEF KeyDown, RouterUnchanged, ViewKeyDown, ViewSends
  <2>2. ~repeats /\ router.active[j] = NoChord
    BY <1>2, <2>1 DEF press
  <2>3. Becomes(router, Pressed(j, mods), {chord(j, mods).key}, {})
    BY <2>1, <2>2 DEF press
  <2>4. \A i \in Active(router') :
           \/ i \in Active(router) /\ router'.active[i] = router.active[i]
           \/ i = j /\ router'.active[i].required = mods
    BY <1>1, <2>1, PressOK DEF Rest
  <2>5. j = k
    BY <2>4 DEF Active
  <2>6. QED
    BY <2>1, <2>3, <2>5
<1>5. ASSUME NEW j \in Keys, KeyUp(j) PROVE FALSE
  <2>1. release(j) /\ gesture' = gesture
    BY <1>2, <1>5 DEF KeyUp, RouterUnchanged, ViewSends
  <2>2. Active(router') = Active(router) \ {j}
    BY <1>1, <2>1, ReleaseOK
  <2>3. QED
    BY <1>3, <2>2
<1>6. ASSUME NEW m \in Mods, FlagsChanged(m) PROVE FALSE
  <2>1. updateHostModifiers(mods') /\ gesture' = gesture /\ mods' \in SUBSET Mods
    BY <1>1, <1>2, <1>6 DEF FlagsChanged, RouterUnchanged, ViewSends, Rest
  <2>2. \A i \in Active(router') : i \in Active(router)
    BY <1>1, <2>1, UpdateOK
  <2>3. QED
    BY <1>3, <2>2
<1>7. ASSUME MouseDown \/ MouseUp PROVE FALSE
  <2>1. gesture' = gesture
    BY <1>7 DEF MouseDown, MouseUp
  <2>2. \E p \in SUBSET Mods :
           Becomes(router, synchronized([router EXCEPT !.pointer = p]), {}, {})
    <3>1. pointerModifiers(mods) \in SUBSET Mods /\ {} \in SUBSET Mods
      BY <1>1, ConstantsAssumption DEF Rest
    <3>2. QED
      BY <1>2, <1>7, <3>1 DEF MouseDown, MouseUp, beginPointerInteraction,
                              endPointerInteraction, RouterUnchanged
  <2>3. router'.active = router.active
    BY <1>1, <2>1, <2>2, PointerOK
  <2>4. QED
    BY <2>3
<1>8. ASSUME SwipeBegins \/ SwipeChanges \/ SwipeEnds \/ SwipeCancelled PROVE FALSE
  BY <1>2, <1>8 DEF SwipeBegins, SwipeChanges, SwipeEnds, SwipeCancelled, GestureCommand,
                    sendWorkspaceSwipe, RouterUnchanged, capture
<1>9. ASSUME TapTimesOut \/ TapDisabled \/ Enter \/ Exit PROVE FALSE
  BY <1>2, <1>9 DEF TapTimesOut, TapDisabled, Enter, Exit, exit, releaseAll, capture
<1>10. ASSUME RunTask PROVE FALSE
  <2>1. tasks \in Seq({"resign", "become", "exit"}) /\ tasks # <<>>
    BY <1>1, <1>10 DEF RunTask, Rest
  <2>2. Head(tasks) \in {"resign", "become", "exit"}
    BY <2>1, HeadTailProperties
  <2>3. resigned \/ became \/ exit
    BY <1>10, <2>2 DEF RunTask
  <2>4. QED
    BY <1>2, <2>3 DEF resigned, became, exit, capture
<1>11. ASSUME NEW active \in BOOLEAN, Activates(active) PROVE FALSE
  BY <1>2, <1>11 DEF Activates, capture
<1>12. ASSUME UNCHANGED vars PROVE FALSE
  BY <1>2, <1>12 DEF vars, capture
<1>13. QED
  BY <1>4, <1>5, <1>6, <1>7, <1>8, <1>9, <1>10, <1>11, <1>12 DEF Next

(* Every key that GuestInputRouter.press sends goes down in the guest with the
   modifiers of the chords that are held and of the pointer, and no others. *)
THEOREM ChordsArrive == Spec => ChordArrives
<1> DEFINE Wanted(r) == (UNION {r.active[j].mods : j \in Keys}) \union r.pointer
           Arrives(k) == router.active[k] = NoChord /\ router'.active[k] # NoChord =>
                           /\ router'.active[k].key \in guest'.keys
                           /\ guest'.mods \subseteq Wanted(router') \union viaView'.mods
                           /\ Wanted(router') \subseteq guest'.mods \union lifted'
<1>1. ASSUME InputInv, [Next]_vars, InputInv', NEW k \in Keys PROVE Arrives(k)
  <2> SUFFICES ASSUME router.active[k] = NoChord, router'.active[k] # NoChord
               PROVE  /\ router'.active[k].key \in guest'.keys
                      /\ guest'.mods \subseteq Wanted(router') \union viaView'.mods
                      /\ Wanted(router') \subseteq guest'.mods \union lifted'
    OBVIOUS
  <2>1. /\ Tapped /\ gesture' = gesture
        /\ Becomes(router, Pressed(k, mods), {chord(k, mods).key}, {})
    BY <1>1, OnlyPressActivates
  <2>2. mods \in SUBSET Mods /\ router \in Router
    BY <1>1 DEF InputInv, TypeOK
  <2> DEFINE s == Pressed(k, mods)
  <2>3. /\ s.latched = chord(k, mods).mods
        /\ s.active = [router.active EXCEPT ![k] = [key |-> chord(k, mods).key,
                                                    mods |-> chord(k, mods).mods,
                                                    required |-> mods]]
        /\ s.guest = Target(s)
    BY <2>2, PressedType
  <2>4. s.active[k].key = chord(k, mods).key /\ s.active[k].mods = chord(k, mods).mods
    BY <2>2, <2>3 DEF Router
  <2>5. router' = s /\ chord(k, mods).key \in guest'.keys
    BY <2>1 DEF Becomes, Emitted
  <2> HIDE DEF s
  <2>6. s.latched \subseteq UNION {s.active[j].mods : j \in Keys}
    BY <2>3, <2>4
  <2>7. s.guest = Wanted(s)
    BY <2>3, <2>6 DEF Target
  <2>8. ~gesture'.command
    BY <1>1, <2>1 DEF InputInv, TapInv, Tapped
  <2>9. /\ guest'.mods \subseteq s.guest \union viaView'.mods
        /\ s.guest \subseteq guest'.mods \union lifted'
    BY <1>1, <2>5, <2>8 DEF InputInv, Owned
  <2>10. QED
    BY <2>4, <2>5, <2>7, <2>9
<1>2. InputInv /\ [Next]_vars /\ InputInv' => [\A k \in Keys : Arrives(k)]_vars
  BY <1>1
<1>3. QED
  BY <1>2, InputInvariant, PTL DEF Spec, ChordArrives

-----------------------------------------------------------------------------
(* While another app is frontmost                                           *)

(* A task joins the queue, or the oldest leaves it. *)
LEMMA TasksAppend ==
    ASSUME NEW t \in {"resign", "become", "exit"},
           tasks \in Seq({"resign", "become", "exit"}), tasks' = Append(tasks, t)
    PROVE  /\ DOMAIN tasks' = DOMAIN tasks \union {Len(tasks) + 1}
           /\ tasks'[Len(tasks) + 1] = t
           /\ \A i \in DOMAIN tasks : i \in Nat /\ i < Len(tasks) + 1 /\ tasks'[i] = tasks[i]
  OBVIOUS

LEMMA TasksTail ==
    ASSUME tasks \in Seq({"resign", "become", "exit"}), tasks # <<>>, tasks' = Tail(tasks)
    PROVE  /\ 1 \in DOMAIN tasks /\ Head(tasks) = tasks[1]
           /\ \A i \in DOMAIN tasks' :
                 i \in Nat /\ i + 1 \in DOMAIN tasks /\ tasks'[i] = tasks[i + 1]
           /\ \A i \in DOMAIN tasks :
                 i \in Nat /\ (i # 1 => i - 1 \in DOMAIN tasks' /\ tasks'[i - 1] = tasks[i])
  OBVIOUS

(* The router that holds nothing has nothing to release when a button of the
   mouse is. *)
LEMMA EmptyPointer ==
    synchronized([NoRouter EXCEPT !.pointer = {}]) = NoRouter
<1>1. [NoRouter EXCEPT !.pointer = {}] = NoRouter
  BY DEF NoRouter
<1>2. NoRouter.guest = Target(NoRouter)
  BY NoRouterType
<1>3. QED
  BY <1>1, <1>2 DEF synchronized, NoRouter

(* What the user does reaches the guest only through a tap that is on, or
   while the app is frontmost. *)
LEMMA UserKeepsAway ==
    ASSUME InputInv, AwayInv,
           \/ \E k \in Keys : \E repeats \in BOOLEAN : KeyDown(k, repeats)
           \/ \E k \in Keys : KeyUp(k)
           \/ \E m \in Mods : FlagsChanged(m)
           \/ MouseDown \/ MouseUp
           \/ SwipeBegins \/ SwipeChanges \/ SwipeEnds \/ SwipeCancelled
    PROVE  AwayInv'
<1>1. UNCHANGED <<immersed, frontmost, tap, notice>>
  BY DEF KeyDown, KeyUp, FlagsChanged, MouseDown, MouseUp, SwipeBegins, SwipeChanges,
         SwipeEnds, SwipeCancelled, control
<1> SUFFICES ASSUME immersed, ~frontmost
             PROVE  AwayInv'
  BY <1>1 DEF AwayInv
<1>2. tap # "on" /\ router = NoRouter /\ guest = Nothing =>
         router' = NoRouter /\ guest' = Nothing
  <2> SUFFICES ASSUME tap # "on", router = NoRouter, guest = Nothing
               PROVE  router' = router /\ guest' = guest
    OBVIOUS
  <2>1. CASE MouseUp
    <3>1. Becomes(NoRouter, NoRouter, {}, {})
      BY <2>1, EmptyPointer DEF MouseUp, endPointerInteraction
    <3>2. QED
      BY <3>1 DEF Becomes, Emitted, NoRouter, Nothing
  <2>2. CASE SwipeBegins \/ SwipeChanges \/ SwipeEnds \/ SwipeCancelled
    BY <2>2 DEF SwipeBegins, SwipeChanges, SwipeEnds, SwipeCancelled, capture
  <2>3. QED
    BY <2>1, <2>2 DEF KeyDown, KeyUp, FlagsChanged, MouseDown, Tapped, Viewed, RouterUnchanged
<1>3. tasks' = tasks \/ tasks' = Append(tasks, "exit")
  BY DEF KeyDown, KeyUp, FlagsChanged, MouseDown, MouseUp, SwipeBegins, SwipeChanges,
         SwipeEnds, SwipeCancelled
<1>4. CASE tasks' = tasks
  BY <1>1, <1>2, <1>4 DEF AwayInv, Waits
<1>5. CASE tasks' = Append(tasks, "exit")
  <2>1. tasks \in Seq({"resign", "become", "exit"})
    BY DEF InputInv, TypeOK
  <2>2. \A i \in DOMAIN tasks : i \in DOMAIN tasks' /\ tasks'[i] = tasks[i]
    BY <1>5, <2>1, TasksAppend
  <2>3. \A i \in DOMAIN tasks' : tasks'[i] = "become" => i \in DOMAIN tasks
    BY <1>5, <2>1, TasksAppend
  <2>4. QED
    BY <1>1, <1>2, <2>2, <2>3 DEF AwayInv, Waits
<1>6. QED
  BY <1>3, <1>4, <1>5

(* didResignActive asks for the task; entering needs the app to be frontmost. *)
LEMMA ControlKeepsAway ==
    ASSUME InputInv, AwayInv,
           \/ TapTimesOut \/ TapDisabled \/ Enter \/ Exit
           \/ \E active \in BOOLEAN : Activates(active)
    PROVE  AwayInv'
<1>1. CASE TapTimesOut \/ TapDisabled
  BY <1>1 DEF TapTimesOut, TapDisabled, AwayInv, Waits, user, capture
<1>2. CASE Enter \/ Exit
  BY <1>2 DEF Enter, Exit, exit, AwayInv
<1>3. ASSUME NEW active \in BOOLEAN, Activates(active)
      PROVE  AwayInv'
  <2>1. CASE active \/ ~immersed
    BY <1>3, <2>1 DEF Activates, AwayInv, control
  <2>2. CASE ~active /\ immersed
    <3>1. tasks' = Append(tasks, "resign")
      BY <1>3, <2>2 DEF Activates
    <3>2. tasks \in Seq({"resign", "become", "exit"})
      BY DEF InputInv, TypeOK
    <3>3. /\ Len(tasks) + 1 \in DOMAIN tasks' /\ tasks'[Len(tasks) + 1] = "resign"
          /\ \A i \in DOMAIN tasks' : i < Len(tasks) + 1 \/ i = Len(tasks) + 1
      BY <3>1, <3>2, TasksAppend
    <3>4. QED
      BY <3>3 DEF AwayInv, Waits
  <2>3. QED
    BY <2>1, <2>2
<1>4. QED
  BY <1>1, <1>2, <1>3

(* The tasks of the observers run in the order they were made. *)
LEMMA TaskKeepsAway ==
    ASSUME InputInv, AwayInv, RunTask
    PROVE  AwayInv'
<1>1. tasks \in Seq({"resign", "become", "exit"}) /\ tasks # <<>> /\ tasks' = Tail(tasks)
  BY DEF InputInv, TypeOK, RunTask
<1>2. /\ 1 \in DOMAIN tasks /\ Head(tasks) = tasks[1]
      /\ \A i \in DOMAIN tasks' :
            i \in Nat /\ i + 1 \in DOMAIN tasks /\ tasks'[i] = tasks[i + 1]
      /\ \A i \in DOMAIN tasks :
            i \in Nat /\ (i # 1 => i - 1 \in DOMAIN tasks' /\ tasks'[i - 1] = tasks[i])
  BY <1>1, TasksTail
<1>3. Head(tasks) \in {"resign", "become", "exit"}
  BY <1>1, HeadTailProperties
<1> SUFFICES ASSUME immersed', ~frontmost'
             PROVE  AwayInv'
  BY DEF AwayInv
<1>4. immersed /\ ~frontmost /\ Head(tasks) \in {"resign", "become"}
  <2>1. ~frontmost
    BY DEF RunTask
  <2>2. resigned \/ became \/ (Head(tasks) = "exit" /\ exit)
    BY <1>3 DEF RunTask
  <2>3. immersed
    BY <2>2 DEF resigned, became, exit, control
  <2>4. Head(tasks) # "exit"
    <3>1. SUFFICES ASSUME Head(tasks) = "exit" PROVE FALSE
      OBVIOUS
    <3>2. exit
      BY <3>1 DEF RunTask
    <3>3. QED
      BY <2>3, <3>2 DEF exit
  <2>5. QED
    BY <1>3, <2>1, <2>3, <2>4
<1>5. ASSUME NEW i \in DOMAIN tasks', tasks'[i] = "become"
      PROVE  \E j \in DOMAIN tasks' : j > i /\ tasks'[j] = "resign"
  <2>1. PICK j \in DOMAIN tasks : j > i + 1 /\ tasks[j] = "resign"
    BY <1>2, <1>4, <1>5 DEF AwayInv
  <2>2. j - 1 \in DOMAIN tasks' /\ tasks'[j - 1] = "resign" /\ j - 1 > i
    BY <1>2, <1>5, <2>1
  <2>3. QED
    BY <2>2
<1>6. CASE Head(tasks) = "resign"
  <2>1. router' = NoRouter /\ guest' = Nothing
    BY <1>4, <1>6 DEF RunTask, resigned
  <2>2. QED
    BY <1>5, <2>1 DEF AwayInv
<1>7. CASE Head(tasks) = "become"
  <2>1. PICK j \in DOMAIN tasks : j > 1 /\ tasks[j] = "resign"
    BY <1>2, <1>4, <1>7 DEF AwayInv
  <2>2. j - 1 \in DOMAIN tasks' /\ tasks'[j - 1] = "resign"
    BY <1>2, <2>1
  <2>3. QED
    BY <1>5, <2>2 DEF AwayInv, Waits
<1>8. QED
  BY <1>4, <1>6, <1>7

(* Once the task of didResignActive has run, nothing is down in the guest while
   another app is frontmost, unless a late notice has turned the tap on. *)
THEOREM AwayMeansReleasedTheorem == Spec => []AwayMeansReleased
<1>1. Init => AwayInv
  BY DEF Init, AwayInv
<1>2. InputInv /\ AwayInv /\ [Next]_vars => AwayInv'
  <2> SUFFICES ASSUME InputInv, AwayInv, [Next]_vars PROVE AwayInv'
    OBVIOUS
  <2>1. CASE UNCHANGED vars
    BY <2>1 DEF vars, capture, control, AwayInv, Waits
  <2>2. QED
    BY <2>1, UserKeepsAway, ControlKeepsAway, TaskKeepsAway DEF Next
<1>3. AwayInv => AwayMeansReleased
  BY DEF AwayInv, Waits, AwayMeansReleased
<1>4. QED
  BY <1>1, <1>2, <1>3, InputInvariant, PTL DEF Spec

=============================================================================
