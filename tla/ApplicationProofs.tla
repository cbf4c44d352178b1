--------------------------- MODULE ApplicationProofs ---------------------------
(* Proofs about the window and its scenes, for any number of scenes, any size    *)
(* of the window and any run of the clock.                                       *)
EXTENDS Application, TLAPS

(* Before the window runs no time has passed; afterwards there is a scene.         *)
Start ==
  IF stage = "setup"
  THEN /\ clock = 0 /\ sceneTicks = [s \in Scene |-> -1]
       /\ shown = [s \in Scene |-> 0] /\ currentTime = [s \in Scene |-> 0]
  ELSE sceneList > 0

(* Between frames the GUI's scissors are off. *)
NoScissor == state.scissor = FALSE

Inv == TypeOK /\ NoScissor /\ Start /\ ClocksFrozen /\ FrameReady /\ DragsHeld

--------------------------------------------------------------------------------
(* The scene after this one is another of the list, if there is another. *)
LEMMA Following ==
  ASSUME sceneList \in Nat, sceneList > 1, currentScene \in 1 .. sceneList
  PROVE  following \in 1 .. sceneList /\ following # currentScene
  <1>1. CASE currentScene = sceneList
    <2>1. currentScene % sceneList = 0
      BY <1>1, Z3
    <2>2. QED
      BY <2>1 DEF following
  <1>2. CASE currentScene < sceneList
    <2>1. currentScene % sceneList = currentScene
      BY <1>2, Z3
    <2>2. QED
      BY <2>1, <1>2 DEF following
  <1>3. QED
    BY <1>1, <1>2

(* The GUI leaves OpenGL as it found it. *)
LEMMA DrawnBack ==
  ASSUME state \in [depth : BOOLEAN, blend : BOOLEAN, scissor : BOOLEAN, viewport : 0 .. MaxSize]
  PROVE  renderDrawLists(state) = state
  BY DEF renderDrawLists, PutBack, ForGui

LEMMA InitInv == Init => Inv
  <1> SUFFICES ASSUME Init PROVE Inv
    OBVIOUS
  <1>1. TypeOK
    <2> USE ApplicationAssumption DEF Init, Scene, Movement
    <2>1. stage \in {"setup", "running", "returned"} /\ sceneList \in 0 .. MaxScenes
      OBVIOUS
    <2>2. currentScene \in Scene /\ (sceneList > 0 => currentScene <= sceneList)
      OBVIOUS
    <2>3. sceneTicks \in [Scene -> (-1) .. MaxTime] /\ clock \in 0 .. MaxTime
      OBVIOUS
    <2>4. currentTime \in [Scene -> 0 .. MaxTime] /\ shown \in [Scene -> 0 .. MaxTime]
      OBVIOUS
    <2>5. size \in [Scene -> 0 .. MaxSize] /\ framebuffer \in 0 .. MaxSize
      OBVIOUS
    <2>6. movement \in [Scene -> Movement] /\ lastPos \in [Scene -> Place] /\ pointer \in Place
      OBVIOUS
    <2>7. held \subseteq Button /\ gui \in [down : SUBSET Button, size : 0 .. MaxSize]
      OBVIOUS
    <2>8. state \in [depth : BOOLEAN, blend : BOOLEAN, scissor : BOOLEAN, viewport : 0 .. MaxSize]
      OBVIOUS
    <2>9. shouldClose \in BOOLEAN /\ untold \subseteq Scene /\ missed \in [release : SUBSET Scene, moves : SUBSET Scene]
      OBVIOUS
    <2>10. QED
      BY <2>1, <2>2, <2>3, <2>4, <2>5, <2>6, <2>7, <2>8, <2>9 DEF TypeOK
  <1>2. Start /\ ClocksFrozen /\ FrameReady /\ NoScissor /\ DragsHeld
    BY DEF Init, NoScissor, Start, ClocksFrozen, FrameReady, DragsHeld
  <1>3. QED
    BY <1>1, <1>2 DEF Inv

--------------------------------------------------------------------------------
(* The parts of TypeOK. *)
ListOK ==
  /\ stage \in {"setup", "running", "returned"} /\ sceneList \in 0 .. MaxScenes
  /\ currentScene \in Scene /\ (sceneList > 0 => currentScene <= sceneList)
  /\ shouldClose \in BOOLEAN
ClocksOK ==
  /\ sceneTicks \in [Scene -> (-1) .. MaxTime] /\ clock \in 0 .. MaxTime
  /\ currentTime \in [Scene -> 0 .. MaxTime] /\ shown \in [Scene -> 0 .. MaxTime]
SizesOK ==
  /\ size \in [Scene -> 0 .. MaxSize] /\ framebuffer \in 0 .. MaxSize
  /\ gui \in [down : SUBSET Button, size : 0 .. MaxSize]
CamerasOK ==
  /\ movement \in [Scene -> Movement] /\ lastPos \in [Scene -> Place] /\ pointer \in Place
  /\ held \subseteq Button /\ untold \subseteq Scene
  /\ missed \in [release : SUBSET Scene, moves : SUBSET Scene]
StateOK == state \in [depth : BOOLEAN, blend : BOOLEAN, scissor : BOOLEAN, viewport : 0 .. MaxSize]
LEMMA Parts == TypeOK <=> ListOK /\ ClocksOK /\ SizesOK /\ CamerasOK /\ StateOK
  BY DEF TypeOK, ListOK, ClocksOK, SizesOK, CamerasOK, StateOK

(* What a step can do to each part. *)
LEMMA ListNext == ListOK /\ Start /\ [Next]_vars => ListOK'
  <1> SUFFICES ASSUME ListOK, Start, [Next]_vars PROVE ListOK'
    OBVIOUS
  <1> USE ApplicationAssumption DEF ListOK, Scene
  <1>1. CASE addScene
    BY <1>1 DEF addScene
  <1>2. CASE nextScene
    <2>1. CASE sceneList = 1
      BY <1>2, <2>1 DEF nextScene, Running
    <2>2. CASE sceneList # 1
      <3>1. following \in 1 .. sceneList
        BY <1>2, <2>2, Following DEF Start, nextScene, Running
      <3>2. QED
        BY <1>2, <2>2, <3>1 DEF nextScene, Swap
    <2>3. QED
      BY <2>1, <2>2
  <1>3. CASE runApplication \/ Close \/ Return
    BY <1>3 DEF runApplication, Close, Return
  <1>4. CASE Frame \/ Tick \/ Returned \/ UNCHANGED vars
    BY <1>4 DEF Frame, Tick, Returned, vars
  <1>5. CASE \E b \in Button : Release(b) \/ \E onlyAlt \in BOOLEAN : Press(b, onlyAlt)
    BY <1>5 DEF Release, Press
  <1>6. CASE (\E p \in Place : Move(p)) \/ (\E n \in 0 .. MaxSize : frameBufferSize(n))
    BY <1>6 DEF Move, frameBufferSize
  <1>7. QED
    BY <1>1, <1>2, <1>3, <1>4, <1>5, <1>6 DEF Next, Event

LEMMA ClocksNext == ListOK /\ Start /\ ClocksOK /\ ClocksFrozen /\ [Next]_vars => ClocksOK'
  <1> SUFFICES ASSUME ListOK, Start, ClocksOK, ClocksFrozen, [Next]_vars PROVE ClocksOK'
    OBVIOUS
  <1> USE ApplicationAssumption DEF ClocksOK, clocks
  <1>1. CASE runApplication
    BY <1>1 DEF runApplication
  <1>2. CASE Frame
    BY <1>2 DEF Frame
  <1>3. CASE Tick
    BY <1>3 DEF Tick, Running, ClocksFrozen, ListOK
  <1>4. CASE nextScene
    <2>1. CASE sceneList = 1
      BY <1>4, <2>1 DEF nextScene
    <2>2. CASE sceneList # 1
      <3>1. following \in Scene
        BY <1>4, <2>2, Following DEF Start, nextScene, Running, ListOK, Scene
      <3>2. sceneTicks' \in [Scene -> (-1) .. MaxTime]
        BY <1>4, <2>2 DEF nextScene, Swap, Stored
      <3>3. clock' \in 0 .. MaxTime
        BY <1>4, <2>2, <3>1, <3>2 DEF nextScene, Swap, Resumed
      <3>4. QED
        BY <1>4, <3>2, <3>3 DEF nextScene
    <2>3. QED
      BY <2>1, <2>2
  <1>5. CASE addScene \/ Close \/ Return \/ Returned \/ UNCHANGED vars
    BY <1>5 DEF addScene, Close, Return, Returned, vars
  <1>6. CASE \E b \in Button : Release(b) \/ \E onlyAlt \in BOOLEAN : Press(b, onlyAlt)
    BY <1>6 DEF Release, Press
  <1>7. CASE (\E p \in Place : Move(p)) \/ (\E n \in 0 .. MaxSize : frameBufferSize(n))
    BY <1>7 DEF Move, frameBufferSize
  <1>8. QED
    BY <1>1, <1>2, <1>3, <1>4, <1>5, <1>6, <1>7 DEF Next, Event

(* A swap goes to another scene of the list. *)
LEMMA SwapTarget ==
  ASSUME ListOK, Start, Running, sceneList # 1
  PROVE  following \in 1 .. sceneList /\ following \in Scene /\ following # currentScene
  BY ApplicationAssumption, Following DEF Start, Running, ListOK, Scene

LEMMA SizesNext == ListOK /\ Start /\ SizesOK /\ CamerasOK /\ [Next]_vars => SizesOK'
  <1> SUFFICES ASSUME ListOK, Start, SizesOK, CamerasOK, [Next]_vars PROVE SizesOK'
    OBVIOUS
  <1> USE ApplicationAssumption DEF SizesOK, screenResizeEvent, screenResize
  <1>1. CASE runApplication
    BY <1>1 DEF runApplication
  <1>2. CASE nextScene
    BY <1>2 DEF nextScene, Swap
  <1>3. CASE addScene \/ Frame \/ Tick \/ Close \/ Return \/ Returned \/ UNCHANGED vars
    BY <1>3 DEF addScene, Frame, Tick, Close, Return, Returned, vars
  <1>4. CASE \E b \in Button : Release(b) \/ \E onlyAlt \in BOOLEAN : Press(b, onlyAlt)
    <2>1. PICK b \in Button : Release(b) \/ \E onlyAlt \in BOOLEAN : Press(b, onlyAlt)
      BY <1>4
    <2>2. \E bs \in SUBSET Button : gui' = [gui EXCEPT !.down = bs]
      BY <2>1 DEF Release, Press, mousePressed
    <2>3. UNCHANGED <<size, framebuffer>>
      BY <2>1 DEF Release, Press
    <2>4. QED
      BY <2>2, <2>3
  <1>5. CASE \E p \in Place : Move(p)
    BY <1>5 DEF Move
  <1>6. ASSUME NEW n \in 0 .. MaxSize, frameBufferSize(n) PROVE SizesOK'
    <2>1. AtLeastOne(n) \in 0 .. MaxSize
      BY DEF AtLeastOne
    <2>2. QED
      BY <1>6, <2>1 DEF frameBufferSize
  <1>7. QED
    BY <1>1, <1>2, <1>3, <1>4, <1>5, <1>6 DEF Next, Event

LEMMA CamerasNext == ListOK /\ CamerasOK /\ [Next]_vars => CamerasOK'
  <1> SUFFICES ASSUME ListOK, CamerasOK, [Next]_vars PROVE CamerasOK'
    OBVIOUS
  <1> USE DEF CamerasOK, cameras, mouse
  <1>1. CASE nextScene
    BY <1>1 DEF nextScene, Swap, ListOK
  <1>2. CASE runApplication \/ addScene \/ Frame \/ Tick \/ Close \/ Return \/ Returned \/ UNCHANGED vars
    BY <1>2 DEF runApplication, addScene, Frame, Tick, Close, Return, Returned, vars
  <1>3. ASSUME NEW b \in Button, NEW onlyAlt \in BOOLEAN, Press(b, onlyAlt) PROVE CamerasOK'
    <2>1. Dragging[b] \in Movement
      BY ApplicationAssumption DEF Dragging, Movement
    <2>2. QED
      BY <1>3, <2>1 DEF Press
  <1>0. Aside \subseteq Scene /\ \A b \in Button : DraggedAside(b) \subseteq Scene
    BY DEF Aside, DraggedAside
  <1>4. ASSUME NEW b \in Button, Release(b) PROVE CamerasOK'
    BY <1>0, <1>4 DEF Release, Movement
  <1>5. CASE \E p \in Place : Move(p)
    BY <1>0, <1>5 DEF Move
  <1>6. CASE \E n \in 0 .. MaxSize : frameBufferSize(n)
    BY <1>6 DEF frameBufferSize
  <1>7. QED
    BY <1>1, <1>2, <1>3, <1>4, <1>5, <1>6 DEF Next, Event

(* What the hooks and the viewport leave of OpenGL's state. *)
LEMMA Hooks ==
  ASSUME StateOK, NEW n
  PROVE  /\ onSceneEnter(viewport(onSceneExit(state), n)) = onSceneEnter(viewport(state, n))
         /\ onSceneEnter(viewport(state, n)) =
              [depth |-> TRUE, blend |-> TRUE, scissor |-> state.scissor, viewport |-> n]
         /\ onSceneEnter(onSceneExit(state)) =
              [depth |-> TRUE, blend |-> TRUE, scissor |-> state.scissor, viewport |-> state.viewport]
         /\ viewport(state, n) =
              [depth |-> state.depth, blend |-> state.blend, scissor |-> state.scissor, viewport |-> n]
  BY DEF onSceneEnter, onSceneExit, viewport, StateOK

LEMMA StateNext == SizesOK /\ StateOK /\ [Next]_vars => StateOK'
  <1> SUFFICES ASSUME SizesOK, StateOK, [Next]_vars PROVE StateOK'
    OBVIOUS
  <1> USE ApplicationAssumption DEF StateOK, SizesOK, onSceneEnter, onSceneExit, viewport
  <1>1. CASE runApplication
    BY <1>1 DEF runApplication
  <1>2. CASE nextScene
    <2>1. PICK n \in {state.viewport, framebuffer} :
            state' = [depth |-> TRUE, blend |-> TRUE, scissor |-> state.scissor, viewport |-> n]
      <3>1. CASE sceneList = 1
        BY <1>2, <3>1 DEF nextScene
      <3>2. CASE sceneList # 1
        <4>1. state' = onSceneEnter(viewport(state, framebuffer))
          BY <1>2, <3>2, Hooks DEF nextScene, Swap
        <4>2. QED
          BY <4>1, Hooks
      <3>3. QED
        BY <3>1, <3>2
    <2>2. QED
      BY <2>1
  <1>3. CASE Frame
    BY <1>3, DrawnBack DEF Frame
  <1>4. CASE addScene \/ Tick \/ Close \/ Returned \/ UNCHANGED vars
    BY <1>4 DEF addScene, Tick, Close, Returned, vars
  <1>5. CASE Return
    BY <1>5 DEF Return
  <1>6. CASE \E b \in Button : Release(b) \/ \E onlyAlt \in BOOLEAN : Press(b, onlyAlt)
    BY <1>6 DEF Release, Press
  <1>7. CASE \E p \in Place : Move(p)
    BY <1>7 DEF Move
  <1>8. CASE \E n \in 0 .. MaxSize : frameBufferSize(n)
    BY <1>8 DEF frameBufferSize, AtLeastOne
  <1>9. QED
    BY <1>1, <1>2, <1>3, <1>4, <1>5, <1>6, <1>7, <1>8 DEF Next, Event

LEMMA TypeNext == Inv /\ [Next]_vars => TypeOK'
  <1> SUFFICES ASSUME Inv, [Next]_vars PROVE TypeOK'
    OBVIOUS
  <1>1. /\ ListOK /\ ClocksOK /\ SizesOK /\ CamerasOK /\ StateOK
        /\ Start /\ ClocksFrozen
    BY Parts DEF Inv
  <1>2. ListOK' /\ ClocksOK' /\ SizesOK' /\ CamerasOK' /\ StateOK'
    BY <1>1, ListNext, ClocksNext, SizesNext, CamerasNext, StateNext
  <1>3. QED
    BY <1>2 DEF TypeOK, ListOK, ClocksOK, SizesOK, CamerasOK, StateOK

--------------------------------------------------------------------------------
LEMMA StartNext == Inv /\ [Next]_vars => Start'
  <1> SUFFICES ASSUME ListOK, CamerasOK, Start, [Next]_vars PROVE Start'
    BY Parts DEF Inv
  <1> USE DEF Start, ListOK, clocks, cameras, mouse
  <1>1. CASE addScene
    BY <1>1 DEF addScene
  <1>2. CASE runApplication
    BY <1>2 DEF runApplication
  <1>3. CASE nextScene
    BY <1>3 DEF nextScene, Running
  <1>4. CASE Frame \/ Tick \/ Close \/ Return \/ Returned \/ UNCHANGED vars
    BY <1>4 DEF Frame, Tick, Close, Return, Returned, vars, Running
  <1>5. CASE \E b \in Button : Release(b) \/ \E onlyAlt \in BOOLEAN : Press(b, onlyAlt)
    BY <1>5 DEF Release, Press, Running
  <1>6. CASE (\E p \in Place : Move(p)) \/ (\E n \in 0 .. MaxSize : frameBufferSize(n))
    BY <1>6 DEF Move, frameBufferSize, Running
  <1>7. QED
    BY <1>1, <1>2, <1>3, <1>4, <1>5, <1>6 DEF Next, Event

(* Only the scene on the screen grows older, by the clock that was set to its age. *)
LEMMA FrozenNext == Inv /\ [Next]_vars => ClocksFrozen'
  <1> SUFFICES ASSUME ListOK, ClocksOK, Start, ClocksFrozen, [Next]_vars PROVE ClocksFrozen'
    BY Parts DEF Inv
  <1> USE ApplicationAssumption DEF ClocksFrozen, clocks
  <1>1. CASE runApplication
    BY <1>1 DEF runApplication, Start, ListOK, Scene
  <1>2. CASE Frame
    BY <1>2 DEF Frame, Running, ClocksOK, ListOK
  <1>3. CASE Tick
    BY <1>3 DEF Tick, Running, ClocksOK, ListOK, Scene
  <1>4. CASE nextScene
    <2>1. CASE sceneList = 1
      BY <1>4, <2>1 DEF nextScene
    <2>2. CASE sceneList # 1
      <3>1. following \in 1 .. sceneList /\ following \in Scene /\ following # currentScene
        BY <1>4, <2>2, SwapTarget DEF nextScene
      <3>2. /\ stage = "running" /\ UNCHANGED <<stage, sceneList, shown, currentTime>>
            /\ sceneTicks' = [sceneTicks EXCEPT ![currentScene] = clock]
            /\ currentScene' = following /\ clock' = Resumed(sceneTicks'[following])
        BY <1>4, <2>2 DEF nextScene, Swap, Stored, Running
      <3>3. sceneTicks'[following] = sceneTicks[following]
        BY <3>1, <3>2 DEF ClocksOK
      <3>4. clock' = shown[following]
        BY <3>1, <3>2, <3>3 DEF Resumed
      <3>5. ASSUME NEW s \in (1 .. sceneList) \ {following}
            PROVE  IF sceneTicks'[s] = -1 THEN shown[s] = 0 ELSE sceneTicks'[s] = shown[s]
        <4>1. CASE s = currentScene
          BY <3>2, <4>1 DEF ClocksOK, ListOK
        <4>2. CASE s # currentScene
          BY <3>2, <4>2 DEF ClocksOK, ListOK, Scene
        <4>3. QED
          BY <4>1, <4>2
      <3>6. QED
        BY <3>2, <3>4, <3>5
    <2>3. QED
      BY <2>1, <2>2
  <1>5. CASE addScene \/ Close \/ Return \/ Returned \/ UNCHANGED vars
    BY <1>5 DEF addScene, Close, Return, Returned, vars
  <1>6. CASE \E b \in Button : Release(b) \/ \E onlyAlt \in BOOLEAN : Press(b, onlyAlt)
    BY <1>6 DEF Release, Press
  <1>7. CASE (\E p \in Place : Move(p)) \/ (\E n \in 0 .. MaxSize : frameBufferSize(n))
    BY <1>7 DEF Move, frameBufferSize
  <1>8. QED
    BY <1>1, <1>2, <1>3, <1>4, <1>5, <1>6, <1>7 DEF Next, Event

(* Whatever gives a scene the screen, or the window a size, tells the scene, the  *)
(* viewport and the GUI; and every frame leaves OpenGL's state as it was.          *)
LEMMA FrameNext == Inv /\ [Next]_vars => FrameReady' /\ NoScissor'
  <1> SUFFICES ASSUME ListOK, SizesOK, StateOK, Start, FrameReady, NoScissor, [Next]_vars
               PROVE  FrameReady' /\ NoScissor'
    BY Parts DEF Inv
  <1> DEFINE Set(g, n) == g = [depth |-> TRUE, blend |-> TRUE, scissor |-> FALSE, viewport |-> n]
             Told(s, n) == /\ size'[s] = n /\ gui'.size = framebuffer'
                           /\ n \in {framebuffer', AtLeastOne(framebuffer')}
  <1>0. ASSUME NEW s \in Scene, currentScene' = s, NEW n, Told(s, n), Set(state', n)
        PROVE  FrameReady' /\ NoScissor'
    BY <1>0 DEF FrameReady, NoScissor
  <1> USE DEF NoScissor
  <1>1. CASE runApplication
    <2>1. currentScene \in Scene /\ UNCHANGED currentScene
      BY <1>1 DEF runApplication, ListOK
    <2>2. Told(currentScene, framebuffer)
      BY <1>1, <2>1 DEF runApplication, screenResizeEvent, screenResize, SizesOK
    <2>3. Set(state', framebuffer)
      BY <1>1, Hooks DEF runApplication
    <2>4. QED
      BY <1>0, <2>1, <2>2, <2>3
  <1>2. CASE Frame
    <2>1. state' = state
      BY <1>2, DrawnBack DEF Frame, StateOK
    <2>2. QED
      BY <1>2, <2>1 DEF Frame, FrameReady
  <1>3. CASE nextScene
    <2>1. CASE sceneList = 1
      <3>1. Set(state', size[currentScene])
        BY <1>3, <2>1, Hooks DEF nextScene, Running, FrameReady
      <3>2. UNCHANGED <<currentScene, framebuffer, size, gui>>
        BY <1>3, <2>1 DEF nextScene
      <3>3. QED
        BY <1>3, <3>1, <3>2 DEF FrameReady, nextScene, Running
    <2>2. CASE sceneList # 1
      <3>1. following \in Scene
        BY <1>3, <2>2, SwapTarget DEF nextScene
      <3>2. Told(following, framebuffer) /\ currentScene' = following
        BY <1>3, <2>2, <3>1 DEF nextScene, Swap, screenResizeEvent, screenResize, SizesOK
      <3>3. Set(state', framebuffer)
        BY <1>3, <2>2, Hooks DEF nextScene, Swap
      <3>4. QED
        BY <1>0, <3>1, <3>2, <3>3
    <2>3. QED
      BY <2>1, <2>2
  <1>4. CASE addScene \/ Tick \/ Close \/ Returned \/ UNCHANGED vars
    BY <1>4 DEF addScene, Tick, Close, Returned, vars, FrameReady
  <1>5. CASE Return
    BY <1>5 DEF Return, FrameReady, onSceneExit, StateOK
  <1>6. CASE \E b \in Button : Release(b) \/ \E onlyAlt \in BOOLEAN : Press(b, onlyAlt)
    BY <1>6 DEF Release, Press, mousePressed, FrameReady, SizesOK
  <1>7. CASE \E p \in Place : Move(p)
    BY <1>7 DEF Move, FrameReady
  <1>8. ASSUME NEW n \in 0 .. MaxSize, frameBufferSize(n) PROVE FrameReady' /\ NoScissor'
    <2>1. currentScene \in Scene /\ UNCHANGED currentScene
      BY <1>8 DEF ListOK, frameBufferSize
    <2>2. n # 0 => AtLeastOne(n) = n
      BY DEF AtLeastOne
    <2>3. Told(currentScene, AtLeastOne(n))
      BY <1>8, <2>1, <2>2 DEF frameBufferSize, screenResizeEvent, screenResize, SizesOK
    <2>4. Set(state', AtLeastOne(n))
      BY <1>8, Hooks DEF frameBufferSize, FrameReady, Running
    <2>5. QED
      BY <1>0, <2>1, <2>3, <2>4
  <1>9. QED
    BY <1>1, <1>2, <1>3, <1>4, <1>5, <1>6, <1>7, <1>8 DEF Next, Event

(* A camera is left in its drag by the events another scene is told of, which are *)
(* the ones it is then known to have missed.                                      *)
LEMMA DragsNext == Inv /\ [Next]_vars => DragsHeld'
  <1> SUFFICES ASSUME ListOK, SizesOK, CamerasOK, DragsHeld, [Next]_vars
               PROVE  DragsHeld'
    BY Parts DEF Inv
  <1> USE DEF DragsHeld, CamerasOK, SizesOK, cameras, mouse
  <1>1. CASE addScene
    BY <1>1 DEF addScene
  <1>2. CASE runApplication
    BY <1>2 DEF runApplication, screenResizeEvent, screenResize
  <1>3. CASE nextScene
    BY <1>3 DEF nextScene, Swap, screenResizeEvent, screenResize
  <1>4. CASE Frame \/ Tick \/ Close \/ Return \/ Returned \/ UNCHANGED vars
    BY <1>4 DEF Frame, Tick, Close, Return, Returned, vars
  <1>5. ASSUME NEW b \in Button, NEW onlyAlt \in BOOLEAN, Press(b, onlyAlt) PROVE DragsHeld'
    <2>1. gui'.down = held' /\ held' = held \cup {b} /\ pointer' = pointer
      BY <1>5 DEF Press, mousePressed
    <2>2. CASE onlyAlt
      <3>1. /\ movement' = [movement EXCEPT ![currentScene] = Dragging[b]]
            /\ lastPos' = [lastPos EXCEPT ![currentScene] = pointer]
            /\ untold' = untold \ {currentScene}
            /\ missed'.release = missed.release \ {currentScene}
            /\ missed'.moves = missed.moves \ {currentScene}
        BY <1>5, <2>2 DEF Press
      <3>2. QED
        BY <2>1, <3>1 DEF ListOK
    <2>3. CASE ~onlyAlt
      BY <1>5, <2>1, <2>3 DEF Press
    <2>4. QED
      BY <2>2, <2>3
  <1>6. ASSUME NEW b \in Button, Release(b) PROVE DragsHeld'
    <2>1. /\ gui'.down = held' /\ held' = held \ {b} /\ UNCHANGED <<pointer, lastPos>>
          /\ movement' = [movement EXCEPT ![currentScene] = "None"]
          /\ untold' = untold \ {currentScene}
          /\ missed'.release = (missed.release \ {currentScene}) \cup DraggedAside(b)
          /\ missed'.moves = missed.moves
      BY <1>6 DEF Release, mousePressed
    <2>2. ASSUME NEW s \in Scene \ (untold' \cup missed'.release), movement'[s] # "None"
          PROVE  \E c \in held' : movement'[s] = Dragging[c]
      <3>1. s # currentScene /\ movement'[s] = movement[s] /\ s \notin untold
        BY <2>1, <2>2 DEF ListOK
      <3>2. movement[s] # Dragging[b] /\ s \notin missed.release
        BY <2>1, <2>2, <3>1 DEF DraggedAside, Aside
      <3>3. QED
        BY <2>1, <2>2, <3>1, <3>2
    <2>3. ASSUME NEW s \in Scene \ (untold' \cup missed'.moves), movement'[s] # "None"
          PROVE  lastPos'[s] = pointer'
      BY <2>1, <2>3 DEF ListOK
    <2>4. QED
      BY <2>1, <2>2, <2>3
  <1>7. ASSUME NEW p \in Place, Move(p) PROVE DragsHeld'
    <2>1. /\ UNCHANGED <<held, gui, movement, untold>> /\ pointer' = p
          /\ lastPos' = [lastPos EXCEPT ![currentScene] = p]
          /\ missed'.release = missed.release
          /\ missed'.moves = (missed.moves \ {currentScene}) \cup Aside
      BY <1>7 DEF Move
    <2>2. ASSUME NEW s \in Scene \ (untold \cup missed'.moves), movement[s] # "None"
          PROVE  lastPos'[s] = pointer'
      BY <2>1, <2>2 DEF Aside
    <2>3. QED
      BY <2>1, <2>2
  <1>8. CASE \E n \in 0 .. MaxSize : frameBufferSize(n)
    BY <1>8 DEF frameBufferSize, screenResizeEvent, screenResize
  <1>9. QED
    BY <1>1, <1>2, <1>3, <1>4, <1>5, <1>6, <1>7, <1>8 DEF Next, Event

--------------------------------------------------------------------------------
(* The inductive invariant: TypeOK and the three properties, with what holds      *)
(* before the window runs and between two frames.                                 *)
THEOREM Invariant == Spec => []Inv
  <1>1. Init => Inv
    BY InitInv
  <1>2. Inv /\ [Next]_vars => Inv'
    BY TypeNext, StartNext, FrozenNext, FrameNext, DragsNext DEF Inv
  <1>3. QED
    BY <1>1, <1>2, PTL DEF Spec

(* Every variable of the window and its scenes keeps its type. *)
THEOREM TypeCorrect == Spec => []TypeOK
  BY Invariant, PTL DEF Inv

(* Time is frozen for a scene while it is off the screen (Application.hpp:143-147). *)
THEOREM TimeStandsStill == Spec => []ClocksFrozen
  BY Invariant, PTL DEF Inv

(* Every frame begins with the window's size and the scene's OpenGL state         *)
(* (Application.cpp:31-43, GUI.cpp:130-168).                                      *)
THEOREM FramesAreReady == Spec => []FrameReady
  BY Invariant, PTL DEF Inv

(* A camera is in a drag only while the button that began it is down, unless       *)
(* another scene was told of its release (ModellingScene.cpp:23-61).              *)
THEOREM DragsEnd == Spec => []DragsHeld
  BY Invariant, PTL DEF Inv
================================================================================
