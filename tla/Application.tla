------------------------------ MODULE Application ------------------------------
(* The window, its scenes and what they share (atlas/utils/Application.cpp,     *)
(* atlas/tools/ModellingScene.cpp and MayaCamera.cpp, atlas/utils/GUI.cpp). One  *)
(* thread draws a frame and hands on the events polled after it; every scene is  *)
(* a ModellingScene with a camera of its own, and all share the window's clock,  *)
(* OpenGL's state and the GUI. Scenes are numbered from 1 here.                 *)
(*                                                                              *)
(* A size stands for both sides of the framebuffer, 0 for a window iconified or *)
(* pulled together; a place for where the pointer is. The matrices of a camera  *)
(* are left out: what moves it is kept.                                         *)
EXTENDS Integers, FiniteSets

CONSTANTS MaxScenes,  \* bound: scenes added
          MaxSize,    \* bound: the largest framebuffer
          MaxTime,    \* bound: ticks of the clock while a scene is shown
          Button,     \* the mouse's buttons
          Place       \* where the pointer can be

ASSUME ApplicationAssumption ==
  /\ MaxScenes \in Nat \ {0} /\ MaxSize \in Nat \ {0} /\ MaxTime \in Nat
  /\ Button \subseteq {"left", "middle", "right"} /\ Cardinality(Place) > 1

VARIABLES stage,        \* "setup", "running", "returned"
          sceneList,    \* how many scenes there are
          currentScene,
          sceneTicks,   \* for each scene, when it left the screen, or -1
          clock,        \* GLFW's timer
          currentTime,  \* mTime.currentTime of each scene
          size,         \* mWidth and mHeight of each scene
          movement,     \* what each camera does when the pointer moves
          lastPos,      \* where each camera saw the pointer last
          framebuffer,  \* the size the window has
          pointer, held,  \* the pointer, and the mouse's buttons that are down
          gui,          \* ImGui's io: buttons down, size to draw
          state,        \* OpenGL's: what is enabled, and the viewport
          shouldClose,
          shown,        \* history: how long each scene has been on the screen
          untold,       \* history: scenes whose camera knows of no button yet
          missed        \* history: scenes whose camera is in a drag that others
                        \* were told the end of, or moves of the pointer in

clocks == <<sceneTicks, clock, shown>>
cameras == <<movement, lastPos, untold, missed>>
mouse == <<pointer, held>>
vars == <<stage, sceneList, currentScene, sceneTicks, clock, currentTime, size,
          movement, lastPos, framebuffer, pointer, held, gui, state, shouldClose, shown,
          untold, missed>>

Scene == 1 .. MaxScenes
Movement == {"None", "Tumble", "Track", "Dolly"}
Dragging == [b \in Button |-> CASE b = "left" -> "Tumble" [] b = "middle" -> "Track"
                                [] b = "right" -> "Dolly"]
Running == stage = "running" /\ ~shouldClose

--------------------------------------------------------------------------------
(* The window is made, and holds no scene. A camera's movement and last point   *)
(* are not initialized.                                                         *)
Init ==
  /\ stage = "setup" /\ sceneList = 0 /\ currentScene = 1 /\ shouldClose = FALSE
  /\ sceneTicks = [s \in Scene |-> -1] /\ clock = 0
  /\ currentTime = [s \in Scene |-> 0] /\ size = [s \in Scene |-> 0]
  /\ \E m \in Movement, p \in Place :
       movement = [s \in Scene |-> m] /\ lastPos = [s \in Scene |-> p]
  /\ framebuffer \in 1 .. MaxSize /\ pointer \in Place /\ held = {}
  /\ gui = [down |-> {}, size |-> 0]
  /\ state = [depth |-> FALSE, blend |-> FALSE, scissor |-> FALSE, viewport |-> framebuffer]
  /\ shown = [s \in Scene |-> 0]
  /\ untold = Scene /\ missed = [release |-> {}, moves |-> {}]

addScene ==
  /\ stage = "setup" /\ sceneList < MaxScenes
  /\ sceneList' = sceneList + 1 /\ currentScene' = sceneList + 1
  /\ UNCHANGED <<stage, clocks, currentTime, size, cameras, framebuffer, mouse, gui, state, shouldClose>>

(* Gui::screenResize scales the window's size, which is 0 when the framebuffer's *)
(* is; Gui::mousePressed keeps the buttons that are down.                       *)
screenResize(n) == gui' = [gui EXCEPT !.size = IF framebuffer' = 0 THEN 0 ELSE n]
mousePressed(bs) == gui' = [gui EXCEPT !.down = bs]

screenResizeEvent(s, n) ==
  /\ size' = [size EXCEPT ![s] = n]
  /\ screenResize(n)

onSceneEnter(g) == [depth |-> TRUE, blend |-> TRUE, scissor |-> g.scissor, viewport |-> g.viewport]
onSceneExit(g) == [depth |-> FALSE, blend |-> FALSE, scissor |-> g.scissor, viewport |-> g.viewport]
viewport(g, n) == [g EXCEPT !.viewport = n]

(* runApplication returns at once without a scene; otherwise it begins. *)
runApplication ==
  /\ stage = "setup" /\ sceneList > 0 /\ stage' = "running"
  /\ framebuffer' = framebuffer /\ screenResizeEvent(currentScene, framebuffer)
  /\ state' = onSceneEnter(viewport(state, framebuffer))
  /\ clock' = 0
  /\ UNCHANGED <<sceneList, currentScene, sceneTicks, shown, currentTime, cameras, mouse, shouldClose>>

(* renderDrawLists: nothing is drawn on no pixels; otherwise the state is set up *)
(* for the GUI and put back as it was found.                                    *)
ForGui(g) == [depth |-> FALSE, blend |-> TRUE, scissor |-> TRUE, viewport |-> gui.size]
(* A fault: the depth test is forgotten. *)
PutBackHalf(g, old) == [g EXCEPT !.blend = old.blend, !.scissor = old.scissor,
                                 !.viewport = old.viewport]
PutBack(g, old) == [g EXCEPT !.depth = old.depth, !.blend = old.blend,
                             !.scissor = old.scissor, !.viewport = old.viewport]
renderDrawLists(g) == IF gui.size = 0 THEN g ELSE PutBack(ForGui(g), g)

(* updateScene and renderScene of the scene on the screen. *)
Frame ==
  /\ Running
  /\ currentTime' = [currentTime EXCEPT ![currentScene] = clock]
  /\ state' = renderDrawLists(state)
  /\ UNCHANGED <<stage, sceneList, currentScene, clocks, size, cameras, framebuffer, mouse, gui, shouldClose>>
Tick ==
  /\ Running /\ shown[currentScene] < MaxTime
  /\ clock' = clock + 1 /\ shown' = [shown EXCEPT ![currentScene] = @ + 1]
  /\ UNCHANGED <<stage, sceneList, currentScene, sceneTicks, currentTime, size, cameras,
                 framebuffer, mouse, gui, state, shouldClose>>

--------------------------------------------------------------------------------
(* The events of glfwPollEvents, each for the scene on the screen. *)

(* mousePressEvent: a drag takes exactly the Alt key, and any release ends it. *)
Press(b, onlyAlt) ==
  /\ Running /\ b \notin held /\ held' = held \cup {b}
  /\ mousePressed(gui.down \cup {b})
  /\ IF onlyAlt
     THEN /\ movement' = [movement EXCEPT ![currentScene] = Dragging[b]]
          /\ lastPos' = [lastPos EXCEPT ![currentScene] = pointer]
          /\ untold' = untold \ {currentScene}
          /\ missed' = [release |-> missed.release \ {currentScene},
                        moves |-> missed.moves \ {currentScene}]
     ELSE UNCHANGED cameras
  /\ UNCHANGED <<stage, sceneList, currentScene, clocks, currentTime, size, framebuffer,
                 pointer, state, shouldClose>>
(* The scenes off the screen that were left in a drag, here by button b. *)
Aside == { s \in Scene \ {currentScene} : movement[s] # "None" }
DraggedAside(b) == { s \in Aside : movement[s] = Dragging[b] }
(* A fault: only the GUI is told. *)
ReleaseKeeping(b) ==
  /\ Running /\ b \in held /\ held' = held \ {b}
  /\ mousePressed(gui.down \ {b})
  /\ UNCHANGED <<stage, sceneList, currentScene, clocks, currentTime, size, cameras,
                 framebuffer, pointer, state, shouldClose>>
Release(b) ==
  /\ Running /\ b \in held /\ held' = held \ {b}
  /\ mousePressed(gui.down \ {b})
  /\ movement' = [movement EXCEPT ![currentScene] = "None"]
  /\ untold' = untold \ {currentScene}
  /\ missed' = [missed EXCEPT !.release = (@ \ {currentScene}) \cup DraggedAside(b)]
  /\ UNCHANGED <<stage, sceneList, currentScene, clocks, currentTime, size, lastPos,
                 framebuffer, pointer, state, shouldClose>>
(* mouseMove takes its step from lastPos, whatever the movement. *)
Move(p) ==
  /\ Running /\ p # pointer /\ pointer' = p
  /\ lastPos' = [lastPos EXCEPT ![currentScene] = p]
  /\ missed' = [missed EXCEPT !.moves = (@ \ {currentScene}) \cup Aside]
  /\ UNCHANGED <<stage, sceneList, currentScene, clocks, currentTime, size, movement, untold,
                 framebuffer, held, gui, state, shouldClose>>

(* frameBufferSizeCallback keeps the size above zero for the scene. *)
AtLeastOne(n) == IF n < 1 THEN 1 ELSE n
frameBufferSize(n) ==
  /\ Running /\ n # framebuffer /\ framebuffer' = n
  /\ screenResizeEvent(currentScene, AtLeastOne(n))
  /\ state' = viewport(state, AtLeastOne(n))
  /\ UNCHANGED <<stage, sceneList, currentScene, clocks, currentTime, cameras, mouse, shouldClose>>

(* nextScene, on Tab with or without Shift, prepares the scene it swaps to; the  *)
(* hooks run even for one scene.                                                *)
following == (currentScene % sceneList) + 1
(* A fault: the tick is stored once the scenes are swapped. *)
StoredLate(to) == sceneTicks' = [sceneTicks EXCEPT ![to] = clock]
Stored(to) == sceneTicks' = [sceneTicks EXCEPT ![currentScene] = clock]
(* A fault: a scene not shown yet is not told apart. *)
ResumedAsIs(tick) == tick
Resumed(tick) == IF tick = -1 THEN 0 ELSE tick
Swap(to) ==
  /\ Stored(to)
  /\ currentScene' = to
  /\ framebuffer' = framebuffer /\ screenResizeEvent(to, framebuffer)
  /\ state' = onSceneEnter(viewport(onSceneExit(state), framebuffer))
  /\ clock' = Resumed(sceneTicks'[to])
nextScene ==
  /\ Running
  /\ IF sceneList = 1
     THEN /\ state' = onSceneEnter(onSceneExit(state))
          /\ UNCHANGED <<currentScene, sceneTicks, clock, framebuffer, size, gui>>
     ELSE Swap(following)
  /\ UNCHANGED <<stage, sceneList, shown, currentTime, cameras, mouse, shouldClose>>

(* The Escape key, or the window's close button, as every scene has ended. *)
Close ==
  /\ Running /\ shouldClose' = TRUE
  /\ UNCHANGED <<stage, sceneList, currentScene, clocks, currentTime, size, cameras,
                 framebuffer, mouse, gui, state>>
Return ==
  /\ stage = "running" /\ shouldClose /\ stage' = "returned"
  /\ state' = onSceneExit(state)
  /\ UNCHANGED <<sceneList, currentScene, clocks, currentTime, size, cameras, framebuffer,
                 mouse, gui, shouldClose>>
Returned == stage = "returned" /\ UNCHANGED vars

Event == (\E b \in Button : Release(b) \/ \E onlyAlt \in BOOLEAN : Press(b, onlyAlt))
         \/ (\E p \in Place : Move(p)) \/ (\E n \in 0 .. MaxSize : frameBufferSize(n))
         \/ nextScene \/ Close
Next == addScene \/ runApplication \/ Frame \/ Tick \/ Event \/ Return \/ Returned
Spec == Init /\ [][Next]_vars

--------------------------------------------------------------------------------
(* Every variable keeps its type; the scene on the screen is one of the list. *)
TypeOK ==
  /\ stage \in {"setup", "running", "returned"} /\ sceneList \in 0 .. MaxScenes
  /\ currentScene \in Scene /\ (sceneList > 0 => currentScene <= sceneList)
  /\ sceneTicks \in [Scene -> (-1) .. MaxTime] /\ clock \in 0 .. MaxTime
  /\ currentTime \in [Scene -> 0 .. MaxTime] /\ shown \in [Scene -> 0 .. MaxTime]
  /\ size \in [Scene -> 0 .. MaxSize] /\ framebuffer \in 0 .. MaxSize
  /\ movement \in [Scene -> Movement] /\ lastPos \in [Scene -> Place] /\ pointer \in Place
  /\ held \subseteq Button /\ gui \in [down : SUBSET Button, size : 0 .. MaxSize]
  /\ state \in [depth : BOOLEAN, blend : BOOLEAN, scissor : BOOLEAN, viewport : 0 .. MaxSize]
  /\ shouldClose \in BOOLEAN /\ untold \subseteq Scene
  /\ missed \in [release : SUBSET Scene, moves : SUBSET Scene]

(* Time is frozen for a scene while it is off the screen: the clock shows how   *)
(* long the scene on the screen has been there in all, and so no scene ever     *)
(* sees time run backwards (Application.hpp:143-147, Application.cpp:31-55).     *)
ClocksFrozen ==
  stage = "running" =>
    /\ clock = shown[currentScene]
    /\ \A s \in Scene : currentTime[s] <= shown[s]
    /\ \A s \in (1 .. sceneList) \ {currentScene} :
         IF sceneTicks[s] = -1 THEN shown[s] = 0 ELSE sceneTicks[s] = shown[s]

(* Whenever a frame begins, the scene, the viewport and the GUI have the size   *)
(* the window has now, though it changed while another scene was shown, and     *)
(* OpenGL is as the scene left it: with depth test and blending, without the    *)
(* GUI's scissors (Application.cpp:31-43, 328-333, GUI.cpp:130-168).             *)
FrameReady ==
  stage = "running" =>
    /\ size[currentScene] \in {framebuffer, AtLeastOne(framebuffer)}
    /\ state = [depth |-> TRUE, blend |-> TRUE, scissor |-> FALSE,
                viewport |-> size[currentScene]]
    /\ gui.size = framebuffer

(* A camera is in a drag only while the very button that began it is down, on    *)
(* the screen or off it and over any presses and swaps of scenes, unless the     *)
(* release went to another scene; its drag goes on from where the pointer is,    *)
(* unless another scene was told of the moves; and the GUI knows the buttons     *)
(* that are down, whichever scene was told (ModellingScene.cpp:23-61,            *)
(* MayaCamera.cpp:57-128).                                                       *)
DragsHeld ==
  /\ gui.down = held
  /\ \A s \in Scene \ (untold \cup missed.release) :
        movement[s] # "None" => \E b \in held : movement[s] = Dragging[b]
  /\ \A s \in Scene \ (untold \cup missed.moves) :
        movement[s] # "None" => lastPos[s] = pointer

(* "The Application already ensures that the dimensions of the windows are       *)
(* never less than 1" (Scene.hpp:129-131).                                       *)
DimensionsPositive == stage = "running" => size[currentScene] >= 1
================================================================================
