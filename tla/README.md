# Verification of bsoid

bsoid turns an implicit surface (a tree of blended scalar fields, the *blob
tree*) into a triangle mesh and shows it in a window. This directory holds TLA+
modules that model its two polygonizers, the tree they polygonize, and the parts
of its window that keep state; TLC configurations that check them on small
instances; and theorems, proved with TLAPS, that hold for every value of the
constants. Paths below are relative to the root of the repository; `Bsoid.cpp` is
`source/bsoid/polygonizer/Bsoid.cpp`, `Tables.hpp` is
`include/bsoid/polygonizer/Tables.hpp`, and the files of atlas are under
`lib/atlas/source/atlas`.

To check it, in this directory (the others of section 3 alike):

    tlc -workers 2 -config MCSurfaceMarch.cfg MCSurfaceMarch
    tlapm SurfaceMarchProofs.tla

## 1. The system

| Component | State | Operations | Interacts with |
|---|---|---|---|
| Blob tree (`source/bsoid/tree`, `include/bsoid/operators`, `.../fields`) | field tree, volume tree, list of nodes | insert fields and trees; `eval`, `grad`, `getSubTree`, `getTreeBox`, `getSeeds` | read by both polygonizers, from many tasks |
| `Bsoid`: super-voxels and point cache | `mSuperVoxels`, `mSeenPoints` | `makeVoxels`, `findVoxelPoint`, `fillVoxel` | asks the blob tree; called by the march |
| `Bsoid`: surface march | the frontier, `mSeenVoxels`, `mVoxels` | `marchVoxelOnSurface`: one task per seed, then a loop with parallel pushes | fills voxels; leaves `mVoxels` to the next part |
| `Bsoid`: mesh assembly | `mComputedPoints`, `indexMap`, `mMesh` | `makeTriangles`: one task per voxel; `generateLinePoint` | reads `mVoxels` and the tables |
| Tables (`Tables.hpp`) | constants | corners, neighbours, edges, triangles by case | march, assembly, second polygonizer |
| `Lattice` | line segments | `makeLattice`, `clearBuffers` | made from `mVoxels` |
| `MarchingCubes` | grid of samples, triangle soup, mesh | `constructGrid`, `createTriangles`, `polygonize`, `saveMesh` | blob tree, tables of its own, `Mesh::fromTriangleSoup` |
| `Mesh` (`utils/Mesh.cpp`) | vertices, normals, indices | `fromTriangleSoup`, load and save | filled by both polygonizers |
| Models (`source/bsoid/models`) | none | a tree and a resolution for each of nine models | both polygonizers |
| Application and scenes (`utils/Application.cpp`) | list of scenes, current one, a clock per scene | add a scene, run, switch scenes, callbacks | GLFW; the visualizer is a scene |
| Camera and modelling scene (`tools`) | a drag, the last point | mouse, resize, enter and leave events | Application, GUI |
| GUI binding (`utils/GUI.cpp`) | ImGui's buttons and size | mouse, resize, drawing | OpenGL's state, which it must put back |
| Shader (`gl/Shader.cpp`) | program, units, time stamps | compile, link, hot reload | source files; the visualizer, every frame |
| Visualizer | the model shown | initialise, draw | Application, Shader, `MarchingCubes` |
| Driver (`source/main.cpp`) | none | makes models and opens the window, or polygonizes each | all |

What is hard here. With `DISABLE_PARALLEL` set to 0 (Bsoid.cpp:20) the march and
the assembly run as TBB loops over shared maps and vectors, guarded by mutexes
that cover the insertions but not the look-ups. The march is a search whose
order depends on scheduling, over unsigned coordinates that wrap, with hand-made
tables that must agree with each other. It has an unbounded loop and an
exception in the middle of a parallel loop. In the window there is one thread,
but files change under it, shaders fail to compile halfway through, and events
reach only the scene that is on the screen. Nothing is persisted that the program
depends on and there is no network, so crashes and lost messages play no part.

For each component, what makes it correct:

* **Surface march.** Every voxel recorded once; every crossing of a recorded
  voxel's faces followed, so that the surface has no holes; every seed's
  component found; no step over the surface; termination but for the walk.
* **Tables.** The three descriptions of a case (corner signs, edge mask,
  triangle row) agree; the triangles of two voxels meet on their common face.
* **Mesh assembly.** Each voxel's triangles drawn once, in order, with the right
  corners; indices sound; one vertex for each grid edge; the surface closed.
* **The two together.** What the march records is all that the assembly needs.
* **Super-voxels, point cache, hashing.** Every point has a super-voxel; a cached
  value is the point's own; distinct ids have distinct hashes; seeds lie in the
  grid.
* **Blob tree.** A pruned field has each point of its super-voxel on the side of
  the surface the whole field has it.
* **MarchingCubes and Mesh.** A normal stays with its vertex and a triangle's
  vertices together, whatever the order of the cells; the mesh is the soup,
  closed, and survives its file.
* **Shaders.** No save of a source is missed; the program in use is whole as long
  as nothing failed; no shader is lost.
* **Scenes.** A scene's clock stands still while another is shown; a frame finds
  the sizes and OpenGL's state it expects; a drag ends when the button is up.

`PROJECT.json` lists each component with its status and each hazard at its line.

## 2. The modules

    Extended        by
    VoxelGrid       SurfaceMarch, MarchingTables
    MarchingTables  PatchTables, MeshAssembly, Lattice
    PatchTables     PatchFacts, VoxelFaces (with Lattice)          (tables)
    SurfaceMarch    MCSurfaceMarch, Polygonizer                    (march)
      implements    FloodFill
    PatchFacts      Polygonizer - MCPolygonizer                    (polygonize)
                    MarchingCubes (with Mesh) - MCMarchingCubes    (marching_cubes)
    MeshAssembly    MCMeshAssembly                                 (mesh_*)
      implements    TriangleSoup
    Boxes           VolumeTree, SuperVoxels (with GridArithmetic)
    both of these   MCSuperVoxels                                  (supervoxels)
    ShaderReload    MCShaderReload                   (shaders, shader_failure)
    Application     MCApplication                    (application, window_size)

Each module of proofs extends the module it is about:

    VoxelGridProofs (of PatchFacts) -- SurfaceMarchProofs -- PolygonizerProofs
                                    |- MeshAssemblyProofs
                                    `- MarchingCubesProofs
    SuperVoxelsProofs        ShaderReloadProofs        ApplicationProofs

### VoxelGrid

The lists at the head of `Tables.hpp`, entry for entry (corner *k* of the code is
`VoxelDecals[k + 1]`), and the coordinates they are added to. Coordinates are
unsigned in the code. A value one below zero stands for the wrapped value
2^64-1: `validVoxel` rejects both, and no id that has wrapped is ever stepped
from again, so -1 and 2^64-1 cannot be told apart. `EdgeDecals` keeps the entry
`{7, 0}` of Tables.hpp:46, which is not an edge of the voxel.

### SurfaceMarch and FloodFill

`marchVoxelOnSurface` (Bsoid.cpp:429-638), in the parallel branch.

| Code | Model |
|---|---|
| seeds as voxel ids, 246-272 | `Jobs[job].seeds` |
| sign of `value.w - mMagic`, 463-466 | `Jobs[job].sign`, -1, 0 or 1 at each grid point |
| `mSuperVoxels.at` may throw, 327 | `Jobs[job].have`, `CanFill`, `SeedThrows`, `PopThrows` |
| gradient and value at a voxel's centre, 503-511 | `grad` (its sign), `above`; `Step` |
| a seed's task, 549-567 | `task[i]`, `at[i]`: `CheckSeed`, `Walk`, `PushSeed` |
| end of the loop over seeds, 571-576 | `JoinSeeds` |
| `seenVoxel`, 365-380 | `SeenAfter`, in the pop |
| pop, fill, get edges, 578-595 | `PopSeen`, `PopEmpty`, `PopSurface` |
| one push, 614-633 | `PushNeighbour(n)` |
| `mVoxels.push_back`, 636 | `Record` |

The queue is a set of pairs of a loop number and an id. Pushes of one parallel
loop have no order among themselves and a pop takes any entry of the oldest
loop: these are exactly the orders the queue can have. A second copy of an id in
one loop would be popped after the first and skipped by `seenVoxel`, so it is
not kept. `mVoxels` is a bag, so that a repeated record would show.

What is abstracted: a field is its signs, since the march looks at nothing else;
a voxel's points are re-read by sign and not stored; the calls within one task
that touch nothing shared (filling a voxel, collecting its edges) are one step.
`mSeenPoints` is left out here: it caches a function of the point, as
SuperVoxels shows, where it and its unlocked look-up are modelled.

`FloodFill` is the promise: a search that starts from cells on the surface,
finds only cells on the surface next to one found, and may finish only when all
starts are found and no link leads to a missing cell.

### MarchingTables, PatchTables, PatchFacts and VoxelFaces

`EdgeTable` and `TriangleTable` of `Tables.hpp` and the edge ends of
`makeTriangles`. `PatchTables` makes of them the sides of the triangles in one voxel
and the edges that two voxels share at a face, and `PatchFacts` states what the
surface of many voxels rests on, for all 256 rows and all pairs of rows that can
meet. `MarchingCubes.cpp` has a copy of the two tables with the same
entries, but its `VoxelDecals` has y and z exchanged (`mcDecals`). `VoxelFaces` is
a walk over corner combinations: each step crosses one face, fixes the four
shared corners and leaves the other four free, so it meets every pair of
neighbouring cases. It also draws the `Lattice` of the two voxels, whose line
list (Lattice.cpp:60-94) is one more description of a voxel's edges.

### MeshAssembly and TriangleSoup

`makeTriangles` (650-804 serial, 806-961 parallel, chosen by
`DISABLE_PARALLEL`) and `generateLinePoint` (394-427). A task goes from
`"waiting"` to `"edges"`, for each edge through `LookUp` and possibly `Lock` and
`Insert`, then `"triangles"`, one `Emit` per triangle as the lock at 940 allows.

| Code | Model |
|---|---|
| `voxelIndex`, 810-817; early return, 819-822 | `Start` |
| the two `find`s, 403-414 | `LookUp` |
| interpolation and lock, 419-422 | `Lock` |
| `insert` and unlock, 423-425 | `Insert` |
| a triangle under `indexMapMutex`, 935-957 | `Emit`, `AddsTriangle`, `AddPoint` |
| `mVoxels` and the field | `Surfaces[scene]` |

A vertex is the key it was made under: the interpolated point and its normal are
functions of the two grid points in their order. A key is a pair of grid points
in place of the pair of their hashes. The look-up takes no lock: while another
task inserts, it may miss any entry, since it reads a tree that is being
rebuilt. (The language leaves that undefined. A crash is not modelled.)

`TriangleSoup` is the promise on geometry: the triangles of every patch, each
once, those of a patch in order, whatever vertices are shared.

### Polygonizer

`Bsoid::polygonize` (96-134): the march of SurfaceMarch step by step, and then
the assembly in one step that leaves what `TriangleSoup` promises, since
MeshAssembly is shown to implement it. An exception of the march leaves
`polygonize` without a mesh. The point of the composition is that the two halves
look at the field differently: the march at changes among three signs, along the
edges of `EdgeDecals` with its wrong entry, the assembly at points below the iso
value or not, along the true edges.

### GridArithmetic, Boxes, VolumeTree and SuperVoxels

SuperVoxels takes a tree as what it is along a grid (its box and seeds, the
super-voxels that have a field and the values of these), and VolumeTree computes
that from the code's trees: `Along` joins the two. A field is held by a pointer
in the code and by its index in the model's sequence of fields here, and is made
after those it holds; so boxes, values and seeds, of fields and of nodes, are
recursive functions of indices, and a loop is one over the turns it takes
(`Loop`), which a theorem can be about. `ModelOK` is what all of the factories'
trees have in common.

| Code | Model |
|---|---|
| `BsoidHash` (Hash.hpp:15-26), super-voxel of a point (Bsoid.cpp:310-322) | `hash`, `superVoxel` |
| `BlobTree`, `Node`, operators, fields, filter | `VolumeTree`, by the same names |
| `BBox`, `createCellPoint`, the deltas of `setResolution` | `Boxes` |
| the nine factories of `Models.cpp`, for both polygonizers | `makeSphere` ... `makeChain` |
| `makeVoxels`: a task per super-voxel, a task per seed (184-276) | `MakeCell(x)`, `MakeSeed(i)` |
| `findVoxelPoint`: the unlocked search, the field, the lock, the insertion (295-344) | `Find`, `Eval`, `Lock`, `Insert` |

The mask of `BsoidHash` is `~(0 << bits)`, which masks nothing: ids are apart while
their coordinates are below 2^21, which `HashInjective` proves and every grid
of the program keeps. Everything is cut to one line of the grid: the x axis, or
for the transformed torus the line through its middle. Boxes are products of
intervals and the spheres' centres lie on that line, so a field is exact on it;
lengths are whole numbers of a unit, `Unit` of them to 1.0 of the code, and values
of a unit made from it in which the filter is a whole number. `Unit` is a constant:
the run has 4, the theorems hold for any, so also for one as fine as a `float`. A grid
point or an end of a cell that is not on the unit is rounded down to it (`PointOf`);
as both are rounded alike, what is before or after what stays so.
Where a wing of the butterfly is turned out of the line its value is left open.
`down` says whether a quotient of floats that is exact comes out just below.
What SuperVoxels assumes of a tree is `ModelOK`: nothing of its box, its seeds, its
pruned fields or their values.

### Mesh and MarchingCubes

| Code | Model |
|---|---|
| `constructGrid` (443-480) | `constructGrid`: the tasks write an entry each |
| a cell of `createTriangles`: its case (507-536), the lock (649), the pushes (650-671) | `Take`, `Lock(c)`, `Push(c)` |
| `mIndices` (676-677), checks of `fromTriangleSoup` | `MakeIndices` |
| one corner of `fromTriangleSoup` (Mesh.cpp:75-127) | `AddIndex`, by `AddCorner` |
| `saveMesh` (428-431, Mesh.cpp:317-378) | `Save`, by `saveToFile` |
| `Mesh::fromFile` (Mesh.cpp:132-194), a corner of the faces at a time | `LoadIndex`, by `fromFile` |
| the buffers of `ModelView::initShaders` (ModelView.cpp:221-270) | `Upload` |

A vertex is the grid edge it lies on, in the direction the cell interpolates it:
whether the two directions round to the same point is `rounds`. In print the two
may coincide in any case, as six digits are written. `working` cells are those
between taking and leaving, at most `workers` at a time.

### ShaderReload

| Code | Model |
|---|---|
| `readShaderSource` (Shader.cpp:60-130) | `Begin` (the root is opened), `Stamp`, `Read`, `Throw`: one file at a time |
| `compileShader`, `compileShaders` (213-270, 411-452) | `CompileGood`, `CompileBad` |
| `linkShaders` (454-483), `deleteShaders` | `LinkNothing`, `LinkGood`, `LinkBad`, `Deleted` |
| `hotReloadShaders` (525-582), `getFileTimeStamp` | `Check`, `CheckNothing`, `StampOf` |
| `ModelView::initShaders`, `renderGeometry` | `Init` and `AfterLink`; `Draw` |
| `~Shader` | `Destroy` |
| somebody at an editor | `Edit`, `Unlink`, `Tick`, at any moment |

A text is the number of its edit and whether it compiles. OpenGL gives the names
of deleted shaders out again, which the code must survive because a unit keeps
the name of a shader that is gone.

### Application

| Code | Model |
|---|---|
| `addScene`, `runApplication`, the end of its loop | `addScene`, `runApplication`, `Return` |
| `updateScene`, `renderScene`, `renderDrawLists` (GUI.cpp:18-168) | `Frame` |
| mouse callbacks, `ModellingScene`, `MayaCamera` | `Press`, `Release`, `Move` |
| `frameBufferSizeCallback` | `frameBufferSize` |
| Tab: `nextScene`, `prepareSwappedScene` (Application.cpp:31-55) | `nextScene`, `Swap` |
| Escape, `windowCloseCallback` | `Close` |

A size stands for width and height, 0 for a window that is iconified. The clock
is GLFW's timer, which a swap sets. `shown`, `untold` and `missed` are histories that
the properties compare with the state: how long a scene has been shown, which
cameras have been told of no button yet, and which were in a drag while another scene
was told of its release, or of a move of the pointer. A camera's movement is not
initialized (MayaCamera.cpp:42), so `Init` leaves it open, and nothing is said of the
camera before its first press or release.

## 3. The runs

| Run | Instance | Shows |
|---|---|---|
| `march` | `MCSurfaceMarch.cfg`: 3x3x3 voxels, 11 fields | the safety and liveness of the march, and that it implements `FloodFill` |
| `tables` | `VoxelFaces.cfg`: one voxel and its neighbours | all 256 cases, and all pairs of cases that can meet |
| `mesh_parallel` | `MCMeshParallel.cfg`: 2x2x2 grid, 5 surfaces of 2 or 3 voxels | the parallel build |
| `mesh_serial` | `MCMeshSerial.cfg`: 2x2x2 grid, 128 surfaces of up to 8 voxels | the serial build |
| `mesh_race` | `MCMeshRace.cfg`: as `mesh_parallel` | a finding of section 5 |
| `polygonize` | `MCPolygonizer.cfg`: 3x3x3 voxels, 12 fields | march and assembly together |
| `supervoxels` | `MCSuperVoxels.cfg`: 12 trees, both roundings, 2 tasks | super-voxels, pruning and the race on the point cache |
| `marching_cubes` | `MCMarchingCubes.cfg`: 131 surfaces, resolution 3 or 4 | the second polygonizer, its mesh and its file |
| `shaders` | `MCShaderReload.cfg`: 2 units, 3 files, 2 edits, 2 seconds | hot reloading |
| `shader_failure` | `MCShaderFailure.cfg`: as `shaders` | a finding of section 5 |
| `application` | `MCApplication.cfg`: 2 scenes, 2 buttons, 2 ticks | scenes, clocks, sizes and drags |
| `window_size` | `MCDimensions.cfg`: as `application` | a finding of section 5 |

Bounds. `GridSize` is the number of voxels along a side. Three is the least
with a voxel in the middle, so that a voxel has in-grid neighbours on both sides
of each axis, and others at each face of the grid. The fields of `march`
(`MCJobs`) each bring a case: a surface around one grid point reached from two
seeds, one cut by the grid's border, two components, a point exactly at the iso
value, walks inwards and outwards, a seed past the upper face, no gradient, no
surface, missing super-voxels at a seed, on a walk and during the march, no
seeds. No counter needs a bound: `batch` grows by one for each voxel recorded.

The tables need no more than one voxel and its neighbours, because the
properties are about one case or two that share a face; the run is exhaustive.
In `mesh_parallel` two voxels that share a face share up to four edges, which is
all a race over one edge needs, and a third voxel makes an edge shared by three
tasks. `mesh_serial` has one order of steps, so it can afford whole surfaces:
every subset of seven grid points, on and off the border. The fields of
`polygonize` are those that a march could lose a piece of: points that touch
across a face or a voxel only, points at the iso value, a piece without a seed,
surfaces that the border cuts.

`supervoxels` takes every model, some at resolutions that divide its box and some at
ones that do not, with the borders of super-voxels on grid points and between them.
The unit is a quarter, which keeps the filter's values in the integers of TLC. Two tasks are what a race
on one point needs; `MaxSeen` bounds the calls that miss, so that at most two
points are kept, which are every pair of points in turn. `HashBase` 64 is above
every coordinate, as 2^21 is. In `marching_cubes`
one point inside a 3x3x3 grid is run with two cells at work, in every order of
takes and locks, and every surface around a subset of the eight inner points of
a 4x4x4 grid that has a given one of them (each surface is one of these up to a
symmetry of the grid) with one; and none, and one that meets the border. In `shaders` two edits give
every pair of saves, failures and repairs, and two seconds tell a save in the
second of its stamp from a later one; the third file is the one included. Two
names are enough for OpenGL to give one out again. Two scenes are the least that
can be switched; the two places of the pointer are alike, so they are symmetric.

Properties of `march`:

* `NoRepeatedVoxels` is the assertion of `validateVoxels` (Bsoid.cpp:983-984),
  which only `constructLattice` makes, and that nothing calls.
* `NoCrossingLost`: a face that the surface crosses leads to a voxel seen or
  waiting, at every moment. `NothingMissed` is what it gives at the end, and
  `SeedsRecorded` the same for seeds. `NothingMissed` and `SeedsRecorded` speak
  of a march that returns; one that throws may have missed voxels.
* `NoTunnelling`: a walk that goes on stays among voxels of one sign. It holds
  because a step moves by at most one voxel along each axis, so the voxels before
  and after share a corner.
* `EndsUnlessWalking`: the march ends, or a walk goes on for ever. The loop of
  `findSurface` (501) really may not end: with a zero gradient it stays where it
  is (job 7), and where the surface is absent it can go to and fro (job 8).
* `ImplementsFloodFill`.

Properties of `tables`: `TablesAgree`, `PatchClosedInside`, `PatchesMeet`. The
last answers the question left at MarchingCubes.cpp:16-18 for these tables:
ambiguous faces are resolved alike on both sides.

Properties of the mesh runs:

* `MeshIndexed`: each index names a vertex and `indexMap` numbers the vertices
  one to one, whatever the interleaving.
* `SurfaceClosed`: in the finished drawing each side of a triangle, off the
  border of the grid, is the side of exactly one other, run the other way: no
  holes, and one orientation.
* `ImplementsTriangleSoup`, and `Completes`: every voxel's task ends with all its
  triangles drawn, the voxels with none included.
* Serial build only: `OneVertexPerEdge`, and `MeshClosed`, the closure by
  indices that follows from it.

Properties of `polygonize`: `MeshWhole`, the closure of `SurfaceClosed` for the
voxels the march really found; `WoundInward`, that all triangles are wound one way,
against the normals, while `WoundOutward` of `marching_cubes` finds the other
polygonizer's with them: the same triangle table is used with two numberings of
the corners that are mirror images. OpenGL's face culling is off, so both show.

Properties of `supervoxels`: `NeverThrows` (no point that is asked for lacks a
super-voxel), `SeedsInGrid` (so the cast of a seed's coordinates is defined),
`ReadsKeepSides` (pruning moves no point across the surface), `CacheSound` (two
tasks that race on a point leave one value, the right one) and `CallsReturn`.

Properties of `marching_cubes`: `NormalsPaired`, `SoupComplete` (the soup has every
cell's triangles, each whole and once), `MeshResolves` (mesh and buffers are the
soup corner by corner, with no vertex twice), `Watertight` (by grid edges always,
by indices where rounding does not tell the directions apart), `WoundOutward`, both
of surfaces that do not meet the border, as none inside its tree's box does, and
`ReloadKeepsMesh`.

Properties of `shaders`: `SourceFresh` (what runs is what is on disk, or its stamps
will show that it is not, or the two share a second), `ProgramWhole` (until
something fails, there is one living and linked shader for each unit), `NoLeak`
(whatever fails), `EditNoticed` (a later save is noticed in the end).

Properties of `application`: `ClocksFrozen` (the clock shows how long the current
scene has been on the screen in all), `FrameReady` (sizes and OpenGL's state),
`DragsHeld` (a camera is in a drag only while the very button that began it is down,
on the screen and off it, unless its release went to another scene; and the drag goes
on from where the pointer is, unless another scene was told of the moves).

Each property has a mutant in `PROJECT.json`: an operator marked "A fault" in
its module, whose use in place of the operator after it breaks the property.

## 4. Fairness

`FairSpec` of SurfaceMarch and MeshAssembly assumes `WF_vars(Next)`: as long as
some thread can step, some thread does. That is what TBB and the operating system
give, and no more is assumed. In particular no task is assumed to get its turn
while others run, since one worker thread may take the tasks one after another.
A walk that never ends may then keep the others from starting, which is why
`EndsUnlessWalking` is a disjunction. In `MeshAssembly` every step uses something
up (an edge, a triangle, a task), so progress of the whole is enough for
`Completes`.

In SuperVoxels a task that is inside `findVoxelPoint` runs on (weak fairness of
`Eval` and `Insert`: it holds a worker thread), and gets the lock in the end if it
keeps asking for it (strong fairness of `Lock`), because other tasks may take it
in between. Nobody is assumed to call. In ShaderReload `WF_vars(Thread)` says that
frames go on while the window is open; edits and closing are not assumed to
happen. Polygonizer, MarchingCubes and Application state safety only.

In most modules a last action lets the finished program stutter, so that TLC's
check for deadlock means that nothing gets stuck before its end. MarchingCubes
has none, since its run really ends when the mesh is drawn, and
`MCMarchingCubes.cfg` turns the check off.

## 5. Findings

`mesh_race`: in the parallel build `OneVertexPerEdge` fails. Tasks 1 and 2 draw
voxels that share an edge. Both look it up (403-404) before either inserts; each
computes it and inserts it under its own orientation (423), so `mComputedPoints`
has it twice. Their triangles carry the two keys, and `makeTriangles`, which is
to "check if we have seen this point before" (784), pushes two vertices. The
triangles lie in the right place (`ImplementsTriangleSoup`), but those on the two
sides of the edge do not share it. Looking up again under the lock, or ordering
the two hashes in the key, removes the race.

`shader_failure`: "True if the shaders were reloaded" (Shader.hpp:177) and "the
program will not be destroyed" (125-126) do not hold once a unit fails to compile.
The program is deleted (Shader.cpp:432-446); the next one is made with only the
units compiled from then on, and linking that returns true. In the run the first
unit fails at start-up, so the second was never read and has no stamp to be
reloaded by.

`window_size`: Scene.hpp:129-131 promises that dimensions "are never less than 1".
Only the resize callback sees to it (Application.cpp:138-139); a scene that is
swapped to while the window is iconified gets 0 (36-38), and so may the first.

Things met while modelling that break no promise: `EdgeDecals[7]` (Tables.hpp:46)
names a diagonal, so voxels are visited for it that have no crossing there and
its own edge is never compared, yet nothing is missed, as section 6 proves; a
seed on the upper face of the box would give a voxel past the grid that is
recorded, though no model has one; pruning to the point before `eval`, as the comment at
BlobTree.cpp:74-77 considers, would change an intersection's value, since the
pruned child's 0 is then missing from the minimum (`ReadsKeepSides` shows that the
pruning to a super-voxel keeps the side of the surface); and what makes it keep it is
not the code alone: two spheres apart from each other, intersected, would be pruned to
one of them in a cell that only its box overlaps and show it whole, where the
intersection of the program has its spheres close enough (`Meet`, section 6).

One more goes against a comment, without a run of its own. Camera.hpp:71-74 says that
`mouseMove` is called "when the mouse has been pressed and is being dragged", but
`ModellingScene::mouseMoveEvent` passes every move on (ModellingScene.cpp:59-63), and a
release goes to the scene on the screen only. Press a button with Alt, swap the scene by
Tab, lift the button, and swap back: the first camera is still in its drag and follows
the pointer with no button down, until a button is released there or begins another
drag. `DragsHeld` excepts these drags (`missed.release`) and says that there is no other
way to one; without the exception TLC shows these steps.

## 6. Proofs

All of these are checked by `tlapm`, for every value of the constants.

**March** (`SurfaceMarchProofs`). The safety properties are not inductive alone.
`MarchInv` adds to them

* `SeedsInv`: before the join nothing is seen; a walking task's voxel has no
  crossing, a pushed one has one and is seen or waiting;
* `RecordInv`: recorded or being expanded is the same as seen with a crossing,
  unless the march threw;
* `CrossingInv`: `NoCrossingLost`, with the crossings of the voxel being
  expanded: each is still pending, waiting or seen;
* `ReachInv`: what waits was started or touches a voxel recorded.

`Invariant` proves `Spec => []MarchInv`, one step per action. From it:
`TypeCorrect`, `NoRepeats`, `RecordedOnSurface` (`OnlySurface`),
`CrossingsFollowed`, `MarchIsComplete` (`NothingMissed`), `SeedsAreRecorded`
(`SeedsRecorded`), `WalkDoesNotTunnel`, and `MarchIsSearch`, the refinement of
`FloodFill`. The lemma to read is `CrossedFaceIsFollowed`: when two corners of a
face differ, some entry of `EdgeDecals` that differs has that face's neighbour in
`NeighbourMap`. It goes through in spite of the wrong entry 7, because the other
three edges of a face already join its four corners, and that is why the fault
is harmless. `NoEdgeNoChange` is its counterpart for a voxel without a differing
edge. `MarchCloses` puts these together: a face with a change of sign has voxels
recorded on both sides of it, or leaves the grid.

**Triangles of many voxels** (`VoxelGridProofs`). What the surfaces of both
polygonizers have in common. `Continues(low, V)` says that a set V of voxels goes
on across each face on which the points `low` change. Then `OpposedOnce`: each side
of a triangle of a voxel of V, off the border, is run the other way by exactly
one place of one voxel of V, in that voxel or across one face. `SideOnce`: no side is
drawn twice the same way. `TrianglesTurn`: all turn one way about the fall of the
field. They follow from `PatchesAssumption`, `FacesAssumption` and
`WindingAssumption`, which speak of one voxel, or of two at a face, in terms of the
256 rows of the tables: TLC evaluates them over all rows and all pairs of rows
that can meet, so the step from two voxels to any number of them, and from a 3x3x3
grid to any grid, is the part that is proved.

**March and assembly together** (`PolygonizerProofs`). `PolygonizerMarches`: a
behaviour of `polygonize` is one of the march, so all of the above holds of it.
`MarchLeavesWhole`: when it is done, what it recorded goes on across each changed
face (`Continues`), a translation of `MarchCloses` from the three signs and wrong
edges of the march to the two sides and true edges of the tables. Then
`MeshIsWhole` (`MeshWhole`) by `OpposedOnce`, and `MeshIsWoundInward` (`WoundInward`)
by `TrianglesTurn`. `MeshOfTheMarch` is the invariant: the mesh is empty until it is
the one `TriangleSoup` promises.

**Assembly** (`MeshAssemblyProofs`). `Inv` says that the mesh is in good order
(`MeshOK`) and that for each task (`TaskOK`) the edges found and those still to
find are the edges of its case, its triangles come last, and each key found has
the ends of its edge. Nothing is said of what a look-up finds, so `IndexedMesh`
and `MeshIsSoup`, the refinement of `TriangleSoup`, hold in spite of the race.
`SerialSharesVertices` proves `OneVertexPerEdge` when `DISABLE_PARALLEL` holds,
from `SerialInv`: tasks run in sequence, no edge is computed under both its
keys, the task computing an edge still finds it under neither, and what is drawn
has been computed. `InSequence` is what fails in the parallel build.

`SurfaceIsClosed` (`SurfaceClosed`) holds of both builds. `Numbered` is its
invariant: the triangles drawn are in one-to-one correspondence with the pairs of
a task and a row it has emitted. It is kept because a step draws in the abstract
soup (`Soup!Draw`), whose triangles know nothing of indices. At the end the pairs
are all rows of all voxels, and `OpposedOnce` closes them. `WholeAssumption`, that a
surface goes on across its faces, is what `MarchLeavesWhole` proves of the
march's. `MeshIsClosed` (`MeshClosed`) follows in the serial build, since there two
corners on one edge have one index. Sides on the border are left out (`OnBorder`), and so
are those past it, which only a voxel of a seed on the far face of the box has.

**Super-voxels and point cache** (`SuperVoxelsProofs`). `SuperVoxelInGrid`: the
super-voxel of every grid point is one of the grid, for all resolutions and both
roundings; the pull back by one at the far end is what it rests on.
`HashInjective`: two ids with coordinates below 2^21 have different keys. `Inv` then
says that a finished super-voxel is found under its key and no other (`Filled`),
that seeds are voxels of the grid (`SeedsKept`), and that a task inside
`findVoxelPoint` is about a point the march asks for and has computed that point's
value (`Called`). `Invariant` proves it for any tree, any resolutions, whether or not
they divide the box, any unit of length and any number of tasks, and gives `FieldsAreFound` (`NeverThrows`: every
super-voxel of the grid overlaps the box, `EveryCellHasField`), `SeedsAreInGrid`
(`SeedsInGrid`: a seed is in the box short of its far end) and `CacheIsSound` (`CacheSound`: whichever task of a race inserts,
it inserts the same). `ReadsAreTrue` is `ReadsKeepSides`: what a task has computed and
what the cache holds is the pruned field's value at the point, and that is on the
right side by `PruningIsSound`.

**Blob tree and fields** (`SuperVoxelsProofs`, its middle sections).
`PruningIsSound` is about trees at rest, any that are `ModelOK`: in each cell a grid
point may be looked up in, the pruned field has the point on the side of the iso
value the whole field has it. The argument has four parts.

* What the loops compute. `LoopSteps` turns a loop into its turns; from it come
  what joining boxes contains (`JoinContains`), when a maximum or a minimum reaches
  a value (`MaxReaches`, `MinReaches`), and that a sum ignores zeros. Recursion over
  fields and nodes is unfolded once and for all: there are boxes as `box` says
  (`BoxesExist`), so `getBBox`, which chooses some, is what its recursion says
  (`BoxIsRecursive`); likewise for values, seeds and nodes. The induction is over
  the sets of indices for which a statement holds (`SetInduction`), which needs no
  operator as a parameter.
* Fields vanish outside their boxes (`FieldsVanish`): the filter is 0 from a
  distance of 1.0 on and nowhere negative (`FilterIsNat`), `expand` leaves that much, an operator of fields that
  vanish does, and so does a transform whose box is exact. In the same way every
  field has its seeds in its box, short of the far end (`SeedsInBoxes`).
* A cell has a pruned field exactly where the node's box overlaps it (`SubsAre`), and
  the new fields hold earlier ones, so their values are well defined too (`PoolIs`,
  `PoolIsEarlier`).
* A node's pruned field agrees with the whole at every point of the cell
  (`NodesAgree`, by induction over the nodes). A child that was dropped vanishes at
  the point, since the point is in the cell and so outside the child's box. A union
  and a blend do not miss a zero, but a blend adds values, so agreeing sides are not
  enough for it and `Agrees` asks for equal values there. This is why a blend is to
  have only leaves and blends under it: a union's box is joined, so a cell between
  its children may overlap the box and no child's, and the union is pruned to minus
  infinity, which a blend would add. An intersection does miss a zero, and is the
  one operator that is not pruned soundly in general: `Meet` says that where some
  child's box leaves a point out, another child is still there to have it outside.

`PointInCell` then puts every grid point into the cell `superVoxel` names for it, with
either rounding and at any two resolutions: in steps of both grids together the ends of
the cell are on either side of the point (`CoordinateInSuperVoxel`), and quotients keep
that order (`QuotientsInOrder`). And `JobIs` puts the parts together for what SuperVoxels is given.

**MarchingCubes** (`MarchingCubesProofs`). `Working` says that at most one cell has
the lock and the others have pushed nothing; with it, `Paired` says that a vertex
is ahead of its normal exactly while its cell is between the two pushes. That
gives `NormalsStay`. `Made` says that what is looked up in `fromTriangleSoup` is
numbered by its place and that the mesh is the soup as far as its indices go
(lemma `CornerAdded`), which gives `MeshIsSoup`, up to the buffers drawn from.

That the soup is complete needs to know whose each vertex is. `Owned` says that
there is an assignment of the vertices to cells and corners of their rows,
one-to-one, onto what has been pushed so far (`Due`), in which the vertices of a
triangle follow each other; `Steady` goes with it. The assignment is kept through
takes, locks and pushes in any order (`OwnedNext`), and at the end it lays out the
rows of all cells (`SoupLaid`), which is `SoupIsComplete` (`SoupComplete`). For
closure the cells are seen in a mirror: with y and z exchanged, an inner cell is a
voxel of the other polygonizer with the same case (`InnerCase`), and an outer
cell, whose corners are clamped, is empty since only the border is in it
(`OuterEmpty`). So the lemmas of `VoxelGridProofs` apply, and give `MeshIsWatertight`
(`Watertight`), and `MeshIsWoundOutward` (`WoundOutward`) because the mirror turns
every triangle round.

`ReloadIsTheMesh` (`ReloadKeepsMesh`) follows the file there and back. `FirstUse`: the
mesh numbers its vertices in the order its corners first use them, so the first k
corners use the first c of them, for a c that `UsedOnce` makes unique. `OnDisk`: the
file has the mesh's corners, and each vertex as it is or from its other end.
`ReadBack`: the corners read so far name what was printed for them, and the reader,
which numbers what it reads in the same order, has at most c vertices; if it has c,
no two lines coincided and every corner kept its number (`CornerRead`). So the
triangles are those of the mesh whatever print does, and the mesh is the same if
the numbers of vertices are.

**Shaders** (`ShaderReloadProofs`). `NothingLeaks` is proved from `Kept`: the shader
of the unit that is being compiled is deleted already. `ReloadsAreWhole` is
proved from `Whole`, which holds while nothing has failed: the shaders alive are
those of the units made so far, one each and all attached (`Attachment`,
`Pairing`), and between frames they are the ones linked (`Progress`). `TypesAreKept`
(`TypeOK`) is proved from `Types`, which adds that times do not run backwards.
`SavesAreNotLost` (`SourceFresh`) needs to know why a stamp shows a later save. `Sourced`
follows the reading of a unit: the root's stamp is its first, and the stamp of an
included file is taken before its text. From it `Alive`: each text of a unit that
is not waiting is `Backed`, by a stamp no later than the text read, so a save made
after the text is later than the stamp, or in its second. All for any
number of units, of included files and of seconds.

**Application** (`ApplicationProofs`). `Inv` is the conjunction of `TypeOK` and the
three properties with `Start` (before the window runs no time has passed) and
`NoScissor` (between frames). `TimeStandsStill`, `FramesAreReady` and `DragsEnd` follow,
for any number of scenes. The step to read for clocks and sizes is
`nextScene`, and for drags `Release`, which another scene may be told of.

Assumptions, all of them evaluated by TLC in the runs of their modules:

* `GridSizeAssumption`, the `JobsAssumption` of each module, `SurfacesAssumption`,
  `BuildAssumption`, `ScenesAssumption`, `ReloadAssumption`, `ApplicationAssumption`,
  `HashBaseAssumption`, `UnitAssumption` and `ResolutionsAssumption` give the constants their types (`SurfacesAssumption` also
  that no voxel is repeated, which is `NoRepeats`; `ScenesAssumption` that a surface
  lies inside its grid).
* `TablesAssumption`, `RowsAssumption`, `PatchesAssumption`, `FacesAssumption` and
  `WindingAssumption` are facts about the 256 rows of the tables, without a bound:
  TLC's evaluation of them is exhaustive.
* `WholeAssumption` is proved of the march, as said above.
* `ModelsAssumption` is that each tree is `ModelOK`. It says how trees are made: fields hold
  earlier ones, a node with children mirrors its operator's fields, a torus is
  centred where its box is, a blend's node has only leaves and blends under it, and
  `Meet` of an intersection. The last three are no laws of the code; they hold for
  the nine models of the program, where TLC evaluates them. A transform scales the
  line up or down without mirroring it, and the ends of its box are whole numbers:
  the unit of length, which any theorem leaves open, is to be fine enough for that.
* `IsoAssumption` is that the iso value is positive: where no field is, the whole is
  0 and an empty union minus infinity, and only a positive iso value is above both.

Model-checked only:

* `EndsUnlessWalking`, `Completes`, `CallsReturn` and `EditNoticed`: liveness.
* `TablesAgree`, `PatchClosedInside` and `PatchesMeet`: facts about 256 cases and
  the pairs of them, which the run `tables` visits to the last; there is no
  constant in them for a theorem to be general in.

## 7. Not modelled

* Reconfiguration: `setResolution`, `setIsoValue` and `setModel` after a run, and
  the move constructors. They leave caches behind, but the program sets each
  polygonizer up once and moves it only before that.
* What the language leaves undefined in an unlocked search of a `std::map`: the
  models let the search miss entries, and do not crash.
* Scalars, gradients, interpolation; fields off the line of VolumeTree: numeric,
  without control.
* Files: a source replaced by another file of its name (sources edited in place
  and removed are modelled), saves in the same second (excepted in
  `SourceFresh`), sources given as strings, `parseErrorLog`.
* The window: `previousScene`, which the branch for Tab hides; zoom, fields of view
  and matrices; keys, wheel and clipboard of the GUI; the order in which GLFW and
  the scenes are destroyed at exit.
* The widgets and drawing commands of the visualizer, and the driver, which is a
  fixed sequence of calls.
* Wrappers of OpenGL, logs and timers: I/O. `lib/atlas/external`: third-party.

## 8. Plan

Done: the march, tables and assembly and their composition; super-voxels, point
cache and blob tree; the second polygonizer and its mesh; shaders, window and
scenes; with the proofs of section 6. What would come next:

1. VolumeTree off its line: boxes in three dimensions, where pruning by a box
   could lose a corner of it, and the transforms that turn.
2. The reconfiguration of a polygonizer that has run, once something in the
   program does it.
