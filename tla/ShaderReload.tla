------------------------------ MODULE ShaderReload ------------------------------
(* A shader program whose source files are edited while it is drawn with       *)
(* (atlas/gl/Shader.cpp, used by ModelView.cpp). A unit is one shader of the    *)
(* program, read from a root file and the files it includes; each frame         *)
(* compares the time stamps of the files read with those on disk, and compiles  *)
(* and links the units that changed, one by one.                                *)
(*                                                                              *)
(* A text is an edit's number and whether it compiles. Files are edited in place *)
(* at any moment, also between the reading of a stamp and of the text, and may   *)
(* be removed. Names of shaders are given out again by OpenGL once deleted.     *)
EXTENDS Naturals, Sequences, FiniteSets, Functions

CONSTANTS Unit,      \* the units of the program, 1..n as in shaderUnits
          Files,     \* for each unit, its root file and what that includes, in order
          Handle,    \* names of shaders, none of them 0
          MaxEdits,  \* bound: edits of the disk
          MaxTime    \* bound: seconds that pass

ASSUME ReloadAssumption ==
  /\ IsFiniteSet(Unit) /\ Unit = 1 .. Cardinality(Unit)
  /\ Files \in [Unit -> Seq(STRING) \ {<<>>}]
  /\ Handle \subseteq Nat \ {0} /\ Cardinality(Handle) >= Cardinality(Unit)
  /\ MaxEdits \in Nat /\ MaxTime \in Nat \ {0}

VARIABLES disk,      \* for each file, the edit, its kind and its st_mtime
          now,       \* the second the clock shows
          entries,   \* unit.includedFiles: files with the stamps recorded
          handle,    \* unit.handle, 0 for none
          hot,       \* isHotReloadAvailable
          program,   \* shaderProgram: whether it is not 0
          attached,  \* the shaders attached to it
          live,      \* the shaders OpenGL keeps: name -> unit and texts compiled
          exe,       \* what the last link gave: the shaders in it, or NoExe
          stage,     \* where the thread is
          queue,     \* units still to compile
          first,     \* in initShaders, which links once, after all units
          todo,      \* files of the unit compiling still to read
          stamped,   \* whether Head(todo) has had its stamp taken
          text,      \* what has been read
          ret,       \* what the last call returned
          located,   \* mUniforms: whether initShaders found the uniforms
          failed     \* history: a compilation or a link has failed

env == <<disk, now>>
gl == <<program, attached, live, exe>>
unit == <<entries, handle, hot>>
thread == <<stage, queue, first, todo, stamped, text, ret, located, failed>>
vars == <<disk, now, entries, handle, hot, program, attached, live, exe,
          stage, queue, first, todo, stamped, text, ret, located, failed>>

File == UNION {Range(Files[u]) : u \in Unit}
Kind == {"good", "bad"}
NoExe == <<>>
(* Units are compiled in the order of shaderUnits. *)
compiling == CHOOSE u \in queue : \A v \in queue : u <= v
others == queue \ {compiling}
Edits == 0 .. MaxEdits
Text == [file : File, edit : Edits, kind : Kind, mtime : 0 .. MaxTime]
Stamps(u, f) == {e.stamp : e \in {x \in Range(entries[u]) : x.file = f}}
Edited == CHOOSE n \in {disk[f].edit : f \in File} : \A f \in File : disk[f].edit <= n

--------------------------------------------------------------------------------
(* The constructor of Shader, and ModelView::initShaders about to compile. *)
Init ==
  /\ disk = [f \in File |-> [edit |-> 0, kind |-> "good", mtime |-> 1, there |-> TRUE]] /\ now = 1
  /\ entries = [u \in Unit |-> <<>>] /\ handle = [u \in Unit |-> 0] /\ hot = TRUE
  /\ program = FALSE /\ attached = {} /\ live = <<>> /\ exe = NoExe
  /\ stage = "next" /\ queue = Unit /\ first = TRUE
  /\ todo = <<>> /\ stamped = FALSE /\ text = <<>>
  /\ ret = FALSE /\ located = FALSE /\ failed = FALSE

(* Somebody saves a file, or removes one: bound, only one. *)
Edit(f, k) ==
  /\ disk[f].there /\ Edited < MaxEdits
  /\ disk' = [disk EXCEPT ![f] = [edit |-> Edited + 1, kind |-> k, mtime |-> now, there |-> TRUE]]
  /\ UNCHANGED <<now, gl, unit, thread>>
Unlink(f) ==
  /\ \A g \in File : disk[g].there
  /\ disk' = [disk EXCEPT ![f].there = FALSE]
  /\ UNCHANGED <<now, gl, unit, thread>>
Tick ==
  /\ now < MaxTime /\ now' = now + 1
  /\ UNCHANGED <<disk, gl, unit, thread>>

(* getFileTimeStamp: a file that cannot be found turns hot reloading off. *)
(* A fault: the clock for the stamp. *)
StampOfClock(f) == IF hot /\ disk[f].there THEN now ELSE 0
StampOf(f) == IF hot /\ disk[f].there THEN disk[f].mtime ELSE 0

(* The shaders of a set of units detached and deleted. What is no shader of the *)
(* program, or of OpenGL any more, only raises an error there.                  *)
(* A fault: they stay attached. *)
DeletedAttached(hs) ==
  /\ attached' = attached
  /\ live' = Restrict(live, DOMAIN live \ hs)
Deleted(hs) ==
  /\ attached' = attached \ hs
  /\ live' = Restrict(live, DOMAIN live \ hs)

(* compileShaders up to where readShaderSource has opened the root file. A file *)
(* that cannot be opened throws, out of the frame and of main's loop.           *)
Begin ==
  /\ stage = "next" /\ queue # {}
  /\ program' = TRUE
  /\ Deleted({handle[compiling]})
  /\ stage' = IF disk[Files[compiling][1]].there THEN "read" ELSE "thrown"
  /\ todo' = Files[compiling] /\ stamped' = FALSE /\ text' = <<>>
  /\ UNCHANGED <<env, unit, exe, queue, first, ret, located, failed>>

(* The stamp of the root is taken the first time only, once it is open, that of *)
(* an included file every time the unit is compiled, before it is opened.       *)
AtRoot == text = <<>>
NeedsStamp == ~stamped /\ (AtRoot => entries[compiling] = <<>>)
Recorded(f) == entries' = [entries EXCEPT ![compiling] = Append(@, [file |-> f, stamp |-> StampOf(f)])]
Stamp ==
  /\ stage = "read" /\ todo # <<>> /\ NeedsStamp
  /\ Recorded(Head(todo)) /\ stamped' = TRUE /\ hot' = (hot /\ disk[Head(todo)].there)
  /\ UNCHANGED <<env, gl, handle, stage, queue, first, todo, text, ret, located, failed>>

(* A text that does not compile may have lost its #include lines. *)
Read ==
  /\ stage = "read" /\ todo # <<>> /\ ~NeedsStamp
  /\ LET t == disk[Head(todo)] IN
     /\ AtRoot \/ t.there
     /\ text' = Append(text, [file |-> Head(todo), edit |-> t.edit,
                              kind |-> t.kind, mtime |-> t.mtime])
     /\ \/ todo' = Tail(todo)
        \/ t.kind = "bad" /\ todo' = <<>>
  /\ stamped' = FALSE
  /\ UNCHANGED <<env, gl, unit, stage, queue, first, ret, located, failed>>
Throw ==
  /\ stage = "read" /\ todo # <<>> /\ ~NeedsStamp
  /\ ~AtRoot /\ ~disk[Head(todo)].there /\ stage' = "thrown"
  /\ UNCHANGED <<env, gl, unit, queue, first, todo, stamped, text, ret, located, failed>>

(* Whether the units left are compiled before the link. *)
(* A fault: only initShaders links. *)
AfterUnitUnlinked == IF others # {} THEN "next" ELSE IF first THEN "link" ELSE "idle"
AfterUnit == IF first /\ others # {} THEN "next" ELSE "link"
Compiled == stage = "read" /\ todo = <<>>
(* A fault: the unit is not told the name of its shader. *)
CompileGoodUnnamed ==
  /\ Compiled /\ \A t \in Range(text) : t.kind = "good"
  /\ \E h \in Handle \ DOMAIN live :
       /\ live' = [x \in DOMAIN live \cup {h} |->
                     IF x = h THEN [unit |-> compiling, text |-> text] ELSE live[x]]
       /\ attached' = attached \cup {h}
  /\ queue' = others /\ stage' = AfterUnit /\ text' = <<>>
  /\ UNCHANGED <<env, unit, program, exe, first, todo, stamped, ret, located, failed>>
(* The new shader has a name that is free. *)
CompileGood ==
  /\ Compiled /\ \A t \in Range(text) : t.kind = "good"
  /\ \E h \in Handle \ DOMAIN live :
       /\ live' = [x \in DOMAIN live \cup {h} |->
                     IF x = h THEN [unit |-> compiling, text |-> text] ELSE live[x]]
       /\ attached' = attached \cup {h}
       /\ handle' = [handle EXCEPT ![compiling] = h]
  /\ queue' = others /\ stage' = AfterUnit /\ text' = <<>>
  /\ UNCHANGED <<env, entries, hot, program, exe, first, todo, stamped, ret, located, failed>>

(* The failed shader is deleted again, and with it the whole program; the unit   *)
(* keeps the name of the shader it had. initShaders gives the other units up.    *)
CompileBad ==
  /\ Compiled /\ \E t \in Range(text) : t.kind # "good"
  /\ program' = FALSE /\ attached' = {} /\ exe' = NoExe
  /\ queue' = IF first THEN {} ELSE others
  /\ stage' = "link" /\ failed' = TRUE /\ text' = <<>>
  /\ UNCHANGED <<env, unit, live, first, todo, stamped, ret, located>>

(* initShaders asks for the uniforms once it has linked, and never again. *)
AfterLink ==
  /\ stage' = IF queue # {} THEN "next" ELSE IF first THEN "idle" ELSE "draw"
  /\ first' = FALSE /\ located' = IF first THEN ret' ELSE located
  /\ UNCHANGED <<env, unit, queue, todo, stamped, text>>
LinkNothing ==
  /\ stage = "link" /\ ~program /\ ret' = FALSE /\ AfterLink
  /\ UNCHANGED <<gl, failed>>
(* The linker takes what is attached, a shader for each unit or not. *)
LinkGood ==
  /\ stage = "link" /\ program /\ ret' = TRUE /\ AfterLink
  /\ exe' = Restrict(live, attached)
  /\ UNCHANGED <<program, attached, live, failed>>
(* deleteShaders: every unit's shader goes, the program and the names stay. *)
LinkBad ==
  /\ stage = "link" /\ program /\ ret' = FALSE /\ failed' = TRUE /\ AfterLink
  /\ exe' = NoExe /\ Deleted(Range(handle))
  /\ UNCHANGED program

(* hotReloadShaders compares the stamps of all files read, in order; once one    *)
(* cannot be found the stamps of the others are not read either.                *)
Entry == UNION {{<<u, i>> : i \in DOMAIN entries[u]} : u \in Unit}
At(p) == entries[p[1]][p[2]]
Before(p, q) == p[1] < q[1] \/ (p[1] = q[1] /\ p[2] <= q[2])
Found(p) == \A q \in Entry : Before(q, p) => disk[At(q).file].there
(* A fault: only the root files are compared. *)
NewerRoot(p) == p[2] = 1 /\ Found(p) /\ disk[At(p).file].mtime > At(p).stamp
Newer(p) == Found(p) /\ disk[At(p).file].mtime > At(p).stamp
Check ==
  /\ stage = "idle" /\ hot
  /\ LET newer == {p \in Entry : Newer(p)} IN
     /\ entries' = [u \in Unit |-> [i \in DOMAIN entries[u] |->
                      IF <<u, i>> \in newer
                      THEN [At(<<u, i>>) EXCEPT !.stamp = disk[At(<<u, i>>).file].mtime]
                      ELSE entries[u][i]]]
     /\ queue' = {p[1] : p \in newer}
     /\ stage' = IF newer = {} THEN "draw" ELSE "next"
     /\ ret' = FALSE
  /\ hot' = (\A p \in Entry : Found(p))
  /\ UNCHANGED <<env, gl, handle, first, todo, stamped, text, located, failed>>
CheckNothing ==
  /\ stage = "idle" /\ ~hot /\ stage' = "draw" /\ ret' = FALSE
  /\ UNCHANGED <<env, gl, unit, queue, first, todo, stamped, text, located, failed>>

(* The rest of renderGeometry, which draws nothing without a program. *)
Draw ==
  /\ stage = "draw" /\ stage' = "idle"
  /\ UNCHANGED <<env, gl, unit, queue, first, todo, stamped, text, ret, located, failed>>

(* ~Shader, when the window is closed between two frames. *)
Destroy ==
  /\ stage = "idle" /\ stage' = "destroyed"
  /\ Deleted(Range(handle)) /\ program' = FALSE /\ exe' = NoExe
  /\ UNCHANGED <<env, unit, queue, first, todo, stamped, text, ret, located, failed>>

Thread == Begin \/ Stamp \/ Throw \/ Read \/ CompileGood \/ CompileBad
          \/ LinkNothing \/ LinkGood \/ LinkBad \/ Check \/ CheckNothing \/ Draw
Ended == stage \in {"thrown", "destroyed"} /\ UNCHANGED vars
Next == (\E f \in File : Unlink(f) \/ \E k \in Kind : Edit(f, k)) \/ Tick \/ Thread \/ Destroy \/ Ended

--------------------------------------------------------------------------------
(* Every variable keeps its type: in particular every file named is one of the *)
(* program's, every shader of the program is alive, and no name is 0 but that of *)
(* a unit that was never compiled.                                              *)
TypeOK ==
  /\ disk \in [File -> [edit : Edits, kind : Kind, mtime : 1 .. MaxTime, there : BOOLEAN]]
  /\ \A u \in Unit : \A e \in Range(entries[u]) : e.file \in Range(Files[u]) /\ e.stamp <= now
  /\ handle \in [Unit -> Handle \cup {0}]
  /\ DOMAIN live \subseteq Handle /\ attached \subseteq DOMAIN live
  /\ \A h \in DOMAIN live : live[h].unit \in Unit /\ Range(live[h].text) \subseteq Text
  /\ ~program => attached = {} /\ exe = NoExe
  /\ {hot, program, first, stamped, ret, located, failed} \subseteq BOOLEAN
  /\ stage \in {"next", "read", "link", "draw", "idle", "thrown", "destroyed"}
  /\ queue \subseteq Unit /\ Range(todo) \subseteq File /\ Range(text) \subseteq Text
  /\ now \in 1 .. MaxTime

(* When a frame is drawn, as long as nothing has failed, the text of a file that the   *)
(* program runs is the one on disk, or older than a save its stamps will show,   *)
(* or shares its second with the save it misses: no other edit is ever lost,     *)
(* whenever it is made (Shader.cpp:76, 108, 539-551).                             *)
SourceFresh ==
  stage = "draw" /\ ~failed /\ hot =>
    \A u \in Unit : LET t == exe[handle[u]].text IN \A i \in DOMAIN t :
      LET d == disk[t[i].file] IN
        \/ t[i].edit = d.edit
        \/ \E s \in Stamps(u, t[i].file) : s < d.mtime
        \/ t[i].mtime = d.mtime

(* As long as nothing has failed, units recompiled one at a time leave the        *)
(* program whole: it consists of one living shader for each unit, each linked,    *)
(* and the uniforms that are set were found (Shader.cpp:213-268, 454-483,         *)
(* ModelView.cpp:432-437).                                                      *)
ProgramWhole ==
  stage = "draw" /\ ~failed =>
    /\ program /\ located /\ IsInjective(handle) /\ attached = Range(handle)
    /\ exe = live /\ \A u \in Unit : exe[handle[u]].unit = u

(* Whatever fails, no shader is lost: each that OpenGL keeps is one a unit names,  *)
(* so that none is left when the Shader is destroyed (Shader.cpp:240-267, 383-399).  *)
(* A shader made for a file that then throws is not counted: it has no text yet.  *)
NoLeak == DOMAIN live \subseteq Range(handle) /\ (stage = "destroyed" => live = <<>>)

(* Any save later than a unit's stamps is noticed, or hot reloading is off, or the *)
(* window gone (Shader.cpp:535-551).                                            *)
Overlooked(u, f) == \E s \in Stamps(u, f) : s < disk[f].mtime
EditNoticed ==
  \A u \in Unit : \A f \in Range(Files[u]) :
    Overlooked(u, f) ~> (~Overlooked(u, f) \/ ~hot \/ stage \in {"thrown", "destroyed"})

(* "True if the shaders were reloaded, false otherwise": when the last call        *)
(* returned true the program linked has a shader for every unit (Shader.hpp).      *)
TrueMeansReloaded == ret /\ stage = "draw" => {exe[h].unit : h \in DOMAIN exe} = Unit

--------------------------------------------------------------------------------
Spec == Init /\ [][Next]_vars
(* Frames go on for as long as the window is open. *)
FairSpec == Spec /\ WF_vars(Thread)
================================================================================
