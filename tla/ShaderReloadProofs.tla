--------------------------- MODULE ShaderReloadProofs ---------------------------
(* Proofs about the reloading of shaders, for any number of units and files, and  *)
(* however their sources are edited.                                              *)
EXTENDS ShaderReload, TLAPS, FiniteSetTheorems, WellFoundedInduction

(* No shader is lost, and the one being made again is deleted already. *)
Kept ==
  /\ handle \in [Unit -> Handle \cup {0}] /\ queue \subseteq Unit
  /\ DOMAIN live \subseteq Range(handle)
  /\ stage = "read" => queue # {} /\ handle[compiling] \notin DOMAIN live
  /\ stage = "destroyed" => live = <<>>

(* The units that have a shader: at first those out of the queue, later all but   *)
(* the one being made again.                                                      *)
Made == Unit \ (IF first THEN queue ELSE IF stage = "read" THEN {compiling} ELSE {})

(* As long as nothing fails the shaders alive are those of the units made, one    *)
(* each, all attached; and between two frames they are the ones linked.           *)
Attachment == attached = DOMAIN live /\ live = [h \in DOMAIN live |-> live[h]]
Pairing ==
  /\ DOMAIN live = {handle[u] : u \in Made}
  /\ \A u \in Made : live[handle[u]].unit = u
  /\ \A u \in Unit \ Made : handle[u] \notin DOMAIN live
Progress ==
  /\ (stage # "next" \/ ~first) => program
  /\ ~first => located
  /\ first => \A u \in queue : handle[u] = 0
  /\ stage = "link" /\ first => queue = {}
  /\ stage \in {"idle", "draw"} => ~first /\ exe = live
Whole == Attachment /\ Pairing /\ Progress
Undisturbed == ~failed /\ stage \notin {"thrown", "destroyed"}

--------------------------------------------------------------------------------
LEMMA UnitsAreNaturals == Unit \subseteq Nat
  <1>1. Cardinality(Unit) \in Nat
    BY ReloadAssumption, FS_CardinalityType
  <1>2. QED
    BY <1>1, ReloadAssumption

(* The unit that is compiled next is one of the queue. *)
LEMMA CompilingQueued ==
  ASSUME queue \subseteq Unit, queue # {}
  PROVE  compiling \in queue
  <1>1. queue \subseteq Nat
    BY UnitsAreNaturals
  <1>2. PICK u \in queue : \A v \in queue : ~(<<v, u>> \in OpToRel(<, Nat))
    BY <1>1, NatLessThanWellFounded, WFMin
  <1>3. ASSUME NEW v \in queue PROVE u <= v
    <2>1. u \in Nat /\ v \in Nat /\ <<v, u>> \in Nat \X Nat
      BY <1>1
    <2>2. ~(<<v, u>> \in { ss \in Nat \X Nat : ss[1] < ss[2] })
      BY <1>2 DEF OpToRel
    <2>3. v < u => <<v, u>> \in { ss \in Nat \X Nat : ss[1] < ss[2] }
      BY <2>1
    <2>4. QED
      BY <2>1, <2>2, <2>3
  <1>4. QED
    BY <1>3 DEF compiling

LEMMA KeptAtStart == Init => Kept
  BY DEF Init, Kept

LEMMA KeptNext == Kept /\ [Next]_vars => Kept'
  <1> SUFFICES ASSUME Kept, [Next]_vars PROVE Kept'
    OBVIOUS
  <1> USE DEF Kept, gl, unit, env, thread
  <1>1. CASE Begin
    <2>1. compiling \in Unit /\ compiling' = compiling
      BY <1>1, CompilingQueued DEF Begin, compiling
    <2>2. DOMAIN live' = DOMAIN live \ {handle[compiling]}
      BY <1>1 DEF Begin, Deleted, Restrict
    <2>3. QED
      BY <1>1, <2>1, <2>2 DEF Begin
  <1>2. CASE CompileGood
    <2>1. stage = "read" /\ compiling \in Unit
      BY <1>2, CompilingQueued DEF CompileGood, Compiled
    <2>2. PICK h \in Handle : /\ DOMAIN live' = DOMAIN live \cup {h}
                             /\ handle' = [handle EXCEPT ![compiling] = h]
      BY <1>2 DEF CompileGood
    <2>3. ASSUME NEW x \in DOMAIN live PROVE x \in Range(handle')
      <3>1. PICK v \in Unit : x = handle[v]
        BY <2>3 DEF Range
      <3>2. v # compiling
        BY <2>1, <2>3, <3>1
      <3>3. QED
        BY <2>2, <3>1, <3>2 DEF Range
    <2>4. h \in Range(handle')
      BY <2>1, <2>2 DEF Range
    <2>5. handle' \in [Unit -> Handle \cup {0}] /\ DOMAIN live' \subseteq Range(handle')
      BY <2>2, <2>3, <2>4
    <2>6. queue' \subseteq Unit /\ stage' \in {"next", "link"}
      BY <1>2 DEF CompileGood, others, AfterUnit
    <2>7. QED
      BY <2>5, <2>6
  <1>3. CASE CompileBad
    BY <1>3 DEF CompileBad, others
  <1>4. CASE LinkNothing \/ LinkGood
    BY <1>4 DEF LinkNothing, LinkGood, AfterLink
  <1>5. CASE LinkBad
    <2>1. DOMAIN live' = {}
      BY <1>5 DEF LinkBad, Deleted, Restrict
    <2>2. QED
      BY <1>5, <2>1 DEF LinkBad, AfterLink
  <1>6. CASE Destroy
    <2>1. live' = <<>>
      BY <1>6 DEF Destroy, Deleted, Restrict
    <2>2. QED
      BY <1>6, <2>1 DEF Destroy
  <1>7. CASE Check
    <2>1. queue' \subseteq Unit
      BY <1>7 DEF Check, Entry
    <2>2. QED
      BY <1>7, <2>1 DEF Check
  <1>8. CASE Stamp \/ Read
    <2>1. compiling' = compiling
      BY <1>8 DEF Stamp, Read, compiling
    <2>2. QED
      BY <1>8, <2>1 DEF Stamp, Read
  <1>9. CASE Throw \/ CheckNothing \/ Draw
    BY <1>9 DEF Throw, CheckNothing, Draw
  <1>10. CASE Ended \/ Tick \/ (\E f \in File : Unlink(f) \/ \E k \in Kind : Edit(f, k)) \/ UNCHANGED vars
    <2>1. UNCHANGED <<handle, queue, live, stage>>
      BY <1>10 DEF Ended, Tick, Unlink, Edit, vars
    <2>2. QED
      BY <2>1 DEF compiling
  <1>11. QED
    BY <1>1, <1>2, <1>3, <1>4, <1>5, <1>6, <1>7, <1>8, <1>9, <1>10 DEF Next, Thread

(* Whatever fails and whenever, every shader OpenGL keeps is one a unit names,    *)
(* and none is left behind (Shader.cpp:240-267, 383-399).                         *)
THEOREM NothingLeaks == Spec => []NoLeak
  <1>1. Kept => NoLeak
    BY DEF Kept, NoLeak
  <1>2. QED
    BY <1>1, KeptAtStart, KeptNext, PTL DEF Spec

--------------------------------------------------------------------------------
LEMMA WholeAtStart == Init => Whole
  <1> SUFFICES ASSUME Init PROVE Whole
    OBVIOUS
  <1>1. Made = {} /\ DOMAIN live = {} /\ live = [h \in {} |-> live[h]]
    BY DEF Init, Made
  <1>2. \A u \in Unit : handle[u] \notin DOMAIN live
    BY <1>1
  <1>3. QED
    BY <1>1, <1>2 DEF Init, Whole, Attachment, Pairing, Progress

LEMMA BeginWhole ==
  ASSUME Kept, Undisturbed, Whole, Begin, Undisturbed'
  PROVE  Whole'
  <1> USE DEF Begin, Deleted, gl, unit, env
  <1>1. compiling \in queue /\ compiling \in Unit /\ compiling' = compiling
    BY CompilingQueued DEF Kept, compiling
  <1>2. stage = "next" /\ stage' = "read" /\ program' /\ UNCHANGED <<first, queue, handle, located>>
    BY DEF Undisturbed
  <1>3. live' = [h \in DOMAIN live \ {handle[compiling]} |-> live[h]]
        /\ DOMAIN live' = DOMAIN live \ {handle[compiling]}
        /\ attached' = attached \ {handle[compiling]}
    BY DEF Restrict
  <1>4. Made' = Made \ {compiling}
    BY <1>1, <1>2 DEF Made
  <1>5. \A u \in Unit \ {compiling} : u \in Made => handle[u] # handle[compiling]
    BY <1>1 DEF Whole, Attachment, Pairing, Progress, Kept
  <1>6. DOMAIN live' = {handle'[u] : u \in Made'}
    <2>1. Made \subseteq Unit
      BY DEF Made
    <2>2. DOMAIN live' = {handle[u] : u \in Made} \ {handle[compiling]}
      BY <1>3 DEF Whole, Attachment, Pairing, Progress
    <2>3. {handle[u] : u \in Made} \ {handle[compiling]} = {handle[u] : u \in Made \ {compiling}}
      BY <1>5, <2>1
    <2>4. QED
      BY <1>2, <1>4, <2>2, <2>3
  <1>7. \A u \in Made' : live'[handle'[u]].unit = u
    BY <1>2, <1>3, <1>4, <1>6 DEF Whole, Attachment, Pairing, Progress
  <1>8. \A u \in Unit \ Made' : handle'[u] \notin DOMAIN live'
    BY <1>2, <1>3, <1>4 DEF Whole, Attachment, Pairing, Progress
  <1>9. live' = [h \in DOMAIN live' |-> live'[h]] /\ attached' = DOMAIN live'
    BY <1>3 DEF Whole, Attachment, Pairing, Progress
  <1>10. Progress'
    BY <1>2 DEF Whole, Attachment, Pairing, Progress
  <1> HIDE DEF Begin, Deleted
  <1>11. QED
    <2>1. Attachment'
      BY <1>9 DEF Attachment
    <2>2. Pairing'
      BY <1>6, <1>7, <1>8 DEF Pairing
    <2>3. QED
      BY <2>1, <2>2, <1>10 DEF Whole

LEMMA CompileWhole ==
  ASSUME Kept, Undisturbed, Whole, CompileGood
  PROVE  Whole'
  <1> USE DEF CompileGood, Compiled
  <1>1. stage = "read" /\ compiling \in queue /\ compiling \in Unit /\ handle[compiling] \notin DOMAIN live
    BY CompilingQueued DEF Kept
  <1>2. PICK h \in Handle \ DOMAIN live :
          /\ live' = [x \in DOMAIN live \cup {h} |->
                        IF x = h THEN [unit |-> compiling, text |-> text] ELSE live[x]]
          /\ attached' = attached \cup {h}
          /\ handle' = [handle EXCEPT ![compiling] = h]
    OBVIOUS
  <1>3. /\ stage' \in {"next", "link"} /\ queue' = queue \ {compiling}
        /\ stage' = "link" /\ first => queue' = {}
        /\ UNCHANGED <<first, program, located>>
    BY DEF AfterUnit, others
  <1>4. Made' = Made \cup {compiling} /\ compiling \notin Made
    BY <1>1, <1>3 DEF Made, Kept
  <1>5. handle'[compiling] = h /\ \A u \in Unit \ {compiling} : handle'[u] = handle[u]
    BY <1>1, <1>2 DEF Kept
  <1>6. DOMAIN live' = DOMAIN live \cup {h}
        /\ live'[h].unit = compiling /\ \A x \in DOMAIN live : live'[x] = live[x]
    BY <1>2
  <1>7. Made \subseteq Unit
    BY DEF Made
  <1>8. DOMAIN live' = {handle'[u] : u \in Made'}
    <2>1. DOMAIN live' = {handle[u] : u \in Made} \cup {h}
      BY <1>6 DEF Whole, Attachment, Pairing, Progress
    <2>2. \A u \in Made : handle'[u] = handle[u]
      BY <1>4, <1>5, <1>7
    <2>3. QED
      BY <1>4, <1>5, <2>1, <2>2
  <1>9. \A u \in Made' : live'[handle'[u]].unit = u
    BY <1>1, <1>4, <1>5, <1>6, <1>7 DEF Whole, Attachment, Pairing, Progress
  <1>10. \A u \in Unit \ Made' : handle'[u] \notin DOMAIN live'
    <2> SUFFICES ASSUME NEW u \in Unit \ Made', handle'[u] \in DOMAIN live' PROVE FALSE
      OBVIOUS
    <2>1. u # compiling /\ u \notin Made /\ handle[u] = handle'[u]
      BY <1>4, <1>5
    <2>2. handle[u] = h
      BY <2>1, <1>6 DEF Whole, Attachment, Pairing, Progress
    <2>3. first /\ u \in queue
      BY <1>1, <2>1 DEF Made
    <2>4. h # 0
      BY ReloadAssumption
    <2>5. QED
      BY <2>2, <2>3, <2>4 DEF Whole, Attachment, Pairing, Progress
  <1>11. live' = [x \in DOMAIN live' |-> live'[x]] /\ attached' = DOMAIN live'
    BY <1>2, <1>6 DEF Whole, Attachment, Pairing, Progress
  <1>12. Progress'
    BY <1>1, <1>3, <1>5 DEF Whole, Attachment, Pairing, Progress
  <1> HIDE DEF CompileGood, Compiled
  <1>13. QED
    <2>1. Attachment'
      BY <1>11 DEF Attachment
    <2>2. Pairing'
      BY <1>8, <1>9, <1>10 DEF Pairing
    <2>3. QED
      BY <2>1, <2>2, <1>12 DEF Whole

LEMMA WholeNext ==
  Kept /\ (Undisturbed => Whole) /\ [Next]_vars => (Undisturbed' => Whole')
  <1> SUFFICES ASSUME Kept, Undisturbed => Whole, [Next]_vars, Undisturbed' PROVE Whole'
    OBVIOUS
  <1> USE DEF gl, unit, env, thread
  <1>1. CASE Begin
    BY <1>1, BeginWhole DEF Undisturbed, Begin
  <1>2. CASE CompileGood
    BY <1>2, CompileWhole DEF Undisturbed, CompileGood, Compiled
  <1>3. CASE CompileBad \/ LinkBad \/ Throw \/ Destroy
    BY <1>3 DEF CompileBad, LinkBad, Throw, Destroy, Undisturbed
  <1>4. CASE LinkNothing
    BY <1>4 DEF LinkNothing, Undisturbed, Whole, Attachment, Pairing, Progress
  <1>5. CASE LinkGood
    <2>1. Whole /\ stage = "link" /\ (first => queue = {})
      BY <1>5 DEF LinkGood, Undisturbed, Whole, Attachment, Pairing, Progress
    <2>2. Made = Unit
      BY <2>1 DEF Made
    <2>3. /\ first' = FALSE /\ stage' \in {"next", "idle", "draw"} /\ located'
          /\ UNCHANGED <<program, attached, live, handle, queue>>
      BY <1>5, <2>1 DEF LinkGood, AfterLink, Whole, Attachment, Pairing, Progress
    <2>4. Made' = Unit
      BY <2>3 DEF Made
    <2>5. exe' = live
      BY <1>5, <2>1 DEF LinkGood, Restrict, Whole, Attachment, Pairing, Progress
    <2>6. program
      BY <1>5 DEF LinkGood
    <2>7. QED
      BY <2>1, <2>2, <2>3, <2>4, <2>5, <2>6 DEF Whole, Attachment, Pairing, Progress
  <1>6. CASE Check \/ CheckNothing \/ Draw
    <2>1. Whole /\ ~first /\ stage \in {"idle", "draw"}
      BY <1>6 DEF Check, CheckNothing, Draw, Undisturbed, Whole, Attachment, Pairing, Progress
    <2>2. stage' \in {"next", "idle", "draw"} /\ UNCHANGED <<first, located, program, attached, live, exe, handle>>
      BY <1>6 DEF Check, CheckNothing, Draw
    <2>3. Made = Unit /\ Made' = Unit
      BY <2>1, <2>2 DEF Made
    <2>4. QED
      BY <2>1, <2>2, <2>3 DEF Whole, Attachment, Pairing, Progress
  <1>7. CASE Stamp \/ Read
    <2>1. Whole /\ stage = "read" /\ UNCHANGED <<stage, queue, first, located, program, attached, live, exe, handle>>
      BY <1>7 DEF Stamp, Read, Undisturbed
    <2>2. Made' = Made
      BY <2>1 DEF Made, compiling
    <2>3. QED
      BY <2>1, <2>2 DEF Whole, Attachment, Pairing, Progress
  <1>8. CASE Ended \/ Tick \/ (\E f \in File : Unlink(f) \/ \E k \in Kind : Edit(f, k)) \/ UNCHANGED vars
    <2>1. UNCHANGED <<stage, queue, first, located, failed, program, attached, live, exe, handle>>
      BY <1>8 DEF Ended, Tick, Unlink, Edit, vars
    <2>2. Made' = Made /\ Whole
      BY <2>1 DEF Made, compiling, Undisturbed
    <2>3. QED
      BY <2>1, <2>2 DEF Whole, Attachment, Pairing, Progress
  <1>9. QED
    BY <1>1, <1>2, <1>3, <1>4, <1>5, <1>6, <1>7, <1>8 DEF Next, Thread

(* As long as nothing fails, every frame is drawn with a living shader for each   *)
(* unit, however many units a save makes again (Shader.cpp:213-268, 454-483).     *)
THEOREM ReloadsAreWhole == Spec => []ProgramWhole
  <1>1. (Undisturbed => Whole) /\ Kept => ProgramWhole
    <2> SUFFICES ASSUME Whole, Kept, stage = "draw", ~failed PROVE ProgramWhole
      BY DEF Undisturbed, ProgramWhole, Attachment, Pairing, Progress
    <2>1. Made = Unit /\ DOMAIN handle = Unit
      BY DEF Made, Whole, Attachment, Pairing, Progress, Kept
    <2>2. IsInjective(handle)
      BY <2>1 DEF IsInjective, Whole, Attachment, Pairing, Progress
    <2>3. attached = Range(handle)
      BY <2>1 DEF Whole, Attachment, Pairing, Progress, Range
    <2>4. QED
      BY <2>1, <2>2, <2>3 DEF ProgramWhole, Whole, Attachment, Pairing, Progress
  <1>2. QED
    BY <1>1, KeptAtStart, KeptNext, WholeAtStart, WholeNext, PTL DEF Spec
--------------------------------------------------------------------------------
(* What TypeOK needs to be kept: texts, stamps and what is still to read are       *)
(* sequences, and no stamp or file is of a later second than the one before it.     *)
Typed ==
  /\ disk \in [File -> [edit : Edits, kind : Kind, mtime : 1 .. MaxTime, there : BOOLEAN]]
  /\ now \in 1 .. MaxTime /\ \A f \in File : disk[f].mtime <= now
  /\ handle \in [Unit -> Handle \cup {0}] /\ queue \subseteq Unit
Booleans == {hot, program, first, stamped, ret, located, failed} \subseteq BOOLEAN
Staged == stage \in {"next", "read", "link", "draw", "idle", "thrown", "destroyed"}
Noted == [file : File, stamp : Nat]
Stamped ==
  /\ entries \in [Unit -> Seq(Noted)]
  /\ \A u \in Unit : \A i \in DOMAIN entries[u] :
       LET e == entries[u][i] IN e.file \in Range(Files[u]) /\ e.stamp <= disk[e.file].mtime
Shaders ==
  /\ DOMAIN live \subseteq Handle /\ attached \subseteq DOMAIN live
  /\ \A h \in DOMAIN live : live[h].unit \in Unit /\ live[h].text \in Seq(Text)
  /\ ~program => attached = {} /\ exe = NoExe /\ stage # "read"
Texts ==
  /\ todo \in Seq(File) /\ text \in Seq(Text)
  /\ stage = "read" => Range(todo) \subseteq Range(Files[compiling])
Types == Typed /\ Booleans /\ Staged /\ Stamped /\ Shaders /\ Texts

(* The files of a unit are files of the program, the root one among them. *)
LEMMA FilesOfUnit ==
  ASSUME NEW u \in Unit
  PROVE  /\ Files[u] \in Seq(File) /\ Files[u] # <<>>
         /\ Range(Files[u]) \subseteq File /\ Files[u][1] \in File
  <1>1. Files[u] \in Seq(STRING) /\ Files[u] # <<>>
    BY ReloadAssumption
  <1>2. Range(Files[u]) \subseteq File
    BY DEF File
  <1>3. \A i \in 1 .. Len(Files[u]) : Files[u][i] \in File
    BY <1>1, <1>2 DEF Range
  <1>4. QED
    BY <1>1, <1>2, <1>3

(* Numbers up to a bound have a greatest one. *)
LEMMA GreatestNumber ==
  ASSUME NEW m \in Nat, NEW S \in SUBSET (0 .. m), NEW s \in S
  PROVE  \E n \in S : \A k \in S : k <= n
  <1> DEFINE T == {k \in Nat : k <= m /\ m - k \in S}
  <1>1. m - s \in Nat /\ m - (m - s) = s /\ m - s <= m
    OBVIOUS
  <1>2. m - s \in T
    BY <1>1
  <1>3. PICK t \in T : \A x \in T : ~(<<x, t>> \in OpToRel(<, Nat))
    BY <1>2, NatLessThanWellFounded, WFMin
  <1>4. t \in Nat /\ t <= m /\ m - t \in S
    OBVIOUS
  <1>5. ASSUME NEW k \in S PROVE k <= m - t
    <2>1. k \in Nat /\ k <= m
      OBVIOUS
    <2>2. m - k \in Nat /\ m - (m - k) = k /\ m - k <= m
      BY <2>1
    <2>3. m - k \in T
      BY <2>2
    <2>4. ~(<<m - k, t>> \in { ss \in Nat \X Nat : ss[1] < ss[2] })
      BY <1>3, <2>3 DEF OpToRel
    <2>5. m - k < t => <<m - k, t>> \in { ss \in Nat \X Nat : ss[1] < ss[2] }
      BY <1>4, <2>2
    <2>6. QED
      BY <1>4, <2>1, <2>4, <2>5
  <1>6. QED
    BY <1>4, <1>5

(* A save is numbered after all the others. *)
LEMMA EditedIsANumber ==
  ASSUME Typed, NEW g \in File
  PROVE  Edited \in Edits
  <1> DEFINE S == {disk[f].edit : f \in File}
  <1>1. \A f \in File : disk[f].edit \in Edits
    BY DEF Typed
  <1>2. S \in SUBSET (0 .. MaxEdits) /\ disk[g].edit \in S
    BY <1>1 DEF Edits
  <1>3. \E n \in S : \A k \in S : k <= n
    <2> HIDE DEF S
    <2>1. MaxEdits \in Nat
      BY ReloadAssumption
    <2>2. QED
      BY <1>2, <2>1, GreatestNumber
  <1>4. \E n \in S : \A f \in File : disk[f].edit <= n
    BY <1>3
  <1>5. Edited \in S
    BY <1>4 DEF Edited
  <1>6. QED
    BY <1>2, <1>5 DEF Edits

LEMMA TypesAtStart == Init => Types
  <1> SUFFICES ASSUME Init PROVE Types
    OBVIOUS
  <1> USE DEF Init
  <1>1. 0 \in Edits /\ 1 \in 1 .. MaxTime /\ "good" \in Kind
    BY ReloadAssumption DEF Edits, Kind
  <1>2. Typed
    BY <1>1 DEF Typed
  <1>3. Booleans /\ Staged
    BY DEF Booleans, Staged
  <1>4. Stamped
    BY DEF Stamped
  <1>5. Shaders
    <2>1. DOMAIN live = {}
      OBVIOUS
    <2>2. QED
      BY <2>1 DEF Shaders
  <1>6. Texts
    BY DEF Texts
  <1>7. QED
    BY <1>2, <1>3, <1>4, <1>5, <1>6 DEF Types

(* A save or a removal leaves no file older than a stamp of it. *)
LEMMA TypesEdit ==
  ASSUME Types, NEW f \in File, NEW k \in Kind, Edit(f, k) \/ Unlink(f)
  PROVE  Types' /\ \A g \in File : disk[g].mtime <= disk'[g].mtime
  <1> USE DEF Types
  <1>1. UNCHANGED <<now, gl, unit, thread>>
    BY DEF Edit, Unlink
  <1>2. /\ disk' \in [File -> [edit : Edits, kind : Kind, mtime : 1 .. MaxTime, there : BOOLEAN]]
        /\ \A g \in File : disk[g].mtime <= disk'[g].mtime /\ disk'[g].mtime <= now
    <2>1. CASE Edit(f, k)
      <3>1. Edited \in Edits /\ Edited < MaxEdits /\ MaxEdits \in Nat
        BY <2>1, EditedIsANumber, ReloadAssumption DEF Edit
      <3>2. Edited + 1 \in Edits
        BY <3>1 DEF Edits
      <3>3. disk' = [disk EXCEPT ![f] = [edit |-> Edited + 1, kind |-> k, mtime |-> now, there |-> TRUE]]
        BY <2>1 DEF Edit
      <3>4. [edit |-> Edited + 1, kind |-> k, mtime |-> now, there |-> TRUE]
              \in [edit : Edits, kind : Kind, mtime : 1 .. MaxTime, there : BOOLEAN]
        BY <3>2 DEF Typed
      <3>5. \A g \in File : disk[g].mtime \in 1 .. MaxTime /\ disk[g].mtime <= now /\ now \in 1 .. MaxTime
        BY DEF Typed
      <3>6. \A g \in File : disk'[g].mtime = IF g = f THEN now ELSE disk[g].mtime
        BY <3>3 DEF Typed
      <3>7. MaxTime \in Nat
        BY ReloadAssumption
      <3>8. QED
        BY <3>3, <3>4, <3>5, <3>6, <3>7 DEF Typed
    <2>2. CASE Unlink(f)
      <3>1. disk' = [disk EXCEPT ![f].there = FALSE]
        BY <2>2 DEF Unlink
      <3>2. \A g \in File : disk'[g].mtime = disk[g].mtime /\ disk[g].mtime \in 1 .. MaxTime
        BY <3>1 DEF Typed
      <3>3. MaxTime \in Nat
        BY ReloadAssumption
      <3>4. disk' \in [File -> [edit : Edits, kind : Kind, mtime : 1 .. MaxTime, there : BOOLEAN]]
        BY <3>1 DEF Typed
      <3>5. QED
        BY <3>2, <3>3, <3>4 DEF Typed
    <2>3. QED
      BY <2>1, <2>2
  <1>3. Typed' /\ Booleans' /\ Staged' /\ Shaders' /\ Texts'
    BY <1>1, <1>2 DEF Typed, Booleans, Staged, Shaders, Texts, gl, unit, thread, compiling, Edits, Text
  <1>4. Stamped'
    <2>1. entries' = entries
      BY <1>1 DEF unit
    <2>2. ASSUME NEW u \in Unit, NEW i \in DOMAIN entries[u]
          PROVE  /\ entries[u][i].file \in Range(Files[u])
                 /\ entries[u][i].stamp <= disk'[entries[u][i].file].mtime
      <3>1. entries[u][i].file \in Range(Files[u]) /\ entries[u][i].stamp \in Nat
            /\ entries[u][i].stamp <= disk[entries[u][i].file].mtime
        <4>1. entries[u] \in Seq(Noted)
          BY DEF Stamped
        <4>2. entries[u][i] \in Noted
          BY <4>1
        <4>3. entries[u][i].stamp \in Nat
          BY <4>2 DEF Noted
        <4>4. QED
          BY <4>3 DEF Stamped
      <3>2. entries[u][i].file \in File
        BY <3>1, FilesOfUnit
      <3>3. disk[entries[u][i].file].mtime \in Nat /\ disk'[entries[u][i].file].mtime \in Nat
        BY <3>2, <1>2, ReloadAssumption DEF Typed
      <3>4. QED
        BY <1>2, <3>1, <3>2, <3>3
    <2>3. QED
      BY <2>1, <2>2 DEF Stamped
  <1>5. QED
    BY <1>2, <1>3, <1>4

LEMMA BeginTypes ==
  ASSUME Types, Kept, Begin
  PROVE  Types'
  <1> USE DEF Types, Begin, env, unit, gl
  <1>1. compiling \in Unit /\ compiling' = compiling
    BY CompilingQueued DEF Typed, compiling
  <1>2. Files[compiling] \in Seq(File) /\ Range(Files[compiling]) \subseteq File
    BY <1>1, FilesOfUnit
  <1>3. Typed' /\ Booleans' /\ Staged' /\ Stamped'
    BY DEF Typed, Booleans, Staged, Stamped
  <1>4. Shaders'
    BY DEF Shaders, Deleted, Restrict
  <1>5. Texts'
    BY <1>1, <1>2 DEF Texts
  <1> HIDE DEF Begin
  <1>6. QED
    BY <1>3, <1>4, <1>5

LEMMA StampTypes ==
  ASSUME Types, Stamp
  PROVE  Types'
  <1> USE DEF Types, env, gl
  <1>1. /\ stage = "read" /\ todo # <<>> /\ Recorded(Head(todo))
        /\ stamped' = TRUE /\ hot' = (hot /\ disk[Head(todo)].there)
        /\ UNCHANGED <<disk, now, program, attached, live, exe, handle, stage, queue,
                       first, todo, text, ret, located, failed>>
    BY DEF Stamp
  <1>2. compiling' = compiling
    BY <1>1 DEF compiling
  <1>3. Head(todo) \in File /\ Head(todo) \in Range(todo)
    BY <1>1 DEF Texts, Range
  <1>4. Head(todo) \in Range(Files[compiling])
    BY <1>1, <1>3 DEF Texts
  <1>5. disk[Head(todo)].there \in BOOLEAN /\ disk[Head(todo)].mtime \in Nat
    BY <1>3, ReloadAssumption DEF Typed
  <1>6. Typed' /\ Staged' /\ Shaders' /\ Texts'
    BY <1>1, <1>2 DEF Typed, Staged, Shaders, Texts
  <1>7. Booleans'
    BY <1>1, <1>5 DEF Booleans
  <1>8. Stamped'
    <2> DEFINE e == [file |-> Head(todo), stamp |-> StampOf(Head(todo))]
    <2>1. e \in Noted /\ e.file = Head(todo) /\ e.stamp <= disk[Head(todo)].mtime
      BY <1>3, <1>5 DEF StampOf, Noted
    <2>2. entries' = [entries EXCEPT ![compiling] = Append(@, e)]
      BY <1>1 DEF Recorded
    <2> HIDE DEF e
    <2>3. \A u \in Unit : entries[u] \in Seq(Noted)
      BY DEF Stamped
    <2>4. entries' \in [Unit -> Seq(Noted)]
      <3>1. \A u \in Unit : Append(entries[u], e) \in Seq(Noted)
        BY <2>1, <2>3
      <3>2. entries' = [u \in Unit |-> IF u = compiling THEN Append(entries[u], e) ELSE entries[u]]
        BY <2>2 DEF Stamped
      <3>3. QED
        BY <2>3, <3>1, <3>2
    <2>5. ASSUME NEW u \in Unit, NEW i \in DOMAIN entries'[u]
          PROVE  /\ entries'[u][i].file \in Range(Files[u])
                 /\ entries'[u][i].stamp <= disk[entries'[u][i].file].mtime
      <3>1. entries'[u] = IF u = compiling THEN Append(entries[u], e) ELSE entries[u]
        BY <2>2 DEF Stamped
      <3>2. (i \in DOMAIN entries[u] /\ entries'[u][i] = entries[u][i])
            \/ (u = compiling /\ entries'[u][i] = e)
        BY <2>1, <2>3, <3>1
      <3>3. QED
        BY <1>4, <2>1, <3>2 DEF Stamped
    <2>6. QED
      BY <1>1, <2>4, <2>5 DEF Stamped
  <1>9. QED
    BY <1>6, <1>7, <1>8

LEMMA ReadTypes ==
  ASSUME Types, Read
  PROVE  Types'
  <1> USE DEF Types, env, gl, unit
  <1> DEFINE f == Head(todo)
             x == [file |-> f, edit |-> disk[f].edit, kind |-> disk[f].kind, mtime |-> disk[f].mtime]
  <1>1. /\ stage = "read" /\ todo # <<>> /\ stamped' = FALSE
        /\ text' = Append(text, x)
        /\ todo' = Tail(todo) \/ todo' = <<>>
        /\ UNCHANGED <<disk, now, program, attached, live, exe, entries, handle, hot,
                       stage, queue, first, ret, located, failed>>
    BY DEF Read
  <1>2. compiling' = compiling
    BY <1>1 DEF compiling
  <1>3. f \in File
    BY <1>1 DEF Texts
  <1>4. x \in Text
    BY <1>3 DEF Typed, Text
  <1> HIDE DEF x
  <1>5. todo' \in Seq(File) /\ Range(todo') \subseteq Range(todo) /\ text' \in Seq(Text)
    <2>1. todo \in Seq(File) /\ text \in Seq(Text)
      BY DEF Texts
    <2>2. Tail(todo) \in Seq(File) /\ \A i \in 1 .. Len(Tail(todo)) :
            i + 1 \in 1 .. Len(todo) /\ Tail(todo)[i] = todo[i + 1]
      BY <1>1, <2>1
    <2>3. Range(Tail(todo)) \subseteq Range(todo)
      BY <2>1, <2>2 DEF Range
    <2>4. Range(<<>>) = {}
      BY DEF Range
    <2>5. text' \in Seq(Text)
      BY <1>1, <1>4, <2>1
    <2>6. <<>> \in Seq(File)
      OBVIOUS
    <2>7. todo' \in Seq(File) /\ Range(todo') \subseteq Range(todo)
      BY <1>1, <2>2, <2>3, <2>4, <2>6
    <2>8. QED
      BY <2>5, <2>7
  <1>6. Typed' /\ Booleans' /\ Staged' /\ Stamped' /\ Shaders'
    BY <1>1 DEF Typed, Booleans, Staged, Stamped, Shaders
  <1>7. QED
    BY <1>1, <1>2, <1>5, <1>6 DEF Texts

LEMMA CompileTypes ==
  ASSUME Types, Kept, CompileGood
  PROVE  Types'
  <1> USE DEF Types, env
  <1>1. PICK h \in Handle \ DOMAIN live :
          /\ live' = [y \in DOMAIN live \cup {h} |->
                        IF y = h THEN [unit |-> compiling, text |-> text] ELSE live[y]]
          /\ attached' = attached \cup {h}
          /\ handle' = [handle EXCEPT ![compiling] = h]
    BY DEF CompileGood
  <1>2. /\ stage' \in {"next", "link"} /\ queue' \subseteq Unit /\ text' = <<>>
        /\ UNCHANGED <<disk, now, entries, hot, program, exe, first, todo, stamped, ret, located, failed>>
    BY DEF CompileGood, AfterUnit, others, Typed
  <1>3. stage = "read"
    BY DEF CompileGood, Compiled
  <1>4. Typed' /\ Booleans' /\ Staged' /\ Stamped' /\ Texts'
    <2>1. handle' \in [Unit -> Handle \cup {0}]
      BY <1>1 DEF Typed
    <2>2. Typed'
      BY <1>2, <2>1 DEF Typed
    <2>3. todo' \in Seq(File) /\ text' \in Seq(Text)
      BY <1>2, <1>3 DEF Texts, CompileGood
    <2>4. QED
      BY <1>2, <2>2, <2>3 DEF Booleans, Staged, Stamped, Texts
  <1>5. Shaders'
    <2>1. program /\ compiling \in Unit
      BY <1>3, CompilingQueued DEF Shaders, Kept
    <2>2. DOMAIN live' = DOMAIN live \cup {h} /\ attached' \subseteq DOMAIN live'
      BY <1>1 DEF Shaders
    <2>3. ASSUME NEW y \in DOMAIN live'
          PROVE  live'[y].unit \in Unit /\ live'[y].text \in Seq(Text)
      <3>1. CASE y = h
        BY <1>1, <2>1, <3>1 DEF Texts
      <3>2. CASE y # h
        <4>1. y \in DOMAIN live /\ live'[y] = live[y]
          BY <1>1, <2>2, <3>2
        <4>2. QED
          BY <4>1 DEF Shaders
      <3>3. QED
        BY <3>1, <3>2
    <2>4. QED
      BY <1>2, <2>1, <2>2, <2>3 DEF Shaders
  <1>6. QED
    BY <1>4, <1>5

LEMMA LinkTypes ==
  ASSUME Types, Kept, LinkNothing \/ LinkGood \/ LinkBad
  PROVE  Types'
  <1> USE DEF Types, env, unit, gl, AfterLink
  <1>1. /\ stage = "link" /\ stage' \in {"next", "idle", "draw"}
        /\ ret' \in BOOLEAN /\ first' = FALSE /\ located' \in {ret', located}
        /\ failed' \in {TRUE, failed}
        /\ UNCHANGED <<disk, now, entries, handle, hot, queue, todo, stamped, text, program>>
    BY DEF LinkNothing, LinkGood, LinkBad
  <1>2. Typed' /\ Booleans' /\ Staged' /\ Stamped' /\ Texts'
    BY <1>1 DEF Typed, Booleans, Staged, Stamped, Texts
  <1>3. Shaders'
    <2>1. CASE LinkNothing
      BY <1>1, <2>1 DEF Shaders, LinkNothing
    <2>2. CASE LinkGood
      BY <1>1, <2>2 DEF Shaders, LinkGood
    <2>3. CASE LinkBad
      BY <1>1, <2>3 DEF Shaders, LinkBad, Deleted, Restrict
    <2>4. QED
      BY <2>1, <2>2, <2>3
  <1>4. QED
    BY <1>2, <1>3

LEMMA CheckTypes ==
  ASSUME Types, Kept, Check
  PROVE  Types'
  <1> USE DEF Types, env, gl
  <1> DEFINE newer == {p \in Entry : Newer(p)}
  <1>1. /\ stage = "idle" /\ stage' \in {"next", "draw"}
        /\ ret' = FALSE /\ hot' \in BOOLEAN /\ queue' = {p[1] : p \in newer}
        /\ UNCHANGED <<disk, now, handle, program, attached, live, exe, first, todo,
                       stamped, text, located, failed>>
    BY DEF Check
  <1>2. entries' = [u \in Unit |-> [i \in DOMAIN entries[u] |->
                      IF <<u, i>> \in newer
                      THEN [entries[u][i] EXCEPT !.stamp = disk[entries[u][i].file].mtime]
                      ELSE entries[u][i]]]
    BY DEF Check, At
  <1>3. queue' \subseteq Unit
    BY <1>1 DEF Entry
  <1>4. Typed' /\ Booleans' /\ Staged' /\ Shaders' /\ Texts'
    BY <1>1, <1>3 DEF Typed, Booleans, Staged, Shaders, Texts
  <1> HIDE DEF newer
  <1>5. ASSUME NEW u \in Unit
        PROVE  /\ entries'[u] \in Seq(Noted) /\ DOMAIN entries'[u] = DOMAIN entries[u]
               /\ \A i \in DOMAIN entries[u] :
                    /\ entries'[u][i].file = entries[u][i].file /\ entries[u][i].file \in Range(Files[u])
                    /\ entries'[u][i].stamp \in {entries[u][i].stamp, disk[entries[u][i].file].mtime}
    <2>1. entries[u] \in Seq(Noted)
      BY DEF Stamped
    <2>2. entries'[u] = [i \in DOMAIN entries[u] |->
                      IF <<u, i>> \in newer
                      THEN [entries[u][i] EXCEPT !.stamp = disk[entries[u][i].file].mtime]
                      ELSE entries[u][i]]
      BY <1>2
    <2>3. ASSUME NEW i \in DOMAIN entries[u]
          PROVE  /\ entries'[u][i] \in Noted /\ entries'[u][i].file = entries[u][i].file
                 /\ entries[u][i].file \in Range(Files[u])
                 /\ entries'[u][i].stamp \in {entries[u][i].stamp, disk[entries[u][i].file].mtime}
      <3>1. entries[u][i] \in Noted /\ entries[u][i].file \in Range(Files[u])
        BY <2>1 DEF Stamped
      <3>2. disk[entries[u][i].file].mtime \in Nat
        BY <3>1, FilesOfUnit, ReloadAssumption DEF Typed
      <3>3. [entries[u][i] EXCEPT !.stamp = disk[entries[u][i].file].mtime]
              = [file |-> entries[u][i].file, stamp |-> disk[entries[u][i].file].mtime]
        BY <3>1 DEF Noted
      <3>4. QED
        BY <2>2, <3>1, <3>2, <3>3 DEF Noted
    <2>4. DOMAIN entries'[u] = 1 .. Len(entries[u]) /\ Len(entries[u]) \in Nat
      BY <2>1, <2>2
    <2>5. entries'[u] \in [1 .. Len(entries[u]) -> Noted]
      BY <2>1, <2>2, <2>3, <2>4
    <2>6. entries'[u] \in Seq(Noted)
      BY <2>4, <2>5
    <2>7. QED
      BY <2>2, <2>3, <2>6
  <1>6. Stamped'
    <2>1. entries' \in [Unit -> Seq(Noted)]
      BY <1>2, <1>5
    <2>2. ASSUME NEW u \in Unit, NEW i \in DOMAIN entries'[u]
          PROVE  /\ entries'[u][i].file \in Range(Files[u])
                 /\ entries'[u][i].stamp <= disk[entries'[u][i].file].mtime
      <3>1. i \in DOMAIN entries[u] /\ entries'[u][i].file = entries[u][i].file
        BY <1>5
      <3>2. entries[u][i].file \in File /\ entries[u][i].stamp <= disk[entries[u][i].file].mtime
        BY <1>5, <3>1, FilesOfUnit DEF Stamped
      <3>3. disk[entries[u][i].file].mtime \in Nat
        BY <3>2, ReloadAssumption DEF Typed
      <3>4. QED
        BY <1>5, <3>1, <3>2, <3>3
    <2>3. QED
      BY <1>1, <2>1, <2>2 DEF Stamped
  <1>7. QED
    BY <1>4, <1>6

LEMMA TypesNext == Types /\ Kept /\ [Next]_vars => Types'
  <1> SUFFICES ASSUME Types, Kept, [Next]_vars PROVE Types'
    OBVIOUS
  <1> USE DEF Types, gl, unit, env, thread
  <1>1. CASE \E f \in File : Unlink(f) \/ \E k \in Kind : Edit(f, k)
    <2>1. PICK f \in File, k \in Kind : Edit(f, k) \/ Unlink(f)
      BY <1>1 DEF Kind
    <2>2. QED
      BY <2>1, TypesEdit
  <1>2. CASE Begin \/ Stamp \/ Read \/ CompileGood \/ Check
    BY <1>2, BeginTypes, StampTypes, ReadTypes, CompileTypes, CheckTypes
  <1>3. CASE LinkNothing \/ LinkGood \/ LinkBad
    BY <1>3, LinkTypes
  <1>4. CASE CompileBad
    <2>1. stage = "read" /\ UNCHANGED <<env, unit, live, first, todo, stamped, ret, located>>
      BY <1>4 DEF CompileBad, Compiled
    <2>2. Typed' /\ Booleans' /\ Staged' /\ Stamped' /\ Shaders'
      BY <1>4, <2>1 DEF CompileBad, others, Typed, Booleans, Staged, Stamped, Shaders
    <2>3. Texts'
      BY <1>4, <2>1 DEF CompileBad, Texts
    <2>4. QED
      BY <2>2, <2>3
  <1>5. CASE Throw \/ CheckNothing \/ Draw
    BY <1>5 DEF Throw, CheckNothing, Draw, Typed, Booleans, Staged, Stamped, Shaders, Texts
  <1>6. CASE Tick
    <2>1. now' \in 1 .. MaxTime /\ now <= now' /\ UNCHANGED <<disk, gl, unit, thread>>
      BY <1>6, ReloadAssumption DEF Tick, Typed
    <2>2. \A f \in File : disk[f].mtime \in 1 .. MaxTime /\ disk[f].mtime <= now
      BY DEF Typed
    <2>3. \A f \in File : disk[f].mtime <= now'
      BY <2>1, <2>2, ReloadAssumption DEF Typed
    <2>4. Typed'
      BY <2>1, <2>3 DEF Typed
    <2>5. QED
      BY <2>1, <2>4 DEF Booleans, Staged, Stamped, Shaders, Texts, compiling
  <1>7. CASE Destroy
    <2>1. attached' = {} /\ DOMAIN live' \subseteq DOMAIN live
      BY <1>7 DEF Destroy, Deleted, Restrict, Kept, Shaders
    <2>2. Shaders'
      BY <1>7, <2>1 DEF Destroy, Deleted, Restrict, Shaders
    <2>3. QED
      BY <1>7, <2>2 DEF Destroy, Typed, Booleans, Staged, Stamped, Texts
  <1>8. CASE Ended \/ UNCHANGED vars
    BY <1>8 DEF Ended, vars, Typed, Booleans, Staged, Stamped, Shaders, Texts, compiling
  <1>9. QED
    BY <1>1, <1>2, <1>3, <1>4, <1>5, <1>6, <1>7, <1>8 DEF Next, Thread

LEMMA RightlyTyped == Types => TypeOK
  <1> SUFFICES ASSUME Types PROVE TypeOK
    BY DEF Types
  <1> USE DEF Types
  <1>1. ASSUME NEW u \in Unit, NEW e \in Range(entries[u])
        PROVE  e.file \in Range(Files[u]) /\ e.stamp <= now
    <2>1. PICK i \in DOMAIN entries[u] : e = entries[u][i]
      BY DEF Range
    <2>2. entries[u] \in Seq(Noted)
      BY DEF Stamped
    <2>3. e \in Noted
      BY <2>1, <2>2
    <2>4. e.file \in File /\ e.stamp \in Nat
      BY <2>3 DEF Noted
    <2>5. disk[e.file].mtime \in Nat /\ disk[e.file].mtime <= now /\ now \in Nat
      BY <2>4, ReloadAssumption DEF Typed
    <2>6. QED
      BY <2>1, <2>4, <2>5 DEF Stamped
  <1>2. \A s \in Seq(Text) : Range(s) \subseteq Text
    BY DEF Range
  <1>3. \A s \in Seq(File) : Range(s) \subseteq File
    BY DEF Range
  <1>4. \A h \in DOMAIN live : live[h].unit \in Unit /\ Range(live[h].text) \subseteq Text
    BY <1>2 DEF Shaders
  <1>5. QED
    BY <1>1, <1>2, <1>3, <1>4 DEF TypeOK, Typed, Booleans, Staged, Shaders, Texts

(* Every variable keeps its type, whatever is edited, removed or fails: every      *)
(* stamp recorded is of a file of its unit and not of the future, every shader      *)
(* attached is alive, and an absent program has none (Shader.cpp:213-268, 535-551). *)
THEOREM TypesAreKept == Spec => []TypeOK
  <1>1. QED
    BY TypesAtStart, TypesNext, KeptAtStart, KeptNext, RightlyTyped, PTL DEF Spec

--------------------------------------------------------------------------------
(* Whether a text read into unit u is backed by a stamp: no save of its file later *)
(* than the text escapes the comparison of stamps.                                 *)
Backed(u, t) ==
  /\ t.mtime <= disk[t.file].mtime
  /\ \E i \in DOMAIN entries[u] : entries[u][i].file = t.file /\ entries[u][i].stamp <= t.mtime

(* What is read is backed as soon as it is read: the stamp of an included file is  *)
(* taken before its text, that of the root is the first of its unit.                *)
RootFirst == \A u \in Unit : entries[u] # <<>> => entries[u][1].file = Files[u][1]
Reading ==
  stage = "read" =>
    /\ \A i \in DOMAIN text : Backed(compiling, text[i])
    /\ text = <<>> => todo = Files[compiling]
    /\ text # <<>> => entries[compiling] # <<>>
    /\ stamped => \E i \in DOMAIN entries[compiling] : entries[compiling][i].file = Head(todo)
Settled == stage \in {"idle", "draw"} => queue = {}

(* The shaders of the units that are not waiting were made of backed texts.         *)
Alive ==
  \A u \in Made \ queue : \A i \in DOMAIN live[handle[u]].text :
    Backed(u, live[handle[u]].text[i])
Sourced == RootFirst /\ Reading /\ Settled

(* A text stays backed while the stamps of its unit stay and files grow younger.     *)
LEMMA StaysBacked ==
  ASSUME Types, NEW u \in Unit, NEW t \in Text, Backed(u, t),
         \A f \in File : disk'[f].mtime \in Nat /\ disk[f].mtime <= disk'[f].mtime,
         \A i \in DOMAIN entries[u] : i \in DOMAIN entries'[u] /\ entries'[u][i] = entries[u][i]
  PROVE  Backed(u, t)'
  <1>1. t.file \in File /\ t.mtime \in Nat
    BY DEF Text
  <1>2. disk[t.file].mtime \in Nat /\ disk'[t.file].mtime \in Nat
        /\ disk[t.file].mtime <= disk'[t.file].mtime
    BY <1>1, ReloadAssumption DEF Types, Typed
  <1>3. t.mtime <= disk'[t.file].mtime
    BY <1>1, <1>2 DEF Backed
  <1>4. QED
    BY <1>3 DEF Backed

(* At first nothing has been read, and no unit is made. *)
LEMMA SourcedAtStart == Init => Sourced /\ Alive
  BY DEF Init, Sourced, RootFirst, Reading, Settled, Alive, Made

LEMMA StampSourced ==
  ASSUME Types, Kept, Sourced, Stamp
  PROVE  /\ Sourced'
         /\ \A u \in Unit : \A i \in DOMAIN entries[u] :
              i \in DOMAIN entries'[u] /\ entries'[u][i] = entries[u][i]
  <1> DEFINE f == Head(todo)
             e == [file |-> f, stamp |-> StampOf(f)]
             c == compiling
  <1>1. /\ stage = "read" /\ todo # <<>> /\ NeedsStamp
        /\ entries' = [entries EXCEPT ![c] = Append(@, e)]
        /\ UNCHANGED <<disk, stage, queue, todo, text>>
    BY DEF Stamp, Recorded, env
  <1>2. c \in Unit /\ c' = c
    BY <1>1, CompilingQueued DEF Kept, compiling
  <1>3. entries[c] \in Seq(Noted) /\ DOMAIN entries = Unit
    BY <1>2 DEF Types, Stamped
  <1>4. e.file = f
    OBVIOUS
  <1> HIDE DEF e
  <1>5. /\ entries'[c] = Append(entries[c], e)
        /\ \A u \in Unit \ {c} : entries'[u] = entries[u]
    BY <1>1, <1>2, <1>3
  <1>6. /\ \A i \in DOMAIN entries[c] : i \in DOMAIN entries'[c] /\ entries'[c][i] = entries[c][i]
        /\ Len(entries[c]) + 1 \in DOMAIN entries'[c] /\ entries'[c][Len(entries[c]) + 1] = e
        /\ entries'[c] # <<>>
    BY <1>3, <1>5
  <1>7. \A u \in Unit : \A i \in DOMAIN entries[u] :
          i \in DOMAIN entries'[u] /\ entries'[u][i] = entries[u][i]
    BY <1>5, <1>6
  <1>8. \A u \in Unit : entries'[u] # <<>> => entries'[u][1].file = Files[u][1]
    <2>1. CASE entries[c] = <<>>
      <3>1. text = <<>>
        BY <1>1, <2>1 DEF Sourced, Reading
      <3>2. f = Files[c][1]
        BY <1>1, <1>2, <3>1, FilesOfUnit DEF Sourced, Reading
      <3>3. entries'[c][1] = e
        BY <1>6, <2>1
      <3>4. QED
        BY <1>4, <1>5, <3>2, <3>3 DEF Sourced, RootFirst
    <2>2. CASE entries[c] # <<>>
      <3>1. 1 \in DOMAIN entries[c]
        BY <1>3, <2>2
      <3>2. QED
        BY <1>2, <1>5, <1>6, <2>2, <3>1 DEF Sourced, RootFirst
    <2>3. QED
      BY <2>1, <2>2
  <1>9. \A i \in DOMAIN text : Backed(c, text[i])'
    <2> SUFFICES ASSUME NEW i \in DOMAIN text PROVE Backed(c, text[i])'
      OBVIOUS
    <2>1. text[i] \in Text
      BY DEF Types, Texts
    <2>2. \A g \in File : disk'[g].mtime \in Nat /\ disk[g].mtime <= disk'[g].mtime
      BY <1>1, ReloadAssumption DEF Types, Typed
    <2>3. Backed(c, text[i])
      BY <1>1 DEF Sourced, Reading
    <2>4. QED
      BY <1>1, <1>2, <1>7, <2>1, <2>2, <2>3, StaysBacked
  <1>10. Reading'
    <2>1. text # <<>> => entries'[c] # <<>>
      BY <1>6
    <2>2. \E i \in DOMAIN entries'[c] : entries'[c][i].file = Head(todo)
      BY <1>4, <1>6
    <2>3. QED
      BY <1>1, <1>2, <1>9, <2>1, <2>2 DEF Sourced, Reading
  <1>11. QED
    BY <1>1, <1>7, <1>8, <1>10 DEF Sourced, RootFirst, Settled

LEMMA ReadSourced ==
  ASSUME Types, Kept, Sourced, Read
  PROVE  Sourced'
  <1> DEFINE f == Head(todo)
             x == [file |-> f, edit |-> disk[f].edit, kind |-> disk[f].kind, mtime |-> disk[f].mtime]
             c == compiling
  <1>1. /\ stage = "read" /\ todo # <<>> /\ ~NeedsStamp /\ stamped' = FALSE
        /\ text' = Append(text, x)
        /\ UNCHANGED <<disk, entries, stage, queue>>
    BY DEF Read, env, unit
  <1>2. c \in Unit /\ c' = c
    BY <1>1, CompilingQueued DEF Kept, compiling
  <1>3. entries[c] \in Seq(Noted) /\ text \in Seq(Text) /\ f \in File
    BY <1>1, <1>2 DEF Types, Stamped, Texts
  <1>4. x \in Text /\ x.file = f /\ x.mtime = disk[f].mtime
    BY <1>3 DEF Types, Typed, Text
  <1> HIDE DEF x
  (* The entry that backs the text. *)
  <1>5. \E i \in DOMAIN entries[c] : entries[c][i].file = f
    <2>1. CASE stamped
      BY <1>1, <2>1 DEF Sourced, Reading
    <2>2. CASE ~stamped
      <3>1. text = <<>> /\ entries[c] # <<>>
        BY <1>1, <2>2 DEF NeedsStamp, AtRoot
      <3>2. f = Files[c][1]
        BY <1>1, <1>2, <3>1, FilesOfUnit DEF Sourced, Reading
      <3>3. 1 \in DOMAIN entries[c] /\ entries[c][1].file = f
        BY <1>2, <1>3, <3>1, <3>2 DEF Sourced, RootFirst
      <3>4. QED
        BY <3>3
    <2>3. QED
      BY <2>1, <2>2
  <1>6. entries[c] # <<>>
    <2>1. PICK i \in DOMAIN entries[c] : entries[c][i].file = f
      BY <1>5
    <2>2. i \in 1 .. Len(entries[c])
      BY <1>3
    <2>3. QED
      BY <2>2
  <1>7. Backed(c, x)
    <2>1. disk[f].mtime \in Nat
      BY <1>3, ReloadAssumption DEF Types, Typed
    <2>2. PICK i \in DOMAIN entries[c] : entries[c][i].file = f
      BY <1>5
    <2>3. entries[c][i].stamp <= disk[f].mtime
      BY <1>2, <2>2 DEF Types, Stamped
    <2>4. QED
      BY <1>4, <2>1, <2>2, <2>3 DEF Backed
  <1>8. \A i \in DOMAIN text' : Backed(c, text'[i])
    <2> SUFFICES ASSUME NEW i \in DOMAIN text' PROVE Backed(c, text'[i])
      OBVIOUS
    <2>1. (i \in DOMAIN text /\ text'[i] = text[i]) \/ text'[i] = x
      BY <1>1, <1>3, <1>4
    <2>2. \A j \in DOMAIN text : Backed(c, text[j])
      BY <1>1 DEF Sourced, Reading
    <2>3. QED
      BY <1>7, <2>1, <2>2
  <1>9. text' # <<>>
    BY <1>1, <1>3, <1>4
  <1>10. (\A i \in DOMAIN text : Backed(compiling, text[i]))'
    BY <1>1, <1>2, <1>8 DEF Backed
  <1>11. Reading'
    BY <1>1, <1>2, <1>6, <1>9, <1>10 DEF Reading
  <1>12. QED
    BY <1>1, <1>11 DEF Sourced, RootFirst, Settled

(* What Alive says is about units made, whose shaders are alive. *)
LEMMA AliveTexts ==
  ASSUME Types, Pairing, NEW u \in Made, NEW i \in DOMAIN live[handle[u]].text
  PROVE  u \in Unit /\ handle[u] \in DOMAIN live /\ live[handle[u]].text[i] \in Text
  <1>1. u \in Unit /\ handle[u] \in DOMAIN live
    BY DEF Made, Pairing
  <1>2. live[handle[u]].text \in Seq(Text)
    BY <1>1 DEF Types, Shaders
  <1>3. QED
    BY <1>1, <1>2

(* Whatever happens elsewhere, Alive stays as long as the shaders and the stamps    *)
(* of the units that are not waiting do.                                             *)
LEMMA StaysAlive ==
  ASSUME Types, Pairing, Alive,
         \A f \in File : disk'[f].mtime \in Nat /\ disk[f].mtime <= disk'[f].mtime,
         Made' \ queue' \subseteq Made \ queue,
         \A u \in Made' \ queue' :
           /\ live'[handle'[u]] = live[handle[u]]
           /\ \A i \in DOMAIN entries[u] : i \in DOMAIN entries'[u] /\ entries'[u][i] = entries[u][i]
  PROVE  Alive'
  <1> SUFFICES ASSUME NEW u \in Made' \ queue', NEW i \in DOMAIN live'[handle'[u]].text
               PROVE  Backed(u, live[handle[u]].text[i])'
    BY DEF Alive
  <1>1. u \in Made \ queue /\ live'[handle'[u]] = live[handle[u]]
    OBVIOUS
  <1>2. u \in Unit /\ live[handle[u]].text[i] \in Text
    BY <1>1, AliveTexts
  <1>3. PICK t \in Text : t = live[handle[u]].text[i]
    BY <1>2
  <1>4. Backed(u, t)
    BY <1>1, <1>3 DEF Alive
  <1>5. Backed(u, t)'
    BY <1>1, <1>2, <1>4, StaysBacked
  <1>6. t = live'[handle'[u]].text[i]
    BY <1>1, <1>3
  <1>7. QED
    BY <1>5, <1>6 DEF Backed

LEMMA SourcedNext == Types /\ Kept /\ Sourced /\ [Next]_vars => Sourced'
  <1> SUFFICES ASSUME Types, Kept, Sourced, [Next]_vars PROVE Sourced'
    OBVIOUS
  <1> USE DEF gl, unit, env, thread
  <1>1. CASE \E f \in File : Unlink(f) \/ \E k \in Kind : Edit(f, k)
    <2>1. PICK f \in File, k \in Kind : Edit(f, k) \/ Unlink(f)
      BY <1>1 DEF Kind
    <2>2. UNCHANGED <<entries, stage, queue, todo, stamped, text, compiling>>
      BY <2>1 DEF Edit, Unlink, compiling
    <2>3. Types' /\ \A g \in File : disk[g].mtime <= disk'[g].mtime
      BY <2>1, TypesEdit
    <2>4. \A g \in File : disk'[g].mtime \in Nat /\ disk[g].mtime <= disk'[g].mtime
      BY <2>3, ReloadAssumption DEF Types, Typed
    <2>5. stage = "read" => \A i \in DOMAIN text : Backed(compiling, text[i])'
      <3> SUFFICES ASSUME stage = "read", NEW i \in DOMAIN text PROVE Backed(compiling, text[i])'
        OBVIOUS
      <3>1. compiling \in Unit /\ text[i] \in Text
        BY CompilingQueued DEF Kept, Types, Texts
      <3>2. Backed(compiling, text[i])
        BY DEF Sourced, Reading
      <3>3. QED
        BY <2>2, <2>4, <3>1, <3>2, StaysBacked
    <2>6. Reading'
      BY <2>2, <2>5 DEF Sourced, Reading
    <2>7. QED
      BY <2>2, <2>6 DEF Sourced, RootFirst, Settled
  <1>2. CASE Begin
    BY <1>2, CompilingQueued DEF Begin, Sourced, RootFirst, Reading, Settled, compiling
  <1>3. CASE Stamp
    BY <1>3, StampSourced
  <1>4. CASE Read
    BY <1>4, ReadSourced
  <1>5. CASE CompileGood \/ CompileBad
    BY <1>5 DEF CompileGood, CompileBad, AfterUnit, Compiled, Sourced, RootFirst, Reading, Settled
  <1>6. CASE LinkNothing \/ LinkGood \/ LinkBad
    BY <1>6 DEF LinkNothing, LinkGood, LinkBad, AfterLink, Sourced, RootFirst, Reading, Settled
  <1>7. CASE Check
    <2>1. /\ stage = "idle" /\ stage' \in {"next", "draw"}
          /\ stage' = "draw" => queue' = {}
          /\ \A u \in Unit : DOMAIN entries'[u] = DOMAIN entries[u]
               /\ \A i \in DOMAIN entries[u] : entries[u][i].file = entries'[u][i].file
      <3>1. stage = "idle" /\ stage' \in {"next", "draw"} /\ (stage' = "draw" => queue' = {})
        BY <1>7 DEF Check
      <3>2. ASSUME NEW u \in Unit
            PROVE  DOMAIN entries'[u] = DOMAIN entries[u]
                   /\ \A i \in DOMAIN entries[u] : entries[u][i].file = entries'[u][i].file
        <4> DEFINE newer == {p \in Entry : Newer(p)}
        <4>1. entries'[u] = [i \in DOMAIN entries[u] |->
                      IF <<u, i>> \in newer
                      THEN [entries[u][i] EXCEPT !.stamp = disk[entries[u][i].file].mtime]
                      ELSE entries[u][i]]
          BY <1>7 DEF Check, At
        <4>2. \A i \in DOMAIN entries[u] : entries[u][i] \in Noted
          BY DEF Types, Stamped
        <4>3. \A i \in DOMAIN entries[u] :
                [entries[u][i] EXCEPT !.stamp = disk[entries[u][i].file].mtime].file = entries[u][i].file
          BY <4>2 DEF Noted
        <4> HIDE DEF newer
        <4>4. QED
          BY <4>1, <4>3
      <3>3. QED
        BY <3>1, <3>2
    <2>2. RootFirst'
      <3> SUFFICES ASSUME NEW u \in Unit, entries'[u] # <<>> PROVE entries'[u][1].file = Files[u][1]
        BY DEF RootFirst
      <3>1. entries[u] \in Seq(Noted) /\ entries'[u] \in Seq(Noted)
        BY <1>7, CheckTypes DEF Types, Stamped
      <3>2. 1 \in DOMAIN entries[u] /\ entries[u] # <<>>
        BY <2>1, <3>1
      <3>3. QED
        BY <2>1, <3>2 DEF Sourced, RootFirst
    <2>3. QED
      BY <2>1, <2>2 DEF Sourced, Reading, Settled
  <1>8. CASE Throw \/ CheckNothing \/ Draw \/ Destroy
    BY <1>8 DEF Throw, CheckNothing, Draw, Destroy, Sourced, RootFirst, Reading, Settled
  <1>9. CASE Ended \/ Tick \/ UNCHANGED vars
    <2>1. UNCHANGED <<disk, entries, stage, queue, todo, stamped, text, compiling>>
      BY <1>9 DEF Ended, Tick, vars, compiling
    <2>2. QED
      BY <2>1 DEF Sourced, RootFirst, Reading, Settled, Backed
  <1>10. QED
    BY <1>1, <1>2, <1>3, <1>4, <1>5, <1>6, <1>7, <1>8, <1>9 DEF Next, Thread

LEMMA CompileAlive ==
  ASSUME Types, Kept, Sourced, Undisturbed, Whole, Alive, CompileGood
  PROVE  Alive'
  <1> USE DEF env
  <1>1. stage = "read" /\ compiling \in queue /\ compiling \in Unit /\ handle[compiling] \notin DOMAIN live
    BY CompilingQueued DEF Kept, CompileGood, Compiled
  <1>2. PICK h \in Handle \ DOMAIN live :
          /\ live' = [y \in DOMAIN live \cup {h} |->
                        IF y = h THEN [unit |-> compiling, text |-> text] ELSE live[y]]
          /\ handle' = [handle EXCEPT ![compiling] = h]
    BY DEF CompileGood
  <1>3. /\ queue' = queue \ {compiling} /\ stage' # "read"
        /\ UNCHANGED <<disk, entries, first>>
    BY DEF CompileGood, others, AfterUnit
  <1>4. Made' = Made \cup {compiling} /\ compiling \notin Made
    BY <1>1, <1>3 DEF Made
  <1>5. handle'[compiling] = h /\ \A u \in Unit \ {compiling} : handle'[u] = handle[u]
    BY <1>1, <1>2 DEF Kept
  <1>6. live'[h].text = text /\ \A x \in DOMAIN live : live'[x] = live[x]
    BY <1>2
  <1>7. SUFFICES ASSUME NEW u \in Made' \ queue'
                 PROVE  (\A i \in DOMAIN live[handle[u]].text : Backed(u, live[handle[u]].text[i]))'
    BY DEF Alive
  <1>8. CASE u = compiling
    <2>1. \A i \in DOMAIN text : Backed(u, text[i])
      BY <1>1, <1>8 DEF Sourced, Reading
    <2>2. live'[handle'[u]].text = text
      BY <1>5, <1>6, <1>8
    <2>3. QED
      BY <1>3, <2>1, <2>2 DEF Backed
  <1>9. CASE u # compiling
    <2>1. u \in Made \ queue
      BY <1>3, <1>4, <1>9
    <2>2. handle[u] \in DOMAIN live /\ u \in Unit
      BY <2>1 DEF Whole, Pairing, Made
    <2>3. live'[handle'[u]] = live[handle[u]]
      BY <1>5, <1>6, <1>9, <2>2
    <2>4. \A i \in DOMAIN live[handle[u]].text : Backed(u, live[handle[u]].text[i])
      BY <2>1 DEF Alive
    <2>5. QED
      BY <1>3, <2>3, <2>4 DEF Backed
  <1>10. QED
    BY <1>8, <1>9

(* hotReloadShaders raises the stamps of units it makes wait, and of no others. *)
LEMMA CheckAlive ==
  ASSUME Types, Undisturbed, Whole, Sourced, Alive, Check
  PROVE  Alive'
  <1> USE DEF env, gl
  <1>1. stage = "idle" /\ ~first /\ stage' # "read" /\ queue = {}
        /\ UNCHANGED <<disk, handle, live, first>>
    BY DEF Check, Whole, Progress, Sourced, Settled
  <1>2. Made = Unit /\ Made' = Unit
    BY <1>1 DEF Made
  <1> DEFINE newer == {p \in Entry : Newer(p)}
  <1>3. queue' = {p[1] : p \in newer}
        /\ entries' = [u \in Unit |-> [i \in DOMAIN entries[u] |->
                      IF <<u, i>> \in newer
                      THEN [entries[u][i] EXCEPT !.stamp = disk[entries[u][i].file].mtime]
                      ELSE entries[u][i]]]
    BY DEF Check, At
  <1> HIDE DEF newer
  <1>4. ASSUME NEW u \in Unit \ queue', NEW i \in DOMAIN entries[u]
        PROVE  i \in DOMAIN entries'[u] /\ entries'[u][i] = entries[u][i]
    <2>1. <<u, i>> \notin newer
      BY <1>3
    <2>2. QED
      BY <1>3, <2>1
  <1>5. \A f \in File : disk'[f].mtime \in Nat /\ disk[f].mtime <= disk'[f].mtime
    BY <1>1, ReloadAssumption DEF Types, Typed
  <1>6. QED
    BY <1>1, <1>2, <1>4, <1>5, StaysAlive DEF Whole

LEMMA AliveNext ==
  Types /\ Kept /\ Sourced /\ (Undisturbed => Whole /\ Alive) /\ [Next]_vars => (Undisturbed' => Alive')
  <1> SUFFICES ASSUME Types, Kept, Sourced, Undisturbed => Whole /\ Alive, [Next]_vars, Undisturbed'
               PROVE  Alive'
    OBVIOUS
  <1> USE DEF gl, unit, env, thread
  <1>1. \A f \in File : disk[f].mtime \in Nat
    BY ReloadAssumption DEF Types, Typed
  <1>2. CASE \E f \in File : Unlink(f) \/ \E k \in Kind : Edit(f, k)
    <2>1. PICK f \in File, k \in Kind : Edit(f, k) \/ Unlink(f)
      BY <1>2 DEF Kind
    <2>2. UNCHANGED <<entries, handle, live, stage, queue, first, failed>>
      BY <2>1 DEF Edit, Unlink
    <2>3. Types' /\ \A g \in File : disk[g].mtime <= disk'[g].mtime
      BY <2>1, TypesEdit
    <2>4. \A g \in File : disk'[g].mtime \in Nat /\ disk[g].mtime <= disk'[g].mtime
      BY <2>3, ReloadAssumption DEF Types, Typed
    <2>5. Made' = Made /\ Undisturbed
      BY <2>2 DEF Made, compiling, Undisturbed
    <2>6. QED
      BY <2>2, <2>4, <2>5, StaysAlive DEF Whole
  <1>3. CASE Begin
    <2>1. Undisturbed /\ compiling \in queue /\ compiling' = compiling
      BY <1>3, CompilingQueued DEF Begin, Undisturbed, Kept, compiling
    <2>2. stage = "next" /\ stage' = "read" /\ UNCHANGED <<disk, entries, queue, first, handle>>
      BY <1>3 DEF Begin, Undisturbed
    <2>3. Made' = Made \ {compiling}
      BY <2>1, <2>2 DEF Made
    <2>4. \A u \in Made' : live'[handle'[u]] = live[handle[u]]
      <3> SUFFICES ASSUME NEW u \in Made' PROVE live'[handle'[u]] = live[handle[u]]
        OBVIOUS
      <3>1. live' = Restrict(live, DOMAIN live \ {handle[compiling]})
        BY <1>3 DEF Begin, Deleted
      <3>2. Whole'
        BY <1>3, <2>1, BeginWhole
      <3>3. handle'[u] \in DOMAIN live'
        BY <3>2 DEF Whole, Pairing
      <3>4. QED
        BY <2>2, <3>1, <3>3 DEF Restrict
    <2>5. \A f \in File : disk'[f].mtime \in Nat /\ disk[f].mtime <= disk'[f].mtime
      BY <1>1, <2>2
    <2>6. QED
      BY <2>1, <2>2, <2>3, <2>4, <2>5, StaysAlive DEF Whole
  <1>4. CASE Stamp
    <2>1. Undisturbed /\ stage = "read" /\ UNCHANGED <<disk, handle, live, stage, queue, first>>
      BY <1>4 DEF Stamp, Undisturbed
    <2>2. Made' = Made
      BY <2>1 DEF Made, compiling
    <2>3. \A u \in Made : u \in Unit
      BY DEF Made
    <2>4. \A f \in File : disk'[f].mtime \in Nat /\ disk[f].mtime <= disk'[f].mtime
      BY <1>1, <2>1
    <2>5. \A u \in Made' \ queue' : /\ live'[handle'[u]] = live[handle[u]]
             /\ \A i \in DOMAIN entries[u] : i \in DOMAIN entries'[u] /\ entries'[u][i] = entries[u][i]
      BY <1>4, <2>1, <2>2, <2>3, StampSourced
    <2>6. QED
      BY <2>1, <2>2, <2>4, <2>5, StaysAlive DEF Whole
  <1>5. CASE CompileGood
    BY <1>5, CompileAlive DEF CompileGood, Compiled, Undisturbed
  <1>6. CASE Check
    BY <1>6, CheckAlive DEF Check, Undisturbed
  <1>7. CASE CompileBad \/ LinkBad \/ Throw \/ Destroy
    BY <1>7 DEF CompileBad, LinkBad, Throw, Destroy, Undisturbed
  <1>8. CASE Read \/ LinkNothing \/ LinkGood \/ CheckNothing \/ Draw
    <2>1. Undisturbed /\ UNCHANGED <<disk, entries, handle, live, queue>>
      BY <1>8 DEF Read, LinkNothing, LinkGood, AfterLink, CheckNothing, Draw, Undisturbed
    <2>2. Made' \ queue' = Made \ queue
      <3>1. CASE Read
        BY <3>1 DEF Read, Made, compiling
      <3>2. CASE LinkNothing \/ LinkGood
        <4>1. first => queue = {}
          BY <2>1, <3>2 DEF LinkNothing, LinkGood, Whole, Progress
        <4>2. stage = "link" /\ stage' # "read"
          BY <3>2 DEF LinkNothing, LinkGood, AfterLink
        <4>3. Made = Unit /\ Made' = Unit
          BY <3>2, <4>1, <4>2 DEF LinkNothing, LinkGood, AfterLink, Made
        <4>4. QED
          BY <2>1, <4>3
      <3>3. CASE CheckNothing \/ Draw
        BY <3>3 DEF CheckNothing, Draw, Made
      <3>4. QED
        BY <1>8, <3>1, <3>2, <3>3
    <2>3. Alive
      BY <2>1
    <2>4. QED
      BY <2>1, <2>2, <2>3 DEF Alive, Backed
  <1>9. CASE Ended \/ Tick \/ UNCHANGED vars
    <2>1. UNCHANGED <<disk, entries, handle, live, stage, queue, first, failed>>
      BY <1>9 DEF Ended, Tick, vars
    <2>2. Made' = Made /\ Undisturbed
      BY <2>1 DEF Made, compiling, Undisturbed
    <2>3. QED
      BY <2>1, <2>2 DEF Alive, Backed
  <1>10. QED
    BY <1>2, <1>3, <1>4, <1>5, <1>6, <1>7, <1>8, <1>9 DEF Next, Thread

LEMMA AliveIsFresh ==
  ASSUME Types, Kept, Sourced, Undisturbed => Whole /\ Alive
  PROVE  SourceFresh
  <1> SUFFICES ASSUME stage = "draw", ~failed, NEW u \in Unit,
                      NEW i \in DOMAIN exe[handle[u]].text
               PROVE  LET t == exe[handle[u]].text[i]
                          d == disk[t.file]
                      IN  (\E s \in Stamps(u, t.file) : s < d.mtime) \/ t.mtime = d.mtime
    BY DEF SourceFresh
  <1>1. Whole /\ Alive /\ exe = live /\ Made = Unit /\ queue = {}
    BY DEF Undisturbed, Whole, Progress, Made, Sourced, Settled
  <1>2. PICK t \in Text : t = live[handle[u]].text[i]
    BY <1>1, AliveTexts DEF Whole
  <1>3. Backed(u, t)
    BY <1>1, <1>2 DEF Alive
  <1>4. t.mtime \in Nat /\ t.file \in File /\ disk[t.file].mtime \in Nat
    BY ReloadAssumption DEF Text, Types, Typed
  <1>5. PICK j \in DOMAIN entries[u] : entries[u][j].file = t.file /\ entries[u][j].stamp <= t.mtime
    BY <1>3 DEF Backed
  <1>6. entries[u][j].stamp \in Stamps(u, t.file)
    BY <1>5 DEF Stamps, Range
  <1>7. entries[u][j] \in Noted
    BY DEF Types, Stamped
  <1>8. entries[u][j].stamp \in Nat
    BY <1>7 DEF Noted
  <1>9. t.mtime <= disk[t.file].mtime
    BY <1>3 DEF Backed
  <1>10. t.mtime # disk[t.file].mtime => entries[u][j].stamp < disk[t.file].mtime
    BY <1>4, <1>5, <1>8, <1>9
  <1>11. QED
    BY <1>1, <1>2, <1>6, <1>10

(* As long as nothing fails no save is lost, whenever it is made, also between the  *)
(* reading of a stamp and of the text: what is drawn is what is on disk, or a stamp *)
(* will show the save, or both fall within one second (Shader.cpp:76, 108, 539-551). *)
THEOREM SavesAreNotLost == Spec => []SourceFresh
  <1>1. Types /\ Kept /\ Sourced /\ (Undisturbed => Whole /\ Alive) => SourceFresh
    BY AliveIsFresh
  <1>2. Init => Types /\ Kept /\ Sourced /\ (Undisturbed => Whole) /\ (Undisturbed => Alive)
    BY TypesAtStart, KeptAtStart, SourcedAtStart, WholeAtStart
  <1>3. QED
    BY <1>1, <1>2, TypesNext, KeptNext, SourcedNext, WholeNext, AliveNext, PTL DEF Spec
================================================================================
