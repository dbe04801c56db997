--------------------------- MODULE WasmCacheProofs ---------------------------
(***************************************************************************)
(* Proofs about WasmCache, for any processes, tags, programs and images.   *)
(***************************************************************************)
EXTENDS WasmCache, FiniteSetTheorems, TLAPS

Contents == Programs \cup Foreign
Manifests == [platform : {"wasm", "amd64"}, digest : Digests]

(* What a process may be doing: pushing, or loading a program.              *)
Writing == [at : {"write"}, tag : Tags, program : Programs, list : SUBSET Manifests]
Indexing == [at : {"index"}, tag : Tags, list : SUBSET Manifests, digest : Digests]
Loading == [at : {"fetch", "copy", "rename", "open", "untar", "use", "node"},
            cmd : Commands, ref : Refs, data : Contents \cup {None}]
ProcType == {Idle} \cup Writing \cup Indexing \cup Loading

TempType == [owner : Procs \cup {None}, kind : {"file", "glue", "program"}]

TypeInv ==
  /\ images \in Seq(Contents) /\ Len(images) <= MaxImages
  /\ index \in [Tags -> [media : {"none", "index", "image"}, list : SUBSET Manifests]]
  /\ cache \in [Dirs -> [Refs -> Contents \cup {None}]]
  /\ temps \in SUBSET TempType
  /\ proc \in [Procs -> ProcType]
  /\ served \in [Refs -> SUBSET Contents]

(* A list that may be the list of an index: one program at most, and all    *)
(* of its images are in the registry.                                       *)
Sound(list) ==
  /\ \A m1, m2 \in list : IsWasm(m1) /\ IsWasm(m2) => m1 = m2
  /\ \A m \in list : m.digest \in DOMAIN images /\ (IsWasm(m) => images[m.digest] \in Programs)

(* The index of every tag is sound, and so is the one that a push has read  *)
(* and will write back; the image that it adds is in the registry by then.  *)
ListsInv ==
  /\ \A t \in Tags : Sound(index[t].list)
  /\ \A p \in Procs :
       /\ proc[p] \in Writing \cup Indexing => Sound(proc[p].list)
       /\ proc[p] \in Indexing =>
            proc[p].digest \in DOMAIN images /\ images[proc[p].digest] \in Programs

(* What the registry would give for a reference has been served for it.     *)
ServedInv ==
  /\ \A d \in Digests : served[d] = IF d \in DOMAIN images THEN {images[d]} ELSE {}
  /\ \A t \in Tags : \A m \in index[t].list :
       IsWasm(m) \/ index[t].media = "image" => images[m.digest] \in served[t]

(* So has what a process is about to put into the cache.                    *)
DataInv ==
  \A p \in Procs :
    proc[p] \in Loading /\ proc[p].at \in {"copy", "rename"} => proc[p].data \in served[proc[p].ref]

FilesInv == \A d \in Dirs, r \in Refs : cache[d][r] # None => cache[d][r] \in served[r]

TempsInv ==
  \A x \in temps : x.kind = "file" => x.owner = None \/ proc[x.owner].at \in {"copy", "rename"}

IndInv == TypeInv /\ ListsInv /\ ServedInv /\ DataInv /\ FilesInv /\ TempsInv

-----------------------------------------------------------------------------

(* How far a process is says what it is doing.                              *)
LEMMA ProcShape ==
  ASSUME TypeInv, NEW p \in Procs
  PROVE  /\ proc[p].at = "write" => proc[p] \in Writing
         /\ proc[p].at = "index" => proc[p] \in Indexing
         /\ proc[p].at \in {"fetch", "copy", "rename", "open", "untar", "use", "node"}
              => proc[p] \in Loading
         /\ proc[p] \in Writing => proc[p].at = "write"
         /\ proc[p] \in Indexing => proc[p].at = "index"
  <1>1. proc[p] \in ProcType
    BY DEF TypeInv
  <1>2. proc[p] = Idle => proc[p].at = "idle"
    BY DEF Idle
  <1> QED BY <1>1, <1>2 DEF ProcType, Writing, Indexing, Loading

(* A process takes a step of its own, and leaves the registry and the       *)
(* cache files alone.                                                       *)
LEMMA LocalStep ==
  ASSUME IndInv, NEW p \in Procs, NEW new \in {Idle} \cup Writing \cup Loading, Step(p, new),
         UNCHANGED <<images, index, cache, served>>,
         temps' \in SUBSET TempType,
         new \in Writing => Sound(new.list),
         new \in Loading /\ new.at \in {"copy", "rename"} => new.data \in served[new.ref],
         \A x \in temps' : x.kind = "file" =>
           \/ x.owner = None
           \/ x.owner = p /\ new.at \in {"copy", "rename"}
           \/ x.owner # p /\ x \in temps
  PROVE  IndInv'
  <1>1. proc' = [proc EXCEPT ![p] = new] /\ proc \in [Procs -> ProcType]
    BY DEF Step, IndInv, TypeInv
  <1>2. TypeInv'
    <2>1. proc' \in [Procs -> ProcType]
      BY <1>1 DEF ProcType
    <2> QED BY <2>1 DEF IndInv, TypeInv
  <1>3. ListsInv'
    <2>1. new \notin Indexing
      BY DEF Idle, Writing, Loading, Indexing
    <2>2. \A q \in Procs : q # p => proc'[q] = proc[q]
      BY <1>1
    <2>3. proc'[p] = new
      BY <1>1
    <2>4. \A list : Sound(list) => Sound(list)'
      BY DEF Sound
    <2> QED BY <2>1, <2>2, <2>3, <2>4 DEF IndInv, ListsInv
  <1>4. ServedInv' /\ FilesInv'
    BY DEF IndInv, ServedInv, FilesInv
  <1>5. DataInv'
    BY <1>1 DEF IndInv, DataInv
  <1>6. TempsInv'
    <2> SUFFICES ASSUME NEW x \in temps', x.kind = "file", x.owner # None
                 PROVE  proc'[x.owner].at \in {"copy", "rename"}
      BY DEF TempsInv
    <2>1. x.owner \in Procs
      BY DEF TempType
    <2>2. CASE x.owner = p
      BY <1>1, <2>2
    <2>3. CASE x.owner # p /\ x \in temps
      <3>1. proc[x.owner].at \in {"copy", "rename"}
        BY <2>3 DEF IndInv, TempsInv
      <3> QED BY <1>1, <2>1, <2>3, <3>1
    <2> QED BY <2>2, <2>3
  <1> QED BY <1>2, <1>3, <1>4, <1>5, <1>6 DEF IndInv

(* A process that downloads nothing has no temporary file.                  *)
LEMMA NoFile ==
  ASSUME IndInv, NEW p \in Procs, proc[p].at \notin {"copy", "rename"}
  PROVE  \A x \in temps : x.kind = "file" => x.owner = None \/ (x.owner # p /\ x \in temps)
  BY DEF IndInv, TempsInv

(* A process ends: it leaves no download behind, or has been killed.        *)
LEMMA EndStep ==
  ASSUME IndInv, NEW p \in Procs, End(p), UNCHANGED <<images, index, cache, served>>,
         temps' \in SUBSET TempType,
         \A x \in temps' : x.kind = "file" => x.owner = None \/ (x.owner # p /\ x \in temps)
  PROVE  IndInv'
  <1>1. Idle \notin Writing /\ Idle \notin Loading /\ Idle.at = "idle"
    BY DEF Idle, Writing, Loading
  <1>2. Step(p, Idle)
    BY DEF End
  <1> QED BY <1>1, <1>2, LocalStep

-----------------------------------------------------------------------------
(* The registry *)

(* A new image takes a new digest, and what was there stays.                *)
LEMMA NewImage ==
  ASSUME TypeInv, NEW content \in Contents, Len(images) < MaxImages,
         images' = Append(images, content)
  PROVE  /\ images' \in Seq(Contents) /\ Len(images') <= MaxImages
         /\ Len(images) + 1 \in Digests
         /\ Len(images) + 1 \notin DOMAIN images
         /\ DOMAIN images' = DOMAIN images \cup {Len(images) + 1}
         /\ images'[Len(images) + 1] = content
         /\ \A d \in DOMAIN images : images'[d] = images[d]
         /\ \A list : Sound(list) => Sound(list)'
  <1>1. images \in Seq(Contents) /\ Len(images) \in Nat /\ MaxImages \in Nat
    BY WasmCacheAssumption DEF TypeInv
  <1>2. /\ images' \in Seq(Contents) /\ Len(images') = Len(images) + 1
        /\ DOMAIN images = 1 .. Len(images) /\ DOMAIN images' = 1 .. Len(images) + 1
    BY <1>1
  <1>3. \A d \in DOMAIN images : images'[d] = images[d]
    BY <1>1, <1>2
  <1>4. images'[Len(images) + 1] = content
    BY <1>1, <1>2
  <1>5. DOMAIN images' = DOMAIN images \cup {Len(images) + 1}
    BY <1>1, <1>2
  <1>6. ASSUME NEW list, Sound(list)
        PROVE  Sound(list)'
    BY <1>3, <1>5, <1>6 DEF Sound
  <1>7. /\ Len(images) + 1 \in Digests /\ Len(images) + 1 \notin DOMAIN images
        /\ Len(images') <= MaxImages
    BY <1>1, <1>2 DEF Digests
  <1> QED BY <1>2, <1>3, <1>4, <1>5, <1>6, <1>7

(* A digest stands for its image, at once.                                  *)
LEMMA NewServed ==
  ASSUME IndInv, NEW content \in Contents, Len(images) < MaxImages,
         images' = Append(images, content),
         served' \in [Refs -> SUBSET Contents],
         served'[Len(images) + 1] = {content},
         \A d \in Digests \ {Len(images) + 1} : served'[d] = served[d],
         \A t \in Tags : served[t] \subseteq served'[t]
  PROVE  /\ \A d \in Digests : served'[d] = IF d \in DOMAIN images' THEN {images'[d]} ELSE {}
         /\ \A r \in Refs : served[r] \subseteq served'[r]
  <1>1. TypeInv /\ ServedInv
    BY DEF IndInv
  <1>2. /\ DOMAIN images' = DOMAIN images \cup {Len(images) + 1}
        /\ images'[Len(images) + 1] = content /\ Len(images) + 1 \notin DOMAIN images
        /\ \A d \in DOMAIN images : images'[d] = images[d]
    BY <1>1, NewImage
  <1>3. \A d \in Digests : served'[d] = IF d \in DOMAIN images' THEN {images'[d]} ELSE {}
    BY <1>1, <1>2 DEF ServedInv
  <1>4. \A d \in Digests : served[d] \subseteq served'[d]
    BY <1>1, <1>2 DEF ServedInv
  <1> QED BY <1>3, <1>4 DEF Refs

(* What has been served stays served.                                       *)
LEMMA StillServed ==
  ASSUME IndInv, \A r \in Refs : served[r] \subseteq served'[r]
  PROVE  /\ UNCHANGED proc => DataInv'
         /\ UNCHANGED cache => FilesInv'
  <1>1. ASSUME UNCHANGED proc
        PROVE  DataInv'
    BY <1>1 DEF IndInv, DataInv, Loading
  <1>2. ASSUME UNCHANGED cache
        PROVE  FilesInv'
    BY <1>2 DEF IndInv, FilesInv
  <1> QED BY <1>1, <1>2

(* A push that ends, or that goes on to the index, has no data.             *)
LEMMA StillData ==
  ASSUME IndInv, \A r \in Refs : served[r] \subseteq served'[r],
         NEW p \in Procs, NEW new \in {Idle} \cup Indexing, Step(p, new)
  PROVE  DataInv'
  <1>1. proc' = [proc EXCEPT ![p] = new] /\ proc \in [Procs -> ProcType] /\ new \notin Loading
    BY DEF Step, IndInv, TypeInv, Idle, Indexing, Loading
  <1> QED BY <1>1 DEF IndInv, DataInv, Loading

LEMMA StillTemps ==
  ASSUME IndInv, UNCHANGED temps, NEW p \in Procs, proc[p].at \notin {"copy", "rename"},
         NEW new, Step(p, new)
  PROVE  TempsInv'
  <1>1. proc' = [proc EXCEPT ![p] = new] /\ proc \in [Procs -> ProcType] /\ temps \subseteq TempType
    BY DEF Step, IndInv, TypeInv
  <1> QED BY <1>1 DEF IndInv, TempsInv, TempType

-----------------------------------------------------------------------------
(* Every action keeps the invariant *)

LEMMA PushGetInv ==
  ASSUME IndInv, NEW p \in Procs, NEW t \in Tags, NEW program \in Programs, PushGet(p, t, program)
  PROVE  IndInv'
  <1> DEFINE new == [at |-> "write", tag |-> t, program |-> program, list |-> index[t].list]
  <1>1. temps' \in SUBSET TempType /\ UNCHANGED <<images, index, cache, served, temps>>
    BY DEF PushGet, IndInv, TypeInv
  <1>2. proc[p].at \notin {"copy", "rename"}
    BY DEF PushGet, Idle
  <1>3. CASE Step(p, new)
    <2>1. new \in Writing /\ new \notin Loading /\ new.list = index[t].list
      BY DEF IndInv, TypeInv, Writing, Loading
    <2>2. Sound(new.list)
      BY <2>1 DEF IndInv, ListsInv
    <2> HIDE DEF new
    <2> QED BY <1>1, <1>2, <1>3, <2>1, <2>2, NoFile, LocalStep
  <1>4. CASE End(p)
    BY <1>1, <1>2, <1>4, NoFile, EndStep
  <1> QED BY <1>3, <1>4 DEF PushGet

LEMMA PushImageInv ==
  ASSUME IndInv, NEW p \in Procs, PushImage(p)
  PROVE  IndInv'
  <1> DEFINE content == proc[p].program
             new == [at |-> "index", tag |-> proc[p].tag, list |-> proc[p].list,
                     digest |-> Len(images) + 1]
  <1>1. TypeInv /\ proc[p] \in Writing /\ proc[p].at \notin {"copy", "rename"}
    BY ProcShape DEF IndInv, PushImage
  <1>2. UNCHANGED <<index, cache, temps>> /\ temps' \in SUBSET TempType
    BY <1>1 DEF PushImage, TypeInv
  <1>3. CASE Upload(content) /\ Step(p, new)
    <2>1. /\ content \in Contents /\ content \in Programs /\ Sound(proc[p].list)
          /\ Len(images) < MaxImages /\ images' = Append(images, content)
      BY <1>1, <1>3 DEF Upload, Writing, Contents, IndInv, ListsInv
    <2>2. /\ images' \in Seq(Contents) /\ Len(images') <= MaxImages
          /\ Len(images) + 1 \in Digests /\ Len(images) + 1 \notin DOMAIN images
          /\ DOMAIN images' = DOMAIN images \cup {Len(images) + 1}
          /\ images'[Len(images) + 1] = content
          /\ \A d \in DOMAIN images : images'[d] = images[d]
          /\ \A list : Sound(list) => Sound(list)'
      BY <1>1, <2>1, NewImage
    <2>3. /\ served' = [served EXCEPT ![Len(images) + 1] = {content}]
          /\ served \in [Refs -> SUBSET Contents] /\ Len(images) + 1 \in Refs
      BY <1>1, <1>3, <2>2 DEF Upload, TypeInv, Refs
    <2>4. /\ served' \in [Refs -> SUBSET Contents] /\ served'[Len(images) + 1] = {content}
          /\ \A d \in Digests \ {Len(images) + 1} : served'[d] = served[d]
          /\ \A t \in Tags : served[t] = served'[t]
      BY <2>1, <2>2, <2>3, WasmCacheAssumption DEF Refs
    <2>5. /\ \A d \in Digests : served'[d] = IF d \in DOMAIN images' THEN {images'[d]} ELSE {}
          /\ \A r \in Refs : served[r] \subseteq served'[r]
      BY <2>1, <2>4, NewServed
    <2>6. new \in Indexing /\ new \notin Writing /\ new.list = proc[p].list /\ new.digest = Len(images) + 1
      BY <1>1, <2>2 DEF Writing, Indexing
    <2> HIDE DEF new, content
    <2>7. proc' = [proc EXCEPT ![p] = new] /\ proc \in [Procs -> ProcType]
      BY <1>1, <1>3 DEF Step, TypeInv
    <2>8. TypeInv'
      <3>1. proc' \in [Procs -> ProcType]
        BY <2>6, <2>7 DEF ProcType
      <3> QED BY <1>1, <1>2, <2>2, <2>4, <3>1 DEF TypeInv
    <2>9. ListsInv'
      <3>1. \A t \in Tags : Sound(index[t].list)'
        BY <1>2, <2>2 DEF IndInv, ListsInv
      <3>2. ASSUME NEW q \in Procs, q # p
            PROVE  /\ proc'[q] \in Writing \cup Indexing => Sound(proc[q].list)'
                   /\ proc'[q] \in Indexing =>
                        proc'[q].digest \in DOMAIN images' /\ images'[proc'[q].digest] \in Programs
        <4>1. proc'[q] = proc[q]
          BY <2>7, <3>2
        <4>2. proc[q] \in Writing \cup Indexing => Sound(proc[q].list)
          BY DEF IndInv, ListsInv
        <4>3. proc[q] \in Indexing => proc[q].digest \in DOMAIN images /\ images[proc[q].digest] \in Programs
          BY DEF IndInv, ListsInv
        <4>4. proc[q] \in Writing \cup Indexing => Sound(proc[q].list)'
          BY <2>2, <4>1, <4>2 DEF Sound
        <4> QED BY <2>2, <4>1, <4>3, <4>4
      <3>3. /\ Sound(proc[p].list)'
            /\ proc'[p].digest \in DOMAIN images' /\ images'[proc'[p].digest] \in Programs
        <4>1. proc'[p] = new /\ proc'[p].list = proc[p].list
          BY <2>6, <2>7
        <4>2. Sound(proc[p].list)'
          BY <4>1, <2>1, <2>2 DEF Sound
        <4> QED BY <4>1, <4>2, <2>1, <2>2, <2>6
      <3> QED BY <3>1, <3>2, <3>3 DEF ListsInv
    <2>10. ServedInv'
      <3>1. \A t \in Tags : \A m \in index[t].list : m.digest \in DOMAIN images
        BY DEF IndInv, ListsInv, Sound
      <3> QED BY <1>2, <2>2, <2>4, <2>5, <3>1 DEF IndInv, ServedInv
    <2>11. DataInv'
      BY <1>3, <2>5, <2>6, StillData
    <2>12. FilesInv'
      BY <1>2, <2>5, StillServed
    <2>13. TempsInv'
      BY <1>1, <1>2, <1>3, StillTemps
    <2> QED BY <2>8, <2>9, <2>10, <2>11, <2>12, <2>13 DEF IndInv
  <1>4. CASE End(p) /\ UNCHANGED <<images, served>>
    BY <1>1, <1>2, <1>4, NoFile, EndStep
  <1> QED BY <1>3, <1>4 DEF PushImage

LEMMA PushIndexInv ==
  ASSUME IndInv, NEW p \in Procs, PushIndex(p)
  PROVE  IndInv'
  <1> DEFINE list == NewIndex(proc[p].list, proc[p].digest)
             tag == proc[p].tag
  <1>1. TypeInv /\ proc[p] \in Indexing /\ proc[p].at \notin {"copy", "rename"}
    BY ProcShape DEF IndInv, PushIndex
  <1>2. UNCHANGED <<images, cache, temps>> /\ temps' \in SUBSET TempType
    BY <1>1 DEF PushIndex, TypeInv
  <1>3. CASE /\ index' = [index EXCEPT ![tag] = [media |-> "index", list |-> list]]
             /\ served' = [served EXCEPT ![tag] = @ \union WasmContents(list)]
             /\ End(p)
    <2>1. /\ tag \in Tags /\ tag \in Refs /\ tag \notin Digests /\ proc[p].digest \in Digests
          /\ proc[p].list \subseteq Manifests
      BY <1>1, WasmCacheAssumption DEF Indexing, Refs
    <2>2. Sound(list) /\ list \subseteq Manifests
      <3>1. /\ Sound(proc[p].list)
            /\ proc[p].digest \in DOMAIN images /\ images[proc[p].digest] \in Programs
        BY <1>1 DEF IndInv, ListsInv
      <3> QED BY <2>1, <3>1 DEF NewIndex, Sound, IsWasm, Manifests
    <2>3. WasmContents(list) \subseteq Contents
      BY <2>2 DEF WasmContents, Sound, Contents
    <2>4. \A m \in list : IsWasm(m) => images[m.digest] \in WasmContents(list)
      BY DEF WasmContents
    <2> HIDE DEF list, tag
    <2>5. /\ served \in [Refs -> SUBSET Contents] /\ proc \in [Procs -> ProcType]
          /\ index \in [Tags -> [media : {"none", "index", "image"}, list : SUBSET Manifests]]
      BY <1>1 DEF TypeInv
    <2>6. /\ served' \in [Refs -> SUBSET Contents]
          /\ \A r \in Refs : served[r] \subseteq served'[r]
          /\ \A d \in Digests : served'[d] = served[d]
          /\ WasmContents(list) \subseteq served'[tag]
      BY <1>3, <2>1, <2>3, <2>5 DEF Refs
    <2>7. index' \in [Tags -> [media : {"none", "index", "image"}, list : SUBSET Manifests]]
      BY <1>3, <2>1, <2>2, <2>5
    <2>8. proc' = [proc EXCEPT ![p] = Idle]
      BY <1>3 DEF End, Step
    <2>9. TypeInv'
      <3>1. proc' \in [Procs -> ProcType]
        BY <2>5, <2>8 DEF ProcType
      <3> QED BY <1>1, <1>2, <2>6, <2>7, <3>1 DEF TypeInv
    <2>10. ListsInv'
      <3>1. \A l : Sound(l) => Sound(l)'
        BY <1>2 DEF Sound
      <3>2. Idle \notin Writing \cup Indexing
        BY DEF Idle, Writing, Indexing
      <3>3. \A t \in Tags : Sound(index[t].list)'
        <4>1. \A t \in Tags : index'[t].list = IF t = tag THEN list ELSE index[t].list
          BY <1>3, <2>5
        <4> QED BY <1>2, <2>2, <4>1 DEF IndInv, ListsInv, Sound
      <3>4. \A q \in Procs : proc'[q] = IF q = p THEN Idle ELSE proc[q]
        BY <2>5, <2>8
      <3> QED BY <1>2, <3>1, <3>2, <3>3, <3>4 DEF IndInv, ListsInv
    <2>11. ServedInv'
      <3> SUFFICES ASSUME NEW t \in Tags, NEW m \in index'[t].list,
                          IsWasm(m) \/ index'[t].media = "image"
                   PROVE  images[m.digest] \in served'[t]
        BY <1>2, <2>6 DEF IndInv, ServedInv
      <3>1. CASE t = tag
        <4>1. m \in list /\ IsWasm(m)
          BY <1>3, <2>1, <2>5, <3>1
        <4> QED BY <2>4, <2>6, <3>1, <4>1
      <3>2. CASE t # tag
        <4>1. index'[t] = index[t] /\ t \in Refs
          BY <1>3, <2>5, <3>2 DEF Refs
        <4> QED BY <2>6, <4>1 DEF IndInv, ServedInv
      <3> QED BY <3>1, <3>2
    <2>12. DataInv' /\ FilesInv' /\ TempsInv'
      BY <1>1, <1>2, <1>3, <2>6, StillData, StillServed, StillTemps DEF End
    <2> QED BY <2>9, <2>10, <2>11, <2>12 DEF IndInv
  <1>4. CASE End(p) /\ UNCHANGED <<index, served>>
    BY <1>1, <1>2, <1>4, NoFile, EndStep
  <1> QED BY <1>3, <1>4 DEF PushIndex

LEMMA OtherPushInv ==
  ASSUME IndInv, NEW t \in Tags, NEW media \in {"index", "image"}, NEW content \in Foreign,
         OtherPush(t, media, content)
  PROVE  IndInv'
  <1> DEFINE d == Len(images) + 1
             m == [platform |-> "amd64", digest |-> d]
             kept == IF media = "image" THEN {} ELSE {x \in index[t].list : IsWasm(x)}
             new == IF media = "image" THEN {content} ELSE {}
  <1>1. /\ TypeInv /\ content \in Contents
        /\ Len(images) < MaxImages /\ images' = Append(images, content)
        /\ index' = [index EXCEPT ![t] = [media |-> media, list |-> {m} \union kept]]
        /\ served' = [served EXCEPT ![d] = {content}, ![t] = @ \union new]
        /\ UNCHANGED <<cache, temps, proc>>
    BY DEF OtherPush, IndInv, Contents
  <1>2. /\ images' \in Seq(Contents) /\ Len(images') <= MaxImages
        /\ d \in Digests /\ d \notin DOMAIN images
        /\ DOMAIN images' = DOMAIN images \cup {d}
        /\ images'[d] = content
        /\ \A e \in DOMAIN images : images'[e] = images[e]
        /\ \A list : Sound(list) => Sound(list)'
    BY <1>1, NewImage
  <1>3. /\ served \in [Refs -> SUBSET Contents] /\ d \in Refs /\ t \in Refs /\ t \notin Digests
        /\ index \in [Tags -> [media : {"none", "index", "image"}, list : SUBSET Manifests]]
        /\ new \subseteq Contents
    BY <1>1, <1>2, WasmCacheAssumption DEF TypeInv, Refs
  <1>4. /\ m \in Manifests /\ ~IsWasm(m) /\ m.digest = d
        /\ kept \subseteq index[t].list
        /\ \A x \in kept : IsWasm(x)
    BY <1>2, <1>3 DEF Manifests, IsWasm
  <1>5. media = "image" => kept = {} /\ new = {content}
    OBVIOUS
  <1> HIDE DEF d, m, kept, new
  <1>6. /\ served' \in [Refs -> SUBSET Contents] /\ served'[d] = {content}
        /\ \A e \in Digests \ {d} : served'[e] = served[e]
        /\ \A u \in Tags : served[u] \subseteq served'[u]
        /\ new \subseteq served'[t]
    BY <1>1, <1>2, <1>3, WasmCacheAssumption DEF Refs
  <1>7. /\ \A e \in Digests : served'[e] = IF e \in DOMAIN images' THEN {images'[e]} ELSE {}
        /\ \A r \in Refs : served[r] \subseteq served'[r]
    BY <1>1, <1>6, NewServed DEF d
  <1>8. TypeInv'
    <2>1. index[t].list \subseteq Manifests
      BY <1>3
    <2>2. index' \in [Tags -> [media : {"none", "index", "image"}, list : SUBSET Manifests]]
      BY <1>1, <1>3, <1>4, <2>1
    <2> QED BY <1>1, <1>2, <1>6, <2>2 DEF TypeInv
  <1>9. \A u \in Tags : index'[u] = IF u = t THEN [media |-> media, list |-> {m} \union kept] ELSE index[u]
    BY <1>1, <1>3
  <1>10. ListsInv'
    <2>1. ASSUME NEW list, list = {m} \cup kept
          PROVE  Sound(list)'
      <3>1. Sound(index[t].list)
        BY DEF IndInv, ListsInv
      <3> QED BY <3>1, <1>2, <1>4, <2>1 DEF Sound
    <2>2. \A u \in Tags : Sound(index[u].list)'
      <3>1. index'[t].list = {m} \cup kept /\ \A u \in Tags \ {t} : index'[u].list = index[u].list
        BY <1>9
      <3>2. ASSUME NEW u \in Tags \ {t}
            PROVE  Sound(index[u].list)'
        BY <1>2, <3>1 DEF IndInv, ListsInv, Sound
      <3>3. Sound(index[t].list)'
        BY <2>1, <3>1 DEF Sound
      <3> QED BY <3>2, <3>3
    <2> QED BY <1>1, <1>2, <2>2 DEF IndInv, ListsInv
  <1>11. ServedInv'
    <2> SUFFICES ASSUME NEW u \in Tags, NEW x \in index'[u].list,
                        IsWasm(x) \/ index'[u].media = "image"
                 PROVE  images'[x.digest] \in served'[u]
      BY <1>7 DEF ServedInv
    <2>1. ASSUME x \in index[u].list, IsWasm(x) \/ index[u].media = "image"
          PROVE  images'[x.digest] \in served'[u]
      <3>1. x.digest \in DOMAIN images /\ images[x.digest] \in served[u]
        BY <2>1 DEF IndInv, ListsInv, Sound, ServedInv
      <3> QED BY <1>2, <1>6, <3>1
    <2>2. CASE u # t
      BY <1>9, <2>1, <2>2
    <2>3. CASE u = t
      <3>1. x \in {m} \cup kept /\ index'[u].media = media
        BY <1>9, <2>3
      <3>2. CASE x = m
        BY <1>2, <1>4, <1>5, <1>6, <2>3, <3>1, <3>2
      <3>3. CASE x \in kept
        BY <1>4, <2>1, <2>3, <3>3
      <3> QED BY <3>1, <3>2, <3>3
    <2> QED BY <2>2, <2>3
  <1>12. DataInv' /\ FilesInv'
    BY <1>1, <1>7, StillServed
  <1>13. TempsInv'
    BY <1>1 DEF IndInv, TempsInv
  <1> QED BY <1>8, <1>10, <1>11, <1>12, <1>13 DEF IndInv

LEMMA LoadWasmInv ==
  ASSUME IndInv, NEW p \in Procs, NEW cmd \in Commands, NEW r \in Refs, LoadWasm(p, cmd, r)
  PROVE  IndInv'
  <1> DEFINE data == cache[CacheDir(cmd)][r]
             new == [at |-> IF data = None THEN "fetch" ELSE "untar", cmd |-> cmd, ref |-> r, data |-> data]
  <1>1. UNCHANGED <<images, index, cache, served>> /\ temps' = NewFn(p, cmd)
        /\ proc[p].at \notin {"copy", "rename"} /\ temps \subseteq TempType
    BY DEF LoadWasm, Idle, IndInv, TypeInv
  <1>2. /\ temps' \in SUBSET TempType
        /\ \A x \in temps' : x.kind = "file" => x.owner = None \/ (x.owner # p /\ x \in temps)
    BY <1>1, NoFile DEF NewFn, TempType
  <1>3. CASE Step(p, new)
    <2>1. data \in Contents \cup {None}
      BY DEF IndInv, TypeInv, CacheDir, Dirs
    <2>2. new \in Loading /\ new \notin Writing /\ new.at \notin {"copy", "rename"}
      BY <2>1 DEF Loading, Writing
    <2> HIDE DEF new
    <2> QED BY <1>1, <1>2, <1>3, <2>2, LocalStep
  <1>4. CASE End(p)
    BY <1>1, <1>2, <1>4, EndStep
  <1> QED BY <1>3, <1>4 DEF LoadWasm

(* What the registry gives for a reference is served for it.                *)
LEMMA RemoteImageServed ==
  ASSUME IndInv, NEW r \in Refs
  PROVE  RemoteImage(r) \subseteq served[r]
  <1>1. CASE r \in Digests
    BY <1>1 DEF RemoteImage, IndInv, ServedInv
  <1>2. CASE r \in Tags /\ r \notin Digests
    BY <1>2 DEF RemoteImage, WasmContents, IndInv, ServedInv
  <1> QED BY <1>1, <1>2 DEF Refs

(* A process goes on loading.                                               *)
LEMMA LoadStep ==
  ASSUME IndInv, NEW p \in Procs, NEW new \in Loading, Step(p, new),
         UNCHANGED <<images, index, cache, served>>,
         temps' \in SUBSET TempType,
         new.at \in {"copy", "rename"} => new.data \in served[new.ref],
         \A x \in temps' : x.kind = "file" =>
           \/ x.owner = None
           \/ x.owner = p /\ new.at \in {"copy", "rename"}
           \/ x.owner # p /\ x \in temps
  PROVE  IndInv'
  <1>1. new \notin Writing
    BY DEF Loading, Writing
  <1> QED BY <1>1, LocalStep

LEMMA FetchInv ==
  ASSUME IndInv, NEW p \in Procs, Fetch(p)
  PROVE  IndInv'
  <1>1. /\ proc[p] \in Loading /\ proc[p].at \notin {"copy", "rename"}
        /\ UNCHANGED <<images, index, cache, served>> /\ temps \subseteq TempType
    BY ProcShape DEF Fetch, IndInv, TypeInv
  <1>2. ASSUME NEW data \in RemoteImage(proc[p].ref),
               Step(p, [proc[p] EXCEPT !.at = "copy", !.data = data]),
               temps' = temps \union {Temp(p)}
        PROVE  IndInv'
    <2> DEFINE new == [proc[p] EXCEPT !.at = "copy", !.data = data]
    <2>1. data \in served[proc[p].ref] /\ data \in Contents
      BY <1>1, RemoteImageServed DEF Loading, IndInv, TypeInv
    <2>2. new \in Loading /\ new.at = "copy" /\ new.data = data /\ new.ref = proc[p].ref
      BY <1>1, <2>1 DEF Loading
    <2>3. temps' \in SUBSET TempType /\ Temp(p).owner = p
      BY <1>1, <1>2 DEF Temp, TempType
    <2> HIDE DEF new
    <2>4. Step(p, new)
      BY <1>2 DEF new
    <2>5. \A x \in temps' : x.kind = "file" => x.owner = None \/ x.owner = p \/ (x.owner # p /\ x \in temps)
      BY <1>2, <2>3
    <2> QED BY <1>1, <2>1, <2>2, <2>3, <2>4, <2>5, LoadStep
  <1>3. CASE End(p) /\ UNCHANGED temps
    BY <1>1, <1>3, NoFile, EndStep
  <1> QED BY <1>2, <1>3 DEF Fetch

(* The temporary file of a process is the only one it has.                  *)
LEMMA OneTemp ==
  ASSUME IndInv, NEW p \in Procs
  PROVE  /\ temps \ {Temp(p)} \in SUBSET TempType
         /\ \A x \in temps \ {Temp(p)} : x.kind = "file" => x.owner # p /\ x \in temps
  BY DEF IndInv, TypeInv, TempType, Temp

LEMMA CopyInv ==
  ASSUME IndInv, NEW p \in Procs, Copy(p)
  PROVE  IndInv'
  <1>1. /\ proc[p] \in Loading /\ proc[p].at = "copy" /\ proc[p].data \in served[proc[p].ref]
        /\ UNCHANGED <<images, index, cache, served>> /\ temps \subseteq TempType
    BY ProcShape DEF Copy, IndInv, TypeInv, DataInv
  <1>2. CASE Step(p, [proc[p] EXCEPT !.at = "rename"]) /\ UNCHANGED temps
    <2> DEFINE new == [proc[p] EXCEPT !.at = "rename"]
    <2>1. new \in Loading /\ new.at = "rename" /\ new.data = proc[p].data /\ new.ref = proc[p].ref
      BY <1>1 DEF Loading
    <2> HIDE DEF new
    <2>2. Step(p, new)
      BY <1>2 DEF new
    <2> QED BY <1>1, <1>2, <2>1, <2>2, LoadStep
  <1>3. CASE End(p) /\ temps' = temps \ {Temp(p)}
    BY <1>1, <1>3, OneTemp, EndStep
  <1> QED BY <1>2, <1>3 DEF Copy

LEMMA RenameInv ==
  ASSUME IndInv, NEW p \in Procs, Rename(p)
  PROVE  IndInv'
  <1>1. /\ proc[p] \in Loading /\ proc[p].at = "rename" /\ proc[p].data \in served[proc[p].ref]
        /\ UNCHANGED <<images, index, served>> /\ temps' = temps \ {Temp(p)} /\ temps \subseteq TempType
    BY ProcShape DEF Rename, IndInv, TypeInv, DataInv
  <1>2. CASE /\ cache' = [cache EXCEPT ![CacheDir(proc[p].cmd)][proc[p].ref] = proc[p].data]
             /\ Step(p, [proc[p] EXCEPT !.at = "open"])
    <2> DEFINE new == [proc[p] EXCEPT !.at = "open"]
               dir == CacheDir(proc[p].cmd)
    <2>1. new \in Loading /\ new.at = "open"
      BY <1>1 DEF Loading
    <2>2. new \notin Writing \cup Indexing
      BY <2>1 DEF Writing, Indexing
    <2>3. /\ dir \in Dirs /\ proc[p].ref \in Refs /\ proc[p].data \in Contents \cup {None}
          /\ cache \in [Dirs -> [Refs -> Contents \cup {None}]] /\ proc \in [Procs -> ProcType]
      BY <1>1 DEF Loading, CacheDir, Dirs, IndInv, TypeInv
    <2> HIDE DEF new, dir
    <2>4. proc' = [proc EXCEPT ![p] = new] /\ cache' = [cache EXCEPT ![dir][proc[p].ref] = proc[p].data]
      BY <1>2 DEF Step, new, dir
    <2>5. TypeInv'
      <3>1. proc' \in [Procs -> ProcType] /\ cache' \in [Dirs -> [Refs -> Contents \cup {None}]]
        BY <2>1, <2>3, <2>4 DEF ProcType
      <3>2. temps' \in SUBSET TempType
        BY <1>1
      <3> QED BY <1>1, <3>1, <3>2 DEF IndInv, TypeInv
    <2>6. ListsInv'
      <3>1. \A q \in Procs : proc'[q] = IF q = p THEN new ELSE proc[q]
        BY <2>3, <2>4
      <3> QED BY <1>1, <2>2, <3>1 DEF IndInv, ListsInv, Sound
    <2>7. ServedInv'
      BY <1>1 DEF IndInv, ServedInv
    <2>8. DataInv'
      BY <1>1, <2>1, <2>3, <2>4 DEF IndInv, DataInv
    <2>9. FilesInv'
      BY <1>1, <2>3, <2>4 DEF IndInv, FilesInv
    <2>10. TempsInv'
      BY <1>1, <2>3, <2>4, OneTemp DEF IndInv, TempsInv, TempType
    <2> QED BY <2>5, <2>6, <2>7, <2>8, <2>9, <2>10 DEF IndInv
  <1>3. CASE End(p) /\ UNCHANGED cache
    BY <1>1, <1>3, OneTemp, EndStep
  <1> QED BY <1>2, <1>3 DEF Rename

LEMMA OpenInv ==
  ASSUME IndInv, NEW p \in Procs, Open(p)
  PROVE  IndInv'
  <1>1. /\ proc[p] \in Loading /\ proc[p].at = "open"
        /\ UNCHANGED <<images, index, cache, served, temps>> /\ temps' \in SUBSET TempType
    BY ProcShape DEF Open, IndInv, TypeInv
  <1>2. CASE Step(p, [proc[p] EXCEPT !.at = "untar", !.data = Cached(p)])
    <2> DEFINE new == [proc[p] EXCEPT !.at = "untar", !.data = Cached(p)]
    <2>1. Cached(p) \in Contents \cup {None}
      BY <1>1 DEF Cached, CacheDir, Dirs, Loading, IndInv, TypeInv
    <2>2. new \in Loading /\ new.at = "untar"
      BY <1>1, <2>1 DEF Loading
    <2> HIDE DEF new
    <2>3. Step(p, new)
      BY <1>2 DEF new
    <2> QED BY <1>1, <2>2, <2>3, NoFile, LoadStep
  <1>3. CASE End(p)
    BY <1>1, <1>3, NoFile, EndStep
  <1> QED BY <1>2, <1>3 DEF Open

(* What the commands do with the program does not touch the cache.          *)
LEMMA UseInv ==
  ASSUME IndInv, NEW p \in Procs,
         LoadWasmFromTar(p) \/ Pull(p) \/ Wasmtime(p) \/ GetFilePath(p) \/ Node(p)
  PROVE  IndInv'
  <1>1. /\ proc[p] \in Loading /\ proc[p].at \in {"untar", "use", "node"}
        /\ UNCHANGED <<images, index, cache, served>> /\ temps \subseteq TempType
    BY ProcShape DEF LoadWasmFromTar, Pull, Wasmtime, GetFilePath, Node, IndInv, TypeInv
  <1>2. ASSUME NEW next \in {"use", "node"}, Step(p, [proc[p] EXCEPT !.at = next]),
               temps' \in {temps, temps \union {[owner |-> p, kind |-> "program"]}}
        PROVE  IndInv'
    <2> DEFINE new == [proc[p] EXCEPT !.at = next]
    <2>1. new \in Loading /\ new.at \notin {"copy", "rename"}
      BY <1>1, <1>2 DEF Loading
    <2>2. /\ temps' \in SUBSET TempType
          /\ \A x \in temps' : x.kind = "file" => x.owner = None \/ (x.owner # p /\ x \in temps)
      BY <1>1, <1>2, NoFile DEF TempType
    <2> HIDE DEF new
    <2>3. Step(p, new)
      BY <1>2 DEF new
    <2> QED BY <1>1, <2>1, <2>2, <2>3, LoadStep
  <1>3. ASSUME End(p), temps' \in SUBSET temps
        PROVE  IndInv'
    BY <1>1, <1>3, NoFile, EndStep
  <1>4. CASE LoadWasmFromTar(p)
    BY <1>2, <1>3, <1>4 DEF LoadWasmFromTar
  <1>5. CASE Pull(p) \/ Wasmtime(p)
    BY <1>3, <1>5 DEF Pull, Wasmtime
  <1>6. CASE GetFilePath(p)
    BY <1>2, <1>3, <1>6 DEF GetFilePath
  <1>7. CASE Node(p)
    BY <1>3, <1>7 DEF Node
  <1> QED BY <1>4, <1>5, <1>6, <1>7

LEMMA KillInv ==
  ASSUME IndInv, NEW p \in Procs, Kill(p)
  PROVE  IndInv'
  <1>1. /\ End(p) /\ UNCHANGED <<images, index, cache, served>> /\ temps \subseteq TempType
        /\ temps' = {IF x.owner = p THEN [x EXCEPT !.owner = None] ELSE x : x \in temps}
    BY DEF Kill, IndInv, TypeInv
  <1>2. temps' \in SUBSET TempType
    BY <1>1 DEF TempType
  <1>3. \A x \in temps' : x.owner = None \/ (x.owner # p /\ x \in temps)
    BY <1>1 DEF TempType
  <1> QED BY <1>1, <1>2, <1>3, EndStep

-----------------------------------------------------------------------------
LEMMA InitInv == Init => IndInv
  <1> SUFFICES ASSUME Init
               PROVE  IndInv
    OBVIOUS
  <1>1. images = <<>> /\ DOMAIN images = {} /\ Len(images) = 0
    BY DEF Init
  <1>2. TypeInv
    BY <1>1, WasmCacheAssumption DEF Init, TypeInv, NoTag, ProcType
  <1>3. ListsInv
    BY <1>1 DEF Init, ListsInv, Sound, NoTag, Idle, Writing, Indexing
  <1>4. ServedInv
    BY <1>1 DEF Init, ServedInv, NoTag, Refs
  <1>5. DataInv /\ FilesInv /\ TempsInv
    BY DEF Init, DataInv, FilesInv, TempsInv, Idle, Loading
  <1> QED BY <1>2, <1>3, <1>4, <1>5 DEF IndInv

LEMMA NextInv == IndInv /\ [Next]_vars => IndInv'
  <1> SUFFICES ASSUME IndInv, [Next]_vars
               PROVE  IndInv'
    OBVIOUS
  <1>1. ASSUME NEW p \in Procs,
               \/ \E t \in Tags, program \in Programs : PushGet(p, t, program)
               \/ PushImage(p) \/ PushIndex(p)
        PROVE  IndInv'
    BY <1>1, PushGetInv, PushImageInv, PushIndexInv
  <1>2. ASSUME NEW p \in Procs,
               \/ \E cmd \in Commands, r \in Refs : LoadWasm(p, cmd, r)
               \/ Fetch(p) \/ Copy(p) \/ Rename(p) \/ Open(p)
        PROVE  IndInv'
    BY <1>2, LoadWasmInv, FetchInv, CopyInv, RenameInv, OpenInv
  <1>3. ASSUME NEW p \in Procs,
               \/ LoadWasmFromTar(p) \/ Pull(p) \/ Wasmtime(p) \/ GetFilePath(p) \/ Node(p)
               \/ Kill(p)
        PROVE  IndInv'
    BY <1>3, UseInv, KillInv
  <1>4. ASSUME NEW t \in Tags, NEW media \in {"index", "image"}, NEW content \in Foreign,
               OtherPush(t, media, content)
        PROVE  IndInv'
    BY <1>4, OtherPushInv
  <1>5. CASE UNCHANGED vars
    BY <1>5 DEF vars, IndInv, TypeInv, ListsInv, Sound, ServedInv, DataInv, FilesInv, TempsInv
  <1> QED BY <1>1, <1>2, <1>3, <1>4, <1>5 DEF Next

(* A set whose elements are all the same has one element at most.           *)
LEMMA AtMostOne ==
  ASSUME NEW S, \A x, y \in S : x = y
  PROVE  Cardinality(S) <= 1
  <1>1. CASE S = {}
    BY <1>1, FS_EmptySet
  <1>2. CASE \E x : S = {x}
    BY <1>2, FS_Singleton
  <1> QED BY <1>1, <1>2

(* The cache files are whole, and were what their references stood for,     *)
(* however many processes download together and are killed on the way       *)
(* (WithCacheFile: a temporary file, and then the rename).                  *)
THEOREM CacheIsWholeHolds == Spec => []CacheIsWhole
  <1>1. IndInv => CacheIsWhole
    BY DEF IndInv, FilesInv, TempsInv, CacheIsWhole
  <1> QED BY <1>1, InitInv, NextInv, PTL DEF Spec

(* An index names one program at most, and only images of the registry,     *)
(* whichever pushes overlap (PushWasm: the image first, then the index).    *)
THEOREM IndexSoundHolds == Spec => []IndexSound
  <1>1. IndInv => IndexSound
    <2> SUFFICES ASSUME IndInv, NEW t \in Tags
                 PROVE  /\ Cardinality({m \in index[t].list : IsWasm(m)}) <= 1
                        /\ \A m \in index[t].list :
                             m.digest \in DOMAIN images /\ (IsWasm(m) => images[m.digest] \in Programs)
      BY DEF IndexSound
    <2>1. Sound(index[t].list)
      BY DEF IndInv, ListsInv
    <2>2. \A x, y \in {m \in index[t].list : IsWasm(m)} : x = y
      BY <2>1 DEF Sound
    <2> QED BY <2>1, <2>2, AtMostOne DEF Sound
  <1> QED BY <1>1, InitInv, NextInv, PTL DEF Spec

=============================================================================
