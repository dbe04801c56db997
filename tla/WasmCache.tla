------------------------------ MODULE WasmCache ------------------------------
(***************************************************************************)
(* Wasm functions in a registry, and the files that kpt keeps of them.     *)
(*                                                                         *)
(* kpt alpha wasm push puts a program into the index of a tag, beside the  *)
(* images of other platforms; kpt alpha wasm pull and the wasm runtimes    *)
(* take it from there, through a directory of cache files that all         *)
(* processes of the machine share.  The registry is external: a request    *)
(* is one step, and may fail.  Any process may die at any time.            *)
(***************************************************************************)
EXTENDS Naturals, Sequences, FiniteSets

CONSTANTS
  Procs,
  Tags,
  Programs,     \* what people push
  Foreign,      \* what other tools push: tars of another shape
  MaxImages,    \* bound: images in the registry; the digest of an image is its number
  MaxLoads,     \* bound: commands that load a program
  None

Digests == 1..MaxImages

\* name:tag is never name@digest.
ASSUME WasmCacheAssumption ==
  /\ MaxImages \in Nat /\ MaxLoads \in Nat
  /\ None \notin Programs \union Foreign
  /\ Tags \intersect Digests = {}

Refs == Tags \union Digests
Dirs == {"kpt", "krm-fn-wasm"}

VARIABLES
  images,    \* the contents of the images, by digest
  index,     \* index[t]: what tag t is
  cache,     \* cache[dir][ref]: the cache file
  temps,     \* temporary files and directories; nobody owns those of a killed process
  proc,      \* proc[p]: the command that p runs, and how far it is
  loads,     \* how many programs have been asked for
  served     \* history: the contents that a reference has stood for

vars == <<images, index, cache, temps, proc, loads, served>>

Idle == [at |-> "idle"]

\* m is a manifest of an index.
IsWasm(m) == m.platform = "wasm"
NoTag == [media |-> "none", list |-> {}]

-----------------------------------------------------------------------------
Init ==
  /\ images = <<>>
  /\ index = [t \in Tags |-> NoTag]
  /\ cache = [d \in Dirs |-> [r \in Refs |-> None]]
  /\ temps = {}
  /\ proc = [p \in Procs |-> Idle]
  /\ loads = 0
  /\ served = [r \in Refs |-> {}]

Step(p, new) == proc' = [proc EXCEPT ![p] = new]
End(p) == Step(p, Idle)

\* A new image of the registry, by digest.
Upload(content) ==
  /\ Len(images) < MaxImages
  /\ images' = Append(images, content)
  /\ served' = [served EXCEPT ![Len(images) + 1] = {content}]

-----------------------------------------------------------------------------
(* kpt alpha wasm push *)

\* remote.Get: no such tag is fine; a tag that is one image and not an index is an error.
PushGet(p, t, program) ==
  /\ proc[p] = Idle
  /\ \/ /\ index[t].media # "image"
        /\ Step(p, [at |-> "write", tag |-> t, program |-> program, list |-> index[t].list])
     \/ End(p)
  /\ UNCHANGED <<images, index, cache, temps, loads, served>>

\* The layer and then the image, by its digest: no tag names it yet.
PushImage(p) ==
  /\ proc[p].at = "write"
  /\ \/ /\ Upload(proc[p].program)
        /\ Step(p, [at |-> "index", tag |-> proc[p].tag, list |-> proc[p].list, digest |-> Len(images) + 1])
     \/ End(p) /\ UNCHANGED <<images, served>>
  /\ UNCHANGED <<index, cache, temps, loads>>

\* A mutant: the old program stays in the index.
NewIndexAppend(list, digest) == list \union {[platform |-> "wasm", digest |-> digest]}

\* The new program takes the place of the old one.
NewIndex(list, digest) ==
  {m \in list : ~IsWasm(m)} \union {[platform |-> "wasm", digest |-> digest]}

WasmContents(list) == {images[m.digest] : m \in {m \in list : IsWasm(m)}}

\* The index that was read at the start, with the new image.
PushIndex(p) ==
  LET list == NewIndex(proc[p].list, proc[p].digest) IN
  /\ proc[p].at = "index"
  /\ \/ /\ index' = [index EXCEPT ![proc[p].tag] = [media |-> "index", list |-> list]]
        /\ served' = [served EXCEPT ![proc[p].tag] = @ \union WasmContents(list)]
        /\ End(p)
     \/ End(p) /\ UNCHANGED <<index, served>>
  /\ UNCHANGED <<images, cache, temps, loads>>

\* Another tool adds an image for another platform to the index, or makes the tag that image.
OtherPush(t, media, content) ==
  LET m == [platform |-> "amd64", digest |-> Len(images) + 1] IN
  /\ Len(images) < MaxImages
  /\ images' = Append(images, content)
  /\ index' = [index EXCEPT ![t] =
       [media |-> media,
        list |-> {m} \union (IF media = "image" THEN {} ELSE {x \in index[t].list : IsWasm(x)})]]
  /\ served' = [served EXCEPT ![Len(images) + 1] = {content},
                              ![t] = @ \union (IF media = "image" THEN {content} ELSE {})]
  /\ UNCHANGED <<cache, temps, proc, loads>>

-----------------------------------------------------------------------------
(* The cache file *)

Commands == {"pull", "wasmtime", "nodejs"}
CacheDir(cmd) == IF cmd = "pull" THEN "kpt" ELSE "krm-fn-wasm"

Cached(p) == cache[CacheDir(proc[p].cmd)][proc[p].ref]
Temp(p) == [owner |-> p, kind |-> "file"]

\* node.js needs its glue code in a directory, which is made first.
NewFn(p, cmd) == IF cmd = "nodejs" THEN temps \union {[owner |-> p, kind |-> "glue"]} ELSE temps

\* A command opens the cache file of its reference.
LoadWasm(p, cmd, r) ==
  /\ proc[p] = Idle /\ loads < MaxLoads
  /\ loads' = loads + 1
  /\ temps' = NewFn(p, cmd)
  /\ \/ /\ Step(p, LET data == cache[CacheDir(cmd)][r] IN
                   [at |-> IF data = None THEN "fetch" ELSE "untar", cmd |-> cmd, ref |-> r, data |-> data])
     \/ End(p)
  /\ UNCHANGED <<images, index, cache, served>>

\* What remote.Image gives for platform js/wasm: an image that is no index is taken as it is.
RemoteImage(r) ==
  IF r \in Digests THEN {images[d] : d \in {r} \intersect DOMAIN images}
  ELSE IF index[r].media = "image" THEN {images[m.digest] : m \in index[r].list}
  ELSE WasmContents(index[r].list)

Fetch(p) ==
  /\ proc[p].at = "fetch"
  /\ \/ \E data \in RemoteImage(proc[p].ref) :
          /\ Step(p, [proc[p] EXCEPT !.at = "copy", !.data = data])
          /\ temps' = temps \union {Temp(p)}
     \/ End(p) /\ UNCHANGED temps
  /\ UNCHANGED <<images, index, cache, loads, served>>

\* A mutant: the download is written to the cache file itself.
CopyInPlace(p) ==
  /\ proc[p].at = "copy"
  /\ \/ /\ Step(p, [proc[p] EXCEPT !.at = "rename"])
        /\ cache' = [cache EXCEPT ![CacheDir(proc[p].cmd)][proc[p].ref] = "half"]
        /\ UNCHANGED temps
     \/ End(p) /\ temps' = temps \ {Temp(p)} /\ UNCHANGED cache
  /\ UNCHANGED <<images, index, loads, served>>

\* The download goes to the temporary file, which a failure removes.
Copy(p) ==
  /\ proc[p].at = "copy"
  /\ \/ Step(p, [proc[p] EXCEPT !.at = "rename"]) /\ UNCHANGED temps
     \/ End(p) /\ temps' = temps \ {Temp(p)}
  /\ UNCHANGED <<images, index, cache, loads, served>>

Rename(p) ==
  /\ proc[p].at = "rename"
  /\ temps' = temps \ {Temp(p)}
  /\ \/ /\ cache' = [cache EXCEPT ![CacheDir(proc[p].cmd)][proc[p].ref] = proc[p].data]
        /\ Step(p, [proc[p] EXCEPT !.at = "open"])
     \/ End(p) /\ UNCHANGED cache
  /\ UNCHANGED <<images, index, loads, served>>

\* Another process may have renamed its own file meanwhile.
Open(p) ==
  /\ proc[p].at = "open"
  /\ \/ Step(p, [proc[p] EXCEPT !.at = "untar", !.data = Cached(p)])
     \/ End(p)
  /\ UNCHANGED <<images, index, cache, temps, loads, served>>

-----------------------------------------------------------------------------
(* What the commands do with it *)

\* The first file of the tar.  A tar without one gives no reader and no error, and the
\* caller dies of closing it; anything but files and directories is an error.
LoadWasmFromTar(p) ==
  /\ proc[p].at = "untar"
  /\ IF proc[p].data \in Programs
     THEN Step(p, [proc[p] EXCEPT !.at = "use"])
     ELSE End(p)
  /\ UNCHANGED <<images, index, cache, temps, loads, served>>

Pull(p) ==
  /\ proc[p].at = "use" /\ proc[p].cmd = "pull"
  /\ End(p)
  /\ UNCHANGED <<images, index, cache, temps, loads, served>>

\* The module is built, called, and its output checked; there is nothing to clean up.
Wasmtime(p) ==
  /\ proc[p].at = "use" /\ proc[p].cmd = "wasmtime"
  /\ End(p)
  /\ UNCHANGED <<images, index, cache, temps, loads, served>>

\* node reads the program from a directory of its own ...
GetFilePath(p) ==
  /\ proc[p].at = "use" /\ proc[p].cmd = "nodejs"
  /\ \/ /\ temps' = temps \union {[owner |-> p, kind |-> "program"]}
        /\ Step(p, [proc[p] EXCEPT !.at = "node"])
     \/ End(p) /\ UNCHANGED temps
  /\ UNCHANGED <<images, index, cache, loads, served>>

\* ... which is removed if it ran well.
Node(p) ==
  /\ proc[p].at = "node"
  /\ \/ End(p) /\ temps' = temps \ {[owner |-> p, kind |-> "program"]}
     \/ End(p) /\ UNCHANGED temps
  /\ UNCHANGED <<images, index, cache, loads, served>>

\* The process is killed: what it had in the file system stays.
Kill(p) ==
  /\ proc[p] # Idle
  /\ End(p)
  /\ temps' = {IF x.owner = p THEN [x EXCEPT !.owner = None] ELSE x : x \in temps}
  /\ UNCHANGED <<images, index, cache, loads, served>>

Next ==
  \/ \E p \in Procs :
       \/ \E t \in Tags, program \in Programs : PushGet(p, t, program)
       \/ PushImage(p) \/ PushIndex(p)
       \/ \E cmd \in Commands, r \in Refs : LoadWasm(p, cmd, r)
       \/ Fetch(p) \/ Copy(p) \/ Rename(p) \/ Open(p)
       \/ LoadWasmFromTar(p) \/ Pull(p) \/ Wasmtime(p) \/ GetFilePath(p) \/ Node(p)
       \/ Kill(p)
  \/ \E t \in Tags, media \in {"index", "image"}, content \in Foreign : OtherPush(t, media, content)

Spec == Init /\ [][Next]_vars

-----------------------------------------------------------------------------
(* Properties *)

\* A cache file is whole, and is what its reference has once stood for in the registry,
\* whichever processes fetch it together and die on the way: a later command may rely on
\* it.  The file of a digest is that image.  A download that is left over was somebody's
\* who has been killed.
CacheIsWhole ==
  /\ \A d \in Dirs, r \in Refs : cache[d][r] # None => cache[d][r] \in served[r]
  /\ \A x \in temps : x.kind = "file" => x.owner = None \/ proc[x.owner].at \in {"copy", "rename"}

\* At any time, also between the steps of a push and after a push that failed, a tag names
\* at most one program, and only images that the registry has.
IndexSound ==
  \A t \in Tags :
    /\ Cardinality({m \in index[t].list : IsWasm(m)}) <= 1
    /\ \A m \in index[t].list : m.digest \in DOMAIN images /\ (IsWasm(m) => images[m.digest] \in Programs)

=============================================================================
