--------------------------- MODULE Uploads_proofs ---------------------------
(***************************************************************************)
(* Theorems about Uploads for any files, maps and lengths: every map of    *)
(* keys to sequences of paths, paths that occur twice included.            *)
(***************************************************************************)
EXTENDS Uploads, TLAPS

\* A request is still taking its files, or executing.
Loading == at \in {"next", "copy", "paths"}

LEMMA MapsType ==
  ASSUME UploadsTypeOK, NEW k \in DOMAIN uploadsMap
  PROVE  k \in Keys /\ uploadsMap[k] \in Seq(Paths)
BY UploadsAssumption DEF UploadsTypeOK, Range

\* A sequence that got one more element, or lost its last.
LEMMA SeqAppended ==
  ASSUME NEW S, NEW s \in Seq(S), NEW e \in S
  PROVE  /\ Append(s, e) \in Seq(S) /\ Len(Append(s, e)) = Len(s) + 1
         /\ \A i \in 1..Len(s) : Append(s, e)[i] = s[i]
         /\ Append(s, e)[Len(s) + 1] = e
OBVIOUS

LEMMA SeqFront ==
  ASSUME NEW S, NEW s \in Seq(S), s # <<>>
  PROVE  /\ Front(s) \in Seq(S) /\ Len(Front(s)) = Len(s) - 1
         /\ \A i \in 1..Len(s) - 1 : Front(s)[i] = s[i]
         /\ Last(s) = s[Len(s)] /\ Last(s) \in S /\ Len(s) \in Nat \ {0}
<1>1. Len(s) \in Nat \ {0} /\ s \in [1..Len(s) -> S]
  OBVIOUS
<1>2. Front(s) = [i \in 1..Len(s) - 1 |-> s[i]]
  BY <1>1 DEF Front
<1>3. Front(s) \in Seq(S) /\ Len(Front(s)) = Len(s) - 1
  BY <1>1 DEF Front
<1>4. QED BY <1>1, <1>2, <1>3 DEF Last

---------------------------------------------------------------------------
(* Type correctness *)

LEMMA CleanupOf ==
  /\ \A r \in Reader : <<"close", r>> \in Cleanup
  /\ \A k \in Keys : <<"remove", k>> \in Cleanup /\ Part(k) \in Reader
BY DEF Cleanup, Reader, Part

\* The reader that AddPath makes is a reader of the key it is at.
LEMMA ReaderForType ==
  ASSUME UploadsTypeOK
  PROVE  ReaderFor \in Reader /\ ReaderFor.key = key
BY CleanupOf DEF UploadsTypeOK, ReaderFor, Reader, Part

LEMMA OpenedType ==
  ASSUME UploadsTypeOK, NEW r \in Reader, Opened(r)
  PROVE  /\ open' \subseteq Reader /\ deferred' \in Seq(Cleanup)
BY CleanupOf, SeqAppended DEF UploadsTypeOK, Opened

\* Every reader in the variables has an offset.
ReadersPlaced == \A path \in Paths : variables[path] # NoFile => variables[path] \in DOMAIN offset

\* Every variable keeps its type, whichever way a request ends; that of what is
\* read rests on the offsets of the readers.
THEOREM UploadsTypeCorrect == UploadsSpec => []UploadsTypeOK
<1>1. UploadsInit => UploadsTypeOK /\ ReadersPlaced
  <2> SUFFICES ASSUME UploadsInit PROVE UploadsTypeOK /\ ReadersPlaced
    OBVIOUS
  <2>1. key \in Keys
    BY UploadsAssumption DEF UploadsInit
  <2>2. DOMAIN offset = {} /\ Range(offset) = {}
    BY DEF UploadsInit, Range
  <2>3. read \in [Paths -> Seq(1..Length)] /\ variables \in [Paths -> Reader \cup {NoFile}]
    BY DEF UploadsInit
  <2>4. QED BY <2>1, <2>2, <2>3 DEF UploadsInit, UploadsTypeOK, ReadersPlaced
<1>2. UploadsTypeOK /\ ReadersPlaced /\ [UploadsNext]_uploadVars => UploadsTypeOK'
  <2> SUFFICES ASSUME UploadsTypeOK, ReadersPlaced, UploadsNext PROVE UploadsTypeOK'
    BY DEF uploadVars, UploadsTypeOK
  <2>1. ASSUME NEW k \in Keys, RefuseKey(k) PROVE UploadsTypeOK'
    BY <2>1 DEF RefuseKey, UploadsTypeOK
  <2>2. ASSUME NEW k \in Keys, TakeKey(k) PROVE UploadsTypeOK'
    <3>1. open' \subseteq Reader /\ deferred' \in Seq(Cleanup)
      BY <2>2, CleanupOf, OpenedType DEF TakeKey
    <3>2. QED BY <2>2, <3>1 DEF TakeKey, UploadsTypeOK
  <2>3. CASE CopyToMemory \/ Dispatch \/ Finished
    BY <2>3 DEF CopyToMemory, Dispatch, Finished, UploadsTypeOK
  <2>4. CASE CopyToDisk
    <3>1. Removal \in Seq(Cleanup)
      BY CleanupOf, SeqAppended DEF Removal, UploadsTypeOK
    <3>2. QED BY <2>4, <3>1 DEF CopyToDisk, UploadsTypeOK
  <2>5. CASE AddPath
    <3> DEFINE r == ReaderFor
    <3>1. r \in Reader
      BY ReaderForType
    <3>2. open' \subseteq Reader /\ deferred' \in Seq(Cleanup)
      BY <2>5, <3>1, OpenedType DEF AddPath, UploadsTypeOK
    <3>3. variables' \in [Paths -> Reader \cup {NoFile}]
      BY <2>5, <3>1 DEF AddPath, UploadsTypeOK
    <3>4. DOMAIN offset' \subseteq Reader /\ Range(offset') \subseteq 0..Length
      BY SMTT(30), <2>5, <3>1, UploadsAssumption DEF AddPath, UploadsTypeOK, Range
    <3>5. at' \in {"next", "paths", "return"} /\ index' \in Nat
          /\ UNCHANGED <<uploadsMap, large, todo, key, temps, read>>
      BY <2>5 DEF AddPath, UploadsTypeOK
    <3>6. QED BY <3>2, <3>3, <3>4, <3>5 DEF UploadsTypeOK
  <2>6. ASSUME NEW path \in Paths, Read(path) PROVE UploadsTypeOK'
    <3> DEFINE r == variables[path]
    <3>1. /\ offset[r] < Length /\ r # NoFile
          /\ offset' = [offset EXCEPT ![r] = @ + 1]
          /\ read' = [read EXCEPT ![path] = Append(@, offset'[r])]
          /\ UNCHANGED <<uploadsMap, large, at, todo, key, index, open, temps, deferred, variables>>
      BY <2>6 DEF Read
    <3>2. r \in DOMAIN offset /\ offset[r] \in 0..Length
      BY <3>1 DEF ReadersPlaced, UploadsTypeOK, Range
    <3>3. offset'[r] = offset[r] + 1 /\ offset[r] + 1 \in 1..Length
      BY <3>1, <3>2, UploadsAssumption
    <3>4. DOMAIN offset' = DOMAIN offset /\ Range(offset') \subseteq 0..Length
      BY <3>1, <3>2, <3>3 DEF UploadsTypeOK, Range
    <3>5. read' \in [Paths -> Seq(1..Length)]
      BY <3>1, <3>3 DEF UploadsTypeOK
    <3>6. QED BY <3>1, <3>4, <3>5 DEF UploadsTypeOK
  <2>7. CASE Unwind
    <3>1. CASE deferred = <<>>
      BY <2>7, <3>1 DEF Unwind, UploadsTypeOK
    <3>2. CASE deferred # <<>>
      <4>1. deferred' \in Seq(Cleanup)
        BY ZenonT(40), <2>7, <3>2, SeqFront DEF Unwind, UploadsTypeOK
      <4>2. open' \subseteq open /\ temps' \subseteq temps
            /\ UNCHANGED <<uploadsMap, large, at, todo, key, index, variables, offset, read>>
        BY <2>7, <3>2 DEF Unwind
      <4>3. QED BY <4>1, <4>2 DEF UploadsTypeOK
    <3>3. QED BY <3>1, <3>2
  <2>8. QED BY <2>1, <2>2, <2>3, <2>4, <2>5, <2>6, <2>7 DEF UploadsNext
<1>3. UploadsTypeOK /\ ReadersPlaced /\ [UploadsNext]_uploadVars => ReadersPlaced'
  <2> SUFFICES ASSUME UploadsTypeOK, ReadersPlaced, [UploadsNext]_uploadVars PROVE ReadersPlaced'
    OBVIOUS
  <2>1. CASE UNCHANGED <<variables, offset>>
    BY <2>1 DEF ReadersPlaced
  <2>2. CASE AddPath
    BY <2>2 DEF AddPath, ReadersPlaced, UploadsTypeOK
  <2>3. ASSUME NEW path \in Paths, Read(path) PROVE ReadersPlaced'
    BY <2>3 DEF Read, ReadersPlaced
  <2>4. QED
    BY <2>1, <2>2, <2>3 DEF UploadsNext, RefuseKey, TakeKey, CopyToMemory, CopyToDisk, Dispatch,
                            Finished, Unwind, uploadVars
<1>4. QED BY <1>1, <1>2, <1>3, PTL DEF UploadsSpec

---------------------------------------------------------------------------
(* Nothing is left *)

IsDeferred(call) == \E i \in 1..Len(deferred) : deferred[i] = call

\* Whatever exists has its clean-up among the deferred calls from the moment it
\* exists, and a request is done when none is left.
CleanupInv ==
    /\ \A r \in open : IsDeferred(<<"close", r>>)
    /\ \A k \in temps : IsDeferred(<<"remove", k>>)
    /\ at = "done" => deferred = <<>>

LEMMA DeferredAppended ==
  ASSUME UploadsTypeOK, NEW e \in Cleanup, deferred' = Append(deferred, e)
  PROVE  /\ IsDeferred(e)' /\ \A call : IsDeferred(call) => IsDeferred(call)'
<1>1. /\ deferred' \in Seq(Cleanup) /\ Len(deferred') = Len(deferred) + 1
      /\ \A i \in 1..Len(deferred) : deferred'[i] = deferred[i]
      /\ deferred'[Len(deferred) + 1] = e
      /\ Len(deferred) \in Nat
  BY SeqAppended DEF UploadsTypeOK
<1>2. \A call : call = e => IsDeferred(call)'
  BY <1>1 DEF IsDeferred
<1>3. \A call : IsDeferred(call) => IsDeferred(call)'
  BY <1>1 DEF IsDeferred
<1>4. IsDeferred(e)'
  BY <1>1 DEF IsDeferred
<1>5. QED BY <1>3, <1>4

LEMMA OpenedKeeps ==
  ASSUME UploadsTypeOK, CleanupInv, NEW r \in Reader, Opened(r),
         temps' = temps, at' # "done"
  PROVE  CleanupInv'
<1>1. <<"close", r>> \in Cleanup
  BY CleanupOf
<1>2. deferred' = Append(deferred, <<"close", r>>) /\ open' = open \cup {r}
  BY DEF Opened
<1>3. \A call : IsDeferred(call) \/ call = <<"close", r>> => IsDeferred(call)'
  <2>1. ASSUME NEW call, call = <<"close", r>> PROVE IsDeferred(call)'
    BY <1>1, <1>2, <2>1, DeferredAppended DEF IsDeferred
  <2>2. QED BY <1>1, <1>2, <2>1, DeferredAppended
<1>4. QED BY <1>2, <1>3 DEF CleanupInv

LEMMA CleanupStep ==
  ASSUME UploadsTypeOK, CleanupInv, [UploadsNext]_uploadVars
  PROVE  CleanupInv'
<1>1. ASSUME UNCHANGED <<open, temps, deferred>>, at' # "done" \/ UNCHANGED at PROVE CleanupInv'
  BY <1>1 DEF CleanupInv, IsDeferred
<1>2. ASSUME NEW k \in Keys, RefuseKey(k) \/ TakeKey(k) PROVE CleanupInv'
  <2>1. CASE RefuseKey(k)
    BY <2>1, <1>1 DEF RefuseKey
  <2>2. CASE TakeKey(k)
    BY <2>2, CleanupOf, OpenedKeeps DEF TakeKey
  <2>3. QED BY <1>2, <2>1, <2>2
<1>3. CASE CopyToMemory \/ Dispatch \/ Finished \/ (\E path \in Paths : Read(path))
  BY <1>3, <1>1 DEF CopyToMemory, Dispatch, Finished, Read
<1>4. CASE CopyToDisk
  <2>1. at' # "done" /\ open' = open /\ key \in Keys
    BY <1>4 DEF CopyToDisk, UploadsTypeOK
  <2>2. CASE UNCHANGED <<temps, deferred>>
    BY <1>1, <2>1, <2>2
  <2>3. CASE temps' = temps \cup {key} /\ deferred' = Removal
    <3>1. <<"remove", key>> \in Cleanup /\ deferred' = Append(deferred, <<"remove", key>>)
      BY <2>1, <2>3, CleanupOf DEF Removal
    <3>2. \A call : IsDeferred(call) \/ call = <<"remove", key>> => IsDeferred(call)'
      <4>1. ASSUME NEW call, call = <<"remove", key>> PROVE IsDeferred(call)'
        BY <3>1, <4>1, DeferredAppended DEF IsDeferred
      <4>2. QED BY <3>1, <4>1, DeferredAppended
    <3>3. QED BY <2>1, <2>3, <3>2 DEF CleanupInv
  <2>4. QED BY <1>4, <2>2, <2>3 DEF CopyToDisk
<1>5. CASE AddPath
  <2>1. /\ Opened(ReaderFor) \/ UNCHANGED <<open, deferred>>
        /\ at' # "done" /\ temps' = temps
    BY <1>5 DEF AddPath
  <2>2. QED BY <1>1, <2>1, OpenedKeeps, ReaderForType
<1>6. CASE Unwind
  <2>1. CASE deferred = <<>>
    BY <1>6, <2>1 DEF Unwind, CleanupInv, IsDeferred
  <2>2. CASE deferred # <<>>
    <3> DEFINE n == Len(deferred)
    <3>1. /\ deferred' = Front(deferred) /\ at' = "return"
          /\ open' = IF deferred[n][1] = "close" THEN open \ {deferred[n][2]} ELSE open
          /\ temps' = IF deferred[n][1] = "remove" THEN temps \ {deferred[n][2]} ELSE temps
      BY <1>6, <2>2 DEF Unwind, Last
    <3>2. /\ n \in Nat \ {0} /\ Len(deferred') = n - 1
          /\ \A i \in 1..(n - 1) : deferred'[i] = deferred[i]
      BY <2>2, <3>1, SeqFront DEF UploadsTypeOK
    <3>3. \A call : IsDeferred(call) /\ deferred[n] # call => IsDeferred(call)'
      BY <3>2 DEF IsDeferred
    <3>4. \A r \in open' : <<"close", r>> # deferred[n]
      BY <3>1
    <3>5. \A k \in temps' : <<"remove", k>> # deferred[n]
      BY <3>1
    <3>6. QED BY <3>1, <3>3, <3>4, <3>5 DEF CleanupInv
  <2>3. QED BY <2>1, <2>2
<1>7. CASE UNCHANGED uploadVars
  BY <1>7, <1>1 DEF uploadVars
<1>8. QED BY <1>2, <1>3, <1>4, <1>5, <1>6, <1>7 DEF UploadsNext

\* Whichever step fails, and whatever panics, all files are closed and all
\* temporary files removed when the request is done: the clean-up is deferred
\* before anything between it and the return can go wrong.
THEOREM NothingIsLeft == UploadsSpec => []NothingLeft
<1>1. UploadsInit => CleanupInv
  BY DEF UploadsInit, CleanupInv
<1>2. UploadsTypeOK /\ CleanupInv /\ [UploadsNext]_uploadVars => CleanupInv'
  BY CleanupStep
<1>3. CleanupInv => NothingLeft
  <2> SUFFICES ASSUME CleanupInv, at = "done" PROVE temps = {} /\ open = {}
    BY DEF NothingLeft
  <2>1. Len(deferred) = 0
    BY DEF CleanupInv
  <2>2. \A call : ~IsDeferred(call)
    BY <2>1 DEF IsDeferred
  <2>3. QED BY <2>2 DEF CleanupInv
<1>4. QED BY <1>1, <1>2, <1>3, UploadsTypeCorrect, PTL DEF UploadsSpec

---------------------------------------------------------------------------
(* Every reader is where it belongs *)

\* The path that reader r was made for: the only one of its key, or that of its number.
PathOf(r) == uploadsMap[r.key][IF r.via = "part" THEN 1 ELSE r.nr]

\* The place of reader r among the paths of its key.
HasPlace(r) ==
    /\ r.key \in DOMAIN uploadsMap
    /\ (IF r.via = "part" THEN 1 ELSE r.nr) \in 1..Len(uploadsMap[r.key])

\* No two paths share a reader, as each reader says which path it is of; so the
\* offset of a reader is how much the resolver of that path has read.
FilesInv ==
    /\ at \in {"copy", "paths"} =>
          key \in DOMAIN uploadsMap /\ index \in 1..Len(uploadsMap[key]) /\ Part(key) \in open
    /\ Loading => \A path \in Paths : read[path] = <<>>
    /\ \A path \in Paths : LET r == variables[path] IN
          r # NoFile =>
             /\ HasPlace(r) /\ path = PathOf(r)
             /\ r \in DOMAIN offset /\ offset[r] = Len(read[path])
             /\ Loading \/ at = "exec" => r.via = "memory" \/ r \in open
    /\ \A path \in Paths : \A i \in DOMAIN read[path] : read[path][i] = i

LEMMA FilesStep ==
  ASSUME UploadsTypeOK, FilesInv, [UploadsNext]_uploadVars
  PROVE  FilesInv'
<1>1. CASE UNCHANGED uploadVars
  BY <1>1 DEF uploadVars, FilesInv, HasPlace, PathOf, Loading
<1>2. ASSUME NEW k \in Keys, RefuseKey(k) PROVE FilesInv'
  BY <1>2 DEF RefuseKey, FilesInv, HasPlace, PathOf, Loading
<1>3. ASSUME NEW k \in Keys, TakeKey(k) PROVE FilesInv'
  <2>1. /\ at = "next" /\ k \in DOMAIN uploadsMap /\ uploadsMap[k] # <<>>
        /\ key' = k /\ index' = 1 /\ open' = open \cup {Part(k)}
        /\ at' \in {"paths", "copy"}
        /\ UNCHANGED <<uploadsMap, large, variables, offset, read>>
    BY <1>3 DEF TakeKey, Opened, UploadsTypeOK
  <2>2. 1 \in 1..Len(uploadsMap[k])
    BY <2>1, MapsType
  <2>3. QED BY <2>1, <2>2 DEF FilesInv, HasPlace, PathOf, Loading
<1>4. CASE CopyToMemory \/ CopyToDisk
  <2>1. /\ at = "copy" /\ at' \in {"paths", "return"}
        /\ UNCHANGED <<uploadsMap, key, index, open, variables, offset, read>>
    BY <1>4 DEF CopyToMemory, CopyToDisk
  <2>2. QED BY <2>1 DEF FilesInv, HasPlace, PathOf, Loading
<1>5. CASE AddPath
  <2> DEFINE r == ReaderFor  path == uploadsMap[key][index]
  <2>1. /\ at = "paths" /\ key \in DOMAIN uploadsMap /\ index \in 1..Len(uploadsMap[key])
        /\ Part(key) \in open /\ index' = index + 1 /\ at' # "copy"
        /\ UNCHANGED <<uploadsMap, key, read>> /\ open \subseteq open'
    BY <1>5 DEF AddPath, FilesInv, Opened
  <2>2. uploadsMap[key] \in Seq(Paths) /\ path \in Paths /\ Len(uploadsMap[key]) \in Nat
    BY <2>1, MapsType
  <2>3. r \in Reader /\ r.key = key
    BY ReaderForType
  <2>4. CASE at' = "return"
    <3>1. UNCHANGED <<variables, offset>>
      BY <1>5, <2>1, <2>4 DEF AddPath
    <3>2. QED BY <2>1, <2>4, <3>1 DEF FilesInv, HasPlace, PathOf, Loading
  <2>5. CASE at' # "return"
    <3>1. /\ variables' = [variables EXCEPT ![path] = r]
          /\ offset' = [s \in DOMAIN offset \cup {r} |-> IF s = r THEN 0 ELSE offset[s]]
          /\ at' = IF index = Len(uploadsMap[key]) THEN "next" ELSE "paths"
          /\ r.via = "temp" => r \in open'
      BY <1>5, <2>5 DEF AddPath, Opened
    <3>2. HasPlace(r) /\ PathOf(r) = path
      <4>1. CASE Len(uploadsMap[key]) = 1
        <5>1. r = Part(key) /\ index = 1
          BY <2>1, <2>2, <4>1 DEF ReaderFor
        <5>2. r.via = "part" /\ r.key = key
          BY <5>1 DEF Part
        <5>3. path = uploadsMap[key][1]
          BY <5>1
        <5>4. QED BY <2>1, <4>1, <5>2, <5>3 DEF HasPlace, PathOf
      <4>2. CASE Len(uploadsMap[key]) # 1
        BY <2>1, <4>2 DEF HasPlace, PathOf, ReaderFor
      <4>3. QED BY <4>1, <4>2
    <3>3. r.via = "memory" \/ r \in open'
      BY <2>1, <3>1 DEF ReaderFor, Part
    <3>4. \A q \in Paths : read[q] = <<>> /\ Len(read[q]) = 0
      BY <2>1 DEF FilesInv, Loading
    <3>5. ASSUME NEW q \in Paths, variables'[q] # NoFile
          PROVE  LET s == variables'[q] IN
                 /\ HasPlace(s) /\ q = PathOf(s)
                 /\ s \in DOMAIN offset' /\ offset'[s] = Len(read'[q])
                 /\ s.via = "memory" \/ s \in open'
      <4>1. CASE q = path
        <5>1. variables'[q] = r
          BY <2>2, <3>1, <4>1 DEF UploadsTypeOK
        <5>2. r \in DOMAIN offset' /\ offset'[r] = 0
          BY <3>1
        <5>3. QED BY <2>1, <3>2, <3>3, <3>4, <4>1, <5>1, <5>2
      <4>2. CASE q # path
        <5>1. variables'[q] = variables[q]
          BY <3>1, <4>2 DEF UploadsTypeOK
        <5>2. LET s == variables[q] IN
              /\ HasPlace(s) /\ q = PathOf(s)
              /\ s \in DOMAIN offset /\ offset[s] = Len(read[q])
              /\ s.via = "memory" \/ s \in open
          BY <2>1, <3>5, <5>1 DEF FilesInv, Loading
        <5>3. variables[q] # r
          BY <3>2, <4>2, <5>2
        <5>4. LET s == variables[q] IN s \in DOMAIN offset' /\ offset'[s] = offset[s]
          BY <3>1, <5>2, <5>3
        <5>5. QED BY <2>1, <5>1, <5>2, <5>4
      <4>3. QED BY <4>1, <4>2
    <3>6. at' = "paths" => index' \in 1..Len(uploadsMap[key])
      BY <2>1, <2>2, <3>1
    <3>7. QED BY <2>1, <3>1, <3>4, <3>5, <3>6 DEF FilesInv, HasPlace, PathOf, Loading
  <2>6. QED BY <2>4, <2>5
<1>6. CASE Dispatch \/ Finished
  <2>1. /\ at \in {"next", "exec"} /\ at' \in {"exec", "return"}
        /\ UNCHANGED <<uploadsMap, key, index, open, variables, offset, read>>
    BY <1>6 DEF Dispatch, Finished
  <2>2. QED BY <2>1 DEF FilesInv, HasPlace, PathOf, Loading
<1>7. ASSUME NEW path \in Paths, Read(path) PROVE FilesInv'
  <2> DEFINE r == variables[path]
  <2>1. /\ at = "exec" /\ r # NoFile
        /\ offset' = [offset EXCEPT ![r] = @ + 1]
        /\ read' = [read EXCEPT ![path] = Append(@, offset'[r])]
        /\ UNCHANGED <<uploadsMap, at, key, index, open, variables>>
    BY <1>7 DEF Read
  <2>2. r \in DOMAIN offset /\ offset[r] = Len(read[path]) /\ path = PathOf(r)
    BY <2>1 DEF FilesInv
  <2>3. /\ read[path] \in Seq(1..Length) /\ Len(read[path]) \in Nat
        /\ offset'[r] = Len(read[path]) + 1
    BY <2>1, <2>2 DEF UploadsTypeOK
  <2>4. /\ read'[path] = Append(read[path], Len(read[path]) + 1)
        /\ \A q \in Paths \ {path} : read'[q] = read[q]
    BY <2>1, <2>3 DEF UploadsTypeOK
  <2>5. /\ Len(read'[path]) = Len(read[path]) + 1
        /\ \A i \in DOMAIN read'[path] : read'[path][i] = i
    <3>1. /\ DOMAIN read'[path] = 1..(Len(read[path]) + 1)
          /\ \A i \in 1..Len(read[path]) : read'[path][i] = read[path][i]
          /\ read'[path][Len(read[path]) + 1] = Len(read[path]) + 1
          /\ Len(read'[path]) = Len(read[path]) + 1
          /\ DOMAIN read[path] = 1..Len(read[path])
      BY <2>3, <2>4
    <3>2. \A i \in DOMAIN read[path] : read[path][i] = i
      BY DEF FilesInv
    <3>3. QED BY <2>3, <3>1, <3>2
  <2>6. ASSUME NEW q \in Paths \ {path}, variables[q] # NoFile
        PROVE  /\ variables[q] \in DOMAIN offset' /\ offset'[variables[q]] = Len(read'[q])
    <3>1. variables[q] # r
      BY <2>2, <2>6 DEF FilesInv
    <3>2. variables[q] \in DOMAIN offset /\ offset[variables[q]] = Len(read[q])
      BY <2>6 DEF FilesInv
    <3>3. QED BY <2>1, <2>4, <3>1, <3>2
  <2>7. r \in DOMAIN offset' /\ offset'[r] = Len(read'[path])
    BY <2>1, <2>2, <2>3, <2>5
  <2>8. QED BY <2>1, <2>4, <2>5, <2>6, <2>7 DEF FilesInv, HasPlace, PathOf, Loading
<1>8. CASE Unwind
  <2>1. /\ at = "return" /\ at' \in {"return", "done"}
        /\ UNCHANGED <<uploadsMap, key, index, variables, offset, read>>
    BY <1>8 DEF Unwind
  <2>2. QED BY <2>1 DEF FilesInv, HasPlace, PathOf, Loading
<1>9. QED BY <1>1, <1>2, <1>3, <1>4, <1>5, <1>6, <1>7, <1>8 DEF UploadsNext

\* Every resolver reads its own file from the start without gaps, and the file
\* stays open under it, for any map: also when a path or a file occurs twice.
THEOREM FilesStayWhole == UploadsSpec => []FilesAreWhole
<1>1. UploadsInit => FilesInv
  BY DEF UploadsInit, FilesInv, Loading
<1>2. UploadsTypeOK /\ FilesInv /\ [UploadsNext]_uploadVars => FilesInv'
  BY FilesStep
<1>3. FilesInv => FilesAreWhole
  BY DEF FilesInv, FilesAreWhole, HasPlace, PathOf, Contains
<1>4. QED BY <1>1, <1>2, <1>3, UploadsTypeCorrect, PTL DEF UploadsSpec
=============================================================================
