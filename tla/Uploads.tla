------------------------------- MODULE Uploads -------------------------------
(***************************************************************************)
(* The files of one multipart request                                      *)
(* (graphql/handler/transport/http_form.go): how each comes to the         *)
(* variables it is mapped to, how resolvers read them, and the deferred    *)
(* calls that clean up, after an answer, a refusal or a panic alike.       *)
(***************************************************************************)
EXTENDS Naturals, Sequences, SequencesExt

CONSTANTS
    Keys,   \* keys of form files
    Paths,  \* places in the variables
    Maps,   \* values of the form field "map", each of some of Keys to sequences of Paths
    Length  \* of a file, in what one Read returns

ASSUME UploadsAssumption ==
    /\ Length \in Nat /\ Keys # {}
    /\ \A map \in Maps : DOMAIN map \subseteq Keys /\ Range(map) \subseteq Seq(Paths)

VARIABLES
    uploadsMap, \* the request's
    large,      \* ContentLength >= maxMemory
    at,         \* where Do is
    todo,       \* keys that the loop has not met, in any order
    key,        \* the one it is at
    index,      \* of the path it is at
    open,       \* open files
    temps,      \* keys with a temporary file on the disk
    deferred,   \* the deferred calls, the last is called first
    variables,  \* the readers in the variables
    offset,     \* how far each reader is
    read        \* history: what the resolver of each path has read

uploadVars ==
    <<uploadsMap, large, at, todo, key, index, open, temps, deferred, variables, offset, read>>

\* A reader over the form file, a temporary file or bytes in memory.
Reader == [via : {"part", "temp", "memory"}, key : Keys, nr : Nat]
NoFile == [via |-> "none"]
Cleanup == {"close"} \X Reader \cup {"remove"} \X Keys
Part(k) == [via |-> "part", key |-> k, nr |-> 0]

UploadsTypeOK ==
    /\ uploadsMap \in Maps /\ large \in BOOLEAN
    /\ at \in {"next", "copy", "paths", "exec", "return", "done"}
    /\ todo \subseteq DOMAIN uploadsMap /\ key \in Keys /\ index \in Nat
    /\ open \subseteq Reader /\ temps \subseteq Keys /\ deferred \in Seq(Cleanup)
    /\ variables \in [Paths -> Reader \cup {NoFile}] /\ read \in [Paths -> Seq(1..Length)]
    /\ DOMAIN offset \subseteq Reader /\ Range(offset) \subseteq 0..Length

UploadsInit ==
    /\ uploadsMap \in Maps /\ large \in BOOLEAN /\ at = "next"
    /\ todo = DOMAIN uploadsMap /\ key = (CHOOSE k \in Keys : TRUE) /\ index = 0
    /\ open = {} /\ temps = {} /\ deferred = <<>>
    /\ variables = [p \in Paths |-> NoFile] /\ offset = <<>> /\ read = [p \in Paths |-> <<>>]

Opened(file) == open' = open \cup {file} /\ deferred' = Append(deferred, <<"close", file>>)

\* A key without paths, without a form file, or whose file does not open.
RefuseKey(k) ==
    /\ at = "next" /\ k \in todo
    /\ at' = "return"
    /\ UNCHANGED <<uploadsMap, large, todo, key, index, open, temps, deferred, variables, offset, read>>

TakeKey(k) ==
    /\ at = "next" /\ k \in todo /\ uploadsMap[k] # <<>>
    /\ todo' = todo \ {k} /\ key' = k /\ index' = 1
    /\ Opened(Part(k))
    /\ at' = IF Len(uploadsMap[k]) = 1 THEN "paths" ELSE "copy"
    /\ UNCHANGED <<uploadsMap, large, temps, variables, offset, read>>

\* A file for several paths is read as a whole; ReadAll may fail.
CopyToMemory ==
    /\ at = "copy" /\ ~large /\ at' \in {"paths", "return"}
    /\ UNCHANGED <<uploadsMap, large, todo, key, index, open, temps, deferred, variables, offset, read>>

\* Mutation: the removal is deferred once the copy has been made.
RemovalOnceCopied == IF at' = "paths" THEN Append(deferred, <<"remove", key>>) ELSE deferred

Removal == Append(deferred, <<"remove", key>>)

\* TempFile fails; or it is there, and Copy or Close may fail.
CopyToDisk ==
    /\ at = "copy" /\ large /\ at' \in {"paths", "return"}
    /\ \/ temps' = temps \cup {key} /\ deferred' = Removal
       \/ at' = "return" /\ UNCHANGED <<temps, deferred>>
    /\ UNCHANGED <<uploadsMap, large, todo, key, index, open, variables, offset, read>>

\* Mutation: the paths of a key share a reader.
ReaderShared == [via |-> IF large THEN "temp" ELSE "memory", key |-> key, nr |-> 1]

ReaderFor ==
    IF Len(uploadsMap[key]) = 1 THEN Part(key)
    ELSE [via |-> IF large THEN "temp" ELSE "memory", key |-> key, nr |-> index]

\* AddUpload; it returns an error, or panics, on a path that is not in the
\* variables, and os.Open may fail.
AddPath ==
    /\ at = "paths"
    /\ LET path == uploadsMap[key][index]
           r == ReaderFor
       IN  \/ /\ variables' = [variables EXCEPT ![path] = r]
              /\ offset' = [s \in DOMAIN offset \cup {r} |-> IF s = r THEN 0 ELSE offset[s]]
              /\ at' = IF index = Len(uploadsMap[key]) THEN "next" ELSE "paths"
              /\ IF r.via = "temp" THEN Opened(r) ELSE UNCHANGED <<open, deferred>>
           \/ /\ at' = "return" /\ UNCHANGED <<variables, offset>>
              /\ \/ r.via = "temp" /\ Opened(r)
                 \/ UNCHANGED <<open, deferred>>
    /\ index' = index + 1
    /\ UNCHANGED <<uploadsMap, large, todo, key, temps, read>>

\* CreateOperationContext, which may refuse, and DispatchOperation.
Dispatch ==
    /\ at = "next" /\ todo = {} /\ at' \in {"exec", "return"}
    /\ UNCHANGED <<uploadsMap, large, todo, key, index, open, temps, deferred, variables, offset, read>>

\* The resolver of a path reads on, while others do.
Read(path) ==
    /\ at = "exec" /\ variables[path] # NoFile /\ offset[variables[path]] < Length
    /\ offset' = [offset EXCEPT ![variables[path]] = @ + 1]
    /\ read' = [read EXCEPT ![path] = Append(@, offset'[variables[path]])]
    /\ UNCHANGED <<uploadsMap, large, at, todo, key, index, open, temps, deferred, variables>>

\* The response is there, or the operation has panicked.
Finished ==
    /\ at = "exec" /\ at' = "return"
    /\ UNCHANGED <<uploadsMap, large, todo, key, index, open, temps, deferred, variables, offset, read>>

\* One deferred call after another.
Unwind ==
    /\ at = "return"
    /\ IF deferred = <<>> THEN at' = "done" /\ UNCHANGED <<open, temps, deferred>>
       ELSE LET call == Last(deferred) IN
            /\ deferred' = Front(deferred) /\ UNCHANGED at
            /\ open' = IF call[1] = "close" THEN open \ {call[2]} ELSE open
            /\ temps' = IF call[1] = "remove" THEN temps \ {call[2]} ELSE temps
    /\ UNCHANGED <<uploadsMap, large, todo, key, index, variables, offset, read>>

UploadsNext ==
    \/ \E k \in Keys : RefuseKey(k) \/ TakeKey(k)
    \/ CopyToMemory \/ CopyToDisk \/ AddPath \/ Dispatch
    \/ \E path \in Paths : Read(path)
    \/ Finished \/ Unwind

UploadsSpec == UploadsInit /\ [][UploadsNext]_uploadVars
---------------------------------------------------------------------------
(* Properties *)

\* However the request ends, and wherever in its files, no temporary file and no
\* open file is left of it (http_form.go:113, 157-160, 183).
NothingLeft == at = "done" => temps = {} /\ open = {}

\* Every resolver reads the file that is mapped to its path, from the beginning and
\* gapless, however many paths share the file and whoever reads at the same
\* time; and it is open as long as they run (http_form.go:116-196,
\* reader.go:14-25).
FilesAreWhole ==
    \A path \in Paths :
        LET r == variables[path] IN
        r # NoFile =>
            /\ Contains(uploadsMap[r.key], path)
            /\ \A i \in DOMAIN read[path] : read[path][i] = i
            /\ at = "exec" /\ r.via # "memory" => r \in open
=============================================================================
