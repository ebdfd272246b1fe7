----------------------------- MODULE Multipart ------------------------------
(* parseMultipartRequest() and the end of the request: files of a multipart    *)
(* body are written while the parser goes on, checked against the policy of    *)
(* their field, and removed with their directory when the request is over.     *)
EXTENDS Integers, SequencesExt, TLC

CONSTANTS Chunks,       \* per file, in the order of the parts: how many chunks it has
          Typed,        \* files whose policy has allowedTypes
          MaxSize,      \* maxSizeBytes of every policy, in chunks
          SampleSize    \* chunks that the detection of the type needs

Files == DOMAIN Chunks

VARIABLES
    part,       \* file parts the parser has met
    parser,     \* "open", "ended" or "broken"
    write,      \* per file: "none", "drained", "loading", "streaming", "detecting", "flushing", "done", "failed"
    got,        \* chunks that went into the validator
    held,       \* chunks that the validator keeps
    disk,       \* chunks in the file, -1 when there is no file
    validated,
    multipartError,
    stage       \* of the request: "parsing", "settling", "rejected", "accepted", "over"

vars == <<part, parser, write, got, held, disk, validated, multipartError, stage>>

\* After mkdtemp(): the directory is among those of the request before a part is read.
Init == /\ part = 0 /\ parser = "open" /\ write = [f \in Files |-> "none"] /\ got = [f \in Files |-> 0]
        /\ held = [f \in Files |-> 0] /\ disk = [f \in Files |-> -1] /\ validated = {}
        /\ multipartError = FALSE /\ stage = "parsing"

file_vars == <<got, held, disk, validated>>
Settled(f) == write[f] \in {"none", "drained", "done", "failed"}

\* The parser has nothing more to read of the file: it is delivered, drained or destroyed.
Delivered(f) == write[f] \in {"drained", "done", "failed"} \/ got[f] = Chunks[f]

-----------------------------------------------------------------------------
\* The file event: a bad or undeclared name drains the part, a declared type that is not allowed
\* fails the write, and a write of a typed file first loads the detection.
FilePart ==
    /\ parser = "open" /\ stage = "parsing" /\ part < Cardinality(Files) /\ (part > 0 => Delivered(part))
    /\ part' = part + 1 /\ UNCHANGED <<parser, got, held, validated, stage>>
    /\ \/ write' = [write EXCEPT ![part'] = "drained"] /\ multipartError' = TRUE /\ UNCHANGED disk
       \/ part' \in Typed /\ write' = [write EXCEPT ![part'] = "failed"] /\ UNCHANGED <<multipartError, disk>>
       \/ /\ write' = [write EXCEPT ![part'] = IF part' \in Typed THEN "loading" ELSE "streaming"]
          /\ disk' = [disk EXCEPT ![part'] = IF part' \in Typed THEN -1 ELSE 0] /\ UNCHANGED multipartError

\* The field event and the fieldsLimit event, when there is something wrong.
FieldFails == /\ parser = "open" /\ stage = "parsing" /\ ~multipartError /\ multipartError' = TRUE
              /\ UNCHANGED <<part, parser, write, file_vars, stage>>

\* loadFileTypeModule() and the pipeline into createWriteStream(); the part may be destroyed by now.
ModuleLoaded(f) ==
    /\ write[f] = "loading" /\ write' = [write EXCEPT ![f] = IF parser = "broken" THEN "failed" ELSE "streaming"]
    /\ disk' = [disk EXCEPT ![f] = 0] /\ UNCHANGED <<part, parser, got, held, validated, multipartError, stage>>

\* _transform(): the size first, then, until the type is known, the chunk is held.
Transform(f) ==
    /\ write[f] = "streaming" /\ parser # "broken" /\ got[f] < Chunks[f] /\ got' = [got EXCEPT ![f] = @ + 1]
    /\ UNCHANGED <<part, parser, validated, multipartError, stage>>
    /\ IF got'[f] > MaxSize THEN write' = [write EXCEPT ![f] = "failed"] /\ UNCHANGED <<held, disk>>
       ELSE IF f \notin Typed \/ f \in validated
            THEN disk' = [disk EXCEPT ![f] = @ + 1] /\ UNCHANGED <<held, write>>
            ELSE /\ held' = [held EXCEPT ![f] = @ + 1] /\ UNCHANGED disk
                 /\ write' = [write EXCEPT ![f] = IF held'[f] >= SampleSize THEN "detecting" ELSE @]

\* _flush(): the end of the part, which a delivered part reaches although the parser is gone.
Flush(f) ==
    /\ write[f] = "streaming" /\ got[f] = Chunks[f]
    /\ write' = [write EXCEPT ![f] = IF f \notin Typed \/ f \in validated THEN "done" ELSE "flushing"]
    /\ UNCHANGED <<part, parser, file_vars, multipartError, stage>>

\* validateAndRelease(): the detected type is allowed, and what is held goes on, or the write fails.
Detected(f) ==
    /\ write[f] \in {"detecting", "flushing"} /\ UNCHANGED <<part, parser, got, multipartError, stage>>
    /\ \/ /\ parser # "broken" \/ write[f] = "flushing"
          /\ validated' = validated \cup {f} /\ disk' = [disk EXCEPT ![f] = @ + held[f]] /\ held' = [held EXCEPT ![f] = 0]
          /\ write' = [write EXCEPT ![f] = IF @ = "flushing" THEN "done" ELSE "streaming"]
       \/ write' = [write EXCEPT ![f] = "failed"] /\ UNCHANGED <<held, disk, validated>>

\* The body ends short, is over its limit, or is malformed: the part in progress is destroyed.
ParserBreaks ==
    /\ parser = "open" /\ stage = "parsing" /\ parser' = "broken"
    /\ write' = [f \in Files |-> IF write[f] = "streaming" /\ got[f] < Chunks[f] THEN "failed" ELSE write[f]]
    /\ UNCHANGED <<part, file_vars, multipartError, stage>>

ParserEnds ==
    /\ parser = "open" /\ stage = "parsing" /\ (part > 0 => Delivered(part)) /\ parser' = "ended"
    /\ UNCHANGED <<part, write, file_vars, multipartError, stage>>

\* The catch of parseMultipartRequest(): the pipeline, an error of a field, or one of the writes.
Throws == \/ parser = "broken" \/ (parser = "ended" /\ (multipartError \/ \E f \in Files : write[f] = "failed"))

Fails == /\ stage = "parsing" /\ Throws /\ stage' = "settling"
         /\ UNCHANGED <<part, parser, write, file_vars, multipartError>>

\* Mutant: the error is thrown while writes are under way.
SettlesNow == /\ stage = "settling" /\ stage' = "rejected"
              /\ UNCHANGED <<part, parser, write, file_vars, multipartError>>

\* Promise.allSettled(fileWrites)
Settles == /\ stage = "settling" /\ \A f \in Files : Settled(f) /\ stage' = "rejected"
           /\ UNCHANGED <<part, parser, write, file_vars, multipartError>>

\* The files are done; merging them into the body may still be refused.
Completes ==
    /\ stage = "parsing" /\ parser = "ended" /\ ~multipartError
    /\ \A f \in Files : write[f] \in {"none", "done"}
    /\ stage' \in {"accepted", "rejected"} /\ UNCHANGED <<part, parser, write, file_vars, multipartError>>

\* cleanupUploadedFiles(), when the router is done with the request.
Cleanup ==
    /\ stage \in {"accepted", "rejected"} /\ stage' = "over" /\ disk' = [f \in Files |-> -1]
    /\ UNCHANGED <<part, parser, write, got, held, validated, multipartError>>

Next == \/ FilePart \/ FieldFails \/ ParserBreaks \/ ParserEnds \/ Fails \/ Settles \/ Completes \/ Cleanup
        \/ \E f \in Files : ModuleLoaded(f) \/ Transform(f) \/ Flush(f) \/ Detected(f)

Spec == Init /\ [][Next]_vars

-----------------------------------------------------------------------------
\* When the request is over no file of it is left and nothing still writes one; no byte of a
\* file is on disk before its type is known to be allowed; and a body that is accepted has every
\* file whole and within its limit (parseMultipartRequest(), FileUploadValidationTransform).
UploadsAreContained ==
    /\ stage = "over" => \A f \in Files : disk[f] = -1 /\ Settled(f)
    /\ \A f \in Typed \ validated : disk[f] <= 0
    /\ stage = "accepted" => \A f \in Files : write[f] = "done" => disk[f] = Chunks[f] /\ Chunks[f] <= MaxSize

-----------------------------------------------------------------------------
(* FormBodyBuilder: the fields of a form or multipart body, a JSON payload and  *)
(* the uploaded files become one nested body. A tree is a function from paths  *)
(* (sequences of tokens) to nodes.                                             *)

CONSTANTS Names,        \* field names as sequences of segments <<class, key>>
          Payloads,     \* JSON payloads: sets of [path, kind] that a parsed object has
          FormFiles,        \* field names of uploaded files
          MaxFormFields, MaxFormDepth, MaxFormArrayIndex,
          MaxFields     \* bound on the fields of a request

VARIABLES
    nodes,      \* the tree of FormBodyBuilder: path -> [kind, values]
    structureCount,
    formStage,      \* "fields", "payload", "files", "built"
    error,      \* of the first error: "none", "too-large", "malformed", "conflict", "sparse"
    body,       \* the result of build(): path -> <<"one", v>> or <<"list", values>>
    added       \* history: [path, value, from] of everything that was to be in the body

varsForm == <<nodes, structureCount, formStage, error, body, added>>

Node(kind, values) == [kind |-> kind, values |-> values]
Empty == [p \in {<<>>} |-> Node("object", <<>>)]

InitForm == /\ nodes = Empty /\ structureCount = 0 /\ formStage = "fields" /\ error = "none"
            /\ body = <<>> /\ added = <<>>

-----------------------------------------------------------------------------
\* parseBracketToken() and propertyToken(): what is wrong with one segment of a name.
SegmentError(s) ==
    IF s[1] = "unsafe" \/ s[1] = "numeric" THEN "malformed"
    ELSE IF s[1] = "index" /\ s[2] > MaxFormArrayIndex THEN "too-large" ELSE "none"

\* parseFormFieldPath(): the segments from left to right, then the depth, then that an append
\* is the last one.
PathError(name) ==
    LET bad == {i \in DOMAIN name : SegmentError(name[i]) # "none"}
    IN  IF name = <<>> \/ name[1][1] # "property" THEN "malformed"
        ELSE IF bad # {} THEN SegmentError(name[Min(bad)])
        ELSE IF Len(name) > MaxFormDepth THEN "too-large"
        ELSE IF \E i \in 1..(Len(name) - 1) : name[i][1] = "append" THEN "malformed" ELSE "none"

\* The kind of the container that a token is a key of.
ContainerKind(token) ==
    IF token[1] = "property" THEN "object" ELSE IF token[1] = "index" THEN "indexed-array" ELSE "append-array"

\* The node that holds the value of a path.
Holder(path) == IF Last(path)[1] = "append" THEN Front(path) ELSE path
HolderKind(path) == IF Last(path)[1] = "append" THEN "append-array" ELSE "leaf"

\* insertValue(): a node on the way, or the node that holds the value, is of another kind.
InsertConflicts(tree, path) ==
    \/ \E n \in 1..(Len(path) - 1) : SubSeq(path, 1, n) \in DOMAIN tree
                                     /\ tree[SubSeq(path, 1, n)].kind # ContainerKind(path[n + 1])
    \/ Holder(path) \in DOMAIN tree /\ tree[Holder(path)].kind # HolderKind(path)

\* The tree after the value is put at the path, with the containers that were missing.
InsertValue(tree, path, value) ==
    LET holder == Holder(path)
        before == IF holder \in DOMAIN tree THEN tree[holder].values ELSE <<>>
        made   == [p \in {SubSeq(path, 1, n) : n \in 1..(Len(path) - 1)} |->
                      Node(ContainerKind(path[Len(p) + 1]), <<>>)]
    IN  (holder :> Node(HolderKind(path), Append(before, value))) @@ tree @@ made

Fail(kind) == error' = kind /\ UNCHANGED <<nodes, body, added>>

Record(path, from) == added' = Append(added, [path |-> path, value |-> Len(added) + 1, from |-> from])

\* add(): a field of the form.
Add(name) ==
    /\ formStage = "fields" /\ error = "none" /\ Len(added) < MaxFields /\ UNCHANGED formStage
    /\ structureCount' = structureCount + 1
    /\ IF structureCount' > MaxFormFields THEN Fail("too-large")
       ELSE IF PathError(name) # "none" THEN Fail(PathError(name))
       ELSE /\ Record(name, "field") /\ UNCHANGED body
            /\ IF InsertConflicts(nodes, name) THEN error' = "conflict" /\ UNCHANGED nodes
               ELSE nodes' = InsertValue(nodes, name, Len(added) + 1) /\ UNCHANGED error

\* importObjectNode() and importJsonNode(): the payload as a tree of its own.
PayloadError(payload) ==
    IF structureCount + Cardinality(payload) > MaxFormFields THEN "too-large"
    ELSE IF \E n \in payload : Len(n.path) > MaxFormDepth \/ SegmentError(Last(n.path)) = "too-large" THEN "too-large"
    ELSE IF \E n \in payload : SegmentError(Last(n.path)) # "none" THEN "malformed" ELSE "none"

\* Mutant: a value that both have is taken from the payload.
MergeConflictsContainers(tree, source) ==
    \E p \in DOMAIN tree \cap DOMAIN source : tree[p].kind # source[p].kind

\* mergeNodes(): nodes of both must be containers of one kind that are merged key by key.
MergeConflicts(tree, source) ==
    \E p \in DOMAIN tree \cap DOMAIN source :
        tree[p].kind # source[p].kind \/ tree[p].kind \in {"leaf", "append-array"}

Merge(source) ==
    IF MergeConflicts(nodes, source) THEN error' = "conflict" /\ UNCHANGED nodes
    ELSE nodes' = source @@ nodes /\ UNCHANGED error

\* mergeObject(), at the end of the fields.
MergeObject(payload) ==
    /\ formStage = "fields" /\ error = "none" /\ formStage' = "payload"
    /\ structureCount' = structureCount + Cardinality(payload)
    /\ LET leaves == {n \in payload : n.kind = "leaf"}
           id     == CHOOSE f \in [leaves -> 1..Cardinality(leaves)] : IsInjective(f)
           source == [p \in {n.path : n \in payload} |->
                         LET n == CHOOSE m \in payload : m.path = p
                         IN  Node(n.kind, IF n.kind = "leaf" THEN <<Len(added) + id[n]>> ELSE <<>>)]
       IN  IF PayloadError(payload) # "none" THEN Fail(PayloadError(payload))
           ELSE /\ UNCHANGED body
                /\ added' = added \o [i \in 1..Cardinality(leaves) |->
                       [path |-> (CHOOSE n \in leaves : id[n] = i).path, value |-> Len(added) + i, from |-> "payload"]]
                /\ Merge(source)

\* addTopLevelFile() and merge(): the files, in the order of their parts.
MergeFiles ==
    /\ formStage \in {"fields", "payload"} /\ error = "none" /\ formStage' = "files" /\ UNCHANGED <<structureCount, body>>
    /\ \E parts \in UNION {[1..n -> FormFiles] : n \in 0..2} :
         LET values(f) == SelectSeq([i \in DOMAIN parts |-> Len(added) + i], LAMBDA v : parts[v - Len(added)] = f)
         IN  /\ added' = added \o [i \in DOMAIN parts |->
                                     [path |-> parts[i], value |-> Len(added) + i, from |-> "file"]]
             /\ Merge([f \in {parts[i] : i \in DOMAIN parts} |-> Node("leaf", values(f))])

\* Keys of the children that a container has.
Keys(p) == {Last(q)[2] : q \in {r \in DOMAIN nodes : Len(r) = Len(p) + 1 /\ Front(r) = p}}

\* build() and materializeNode(): a value is alone or in a list; an array has no holes.
Build ==
    /\ formStage \in {"fields", "payload", "files"} /\ error = "none" /\ formStage' = "built"
    /\ UNCHANGED <<nodes, structureCount, added>>
    /\ IF \E p \in DOMAIN nodes : nodes[p].kind = "indexed-array" /\ Keys(p) # 0..(Cardinality(Keys(p)) - 1)
       THEN error' = "sparse" /\ UNCHANGED body
       ELSE /\ UNCHANGED error
            /\ body' = [p \in {q \in DOMAIN nodes : nodes[q].kind \in {"leaf", "append-array"}} |->
                          IF nodes[p].kind = "leaf" /\ Len(nodes[p].values) = 1
                          THEN <<"one", nodes[p].values>> ELSE <<"list", nodes[p].values>>]

NextForm == Build \/ MergeFiles \/ (\E name \in Names : Add(name)) \/ (\E payload \in Payloads : MergeObject(payload))

SpecForm == InitForm /\ [][NextForm]_varsForm

-----------------------------------------------------------------------------
\* Two paths that no body can have both: they part at keys of different containers, or one ends
\* where the other goes on.
Contradict(p, q) ==
    \E n \in 0..Len(p) : /\ n <= Len(q) /\ SubSeq(p, 1, n) = SubSeq(q, 1, n)
                         /\ \/ n = Len(p) /\ n < Len(q)
                            \/ n = Len(q) /\ n < Len(p)
                            \/ n < Len(p) /\ n < Len(q) /\ ContainerKind(p[n + 1]) # ContainerKind(q[n + 1])

\* A field is refused only when it contradicts an earlier one, and a body that is accepted has
\* every value of the fields, the payload and the files exactly once, those of one name in the
\* order they were sent, whatever order the fields came in (insertValue(), mergeNodes(),
\* materializeNode()).
NothingLostOrReplaced ==
    /\ error = "conflict" /\ formStage = "fields" => \E i, j \in DOMAIN added : Contradict(added[i].path, added[j].path)
    /\ formStage = "built" /\ error = "none" =>
         /\ \A i, j \in DOMAIN added : ~Contradict(added[i].path, added[j].path)
         /\ \A i \in DOMAIN added :
              LET same == SelectSeq(added, LAMBDA a : Holder(a.path) = Holder(added[i].path))
                  want == [k \in DOMAIN same |-> same[k].value]
              IN  body[Holder(added[i].path)] = <<IF Len(same) = 1 /\ Last(added[i].path)[1] # "append"
                                                  THEN "one" ELSE "list", want>>
         /\ \A p \in DOMAIN body : \E i \in DOMAIN added : Holder(added[i].path) = p
=============================================================================
