------------------------------- MODULE Archive -------------------------------
(***************************************************************************)
(* A backup archive end to end: gzipTarWriter (pkg/archive/               *)
(* gzip_tar_writer.go) writes items through tar.Writer and gzip.Writer to *)
(* a base writer; gzipTarReader.Extract reads the bytes back into a temp  *)
(* dir, restoreFromArchive reads the items through the Reader interface,  *)
(* and the Close deferred by context.execute (pkg/restore/restore.go)     *)
(* removes the temp dir.                                                  *)
(*                                                                         *)
(* The byte stream is a sequence of tokens: the gzip header, tar entry    *)
(* headers and bodies, the tar trailer, the final deflate block and the   *)
(* gzip footer.  gzip's compressor buffers the tar stream and emits any   *)
(* prefix of its buffer when it flushes a block; the tar and gzip writers *)
(* keep the first error and return it from every later call.              *)
(***************************************************************************)
EXTENDS Naturals, Sequences, SequencesExt

CONSTANTS
    Items,        \* items a backup may write: [res, ns, name, doc]
    Unencodable,  \* documents json.Marshal rejects
    MaxWrites,    \* bound on the Write calls of one backup
    FdLimit,      \* files the process may hold open
    Faults,       \* subset of {"base", "tempdir", "mkdir", "create", "copy", "removeall"}
    MaxFaults     \* bound on injected failures

\* arkv1api.ResourcesDir, NamespaceScopedDir, ClusterScopedDir
ResourcesDir == "resources"
NamespaceScopedDir == "namespaces"
ClusterScopedDir == "cluster"

VARIABLES
    wpc,          \* the writer: "open", "closed"
    failed,       \* the error kept by tar.Writer and gzip.Writer
    wroteHeader,  \* gzip.Writer has written its header
    pending,      \* tar stream held by gzip's compressor
    base,         \* tokens the base writer received
    writes,       \* Write calls so far
    acked,        \* key -> bytes of each item whose Write returned nil
    rpc,          \* the restore: "idle", "extracting", "extracted", "read", "done"
    pos,          \* index in base of the next token tar.Reader reads
    dirExists,    \* the dir made by TempDir exists
    tempDir,      \* gzipTarReader.tempDir is set
    tree,         \* path -> content of the files under the temp dir
    open,         \* files Extract holds open
    extractErr,   \* Extract returned an error
    restored,     \* what restoreFromArchive read through the Reader
    faults        \* injected failures so far

writerVars == <<wpc, failed, wroteHeader, pending, base, writes, acked>>
readerVars == <<rpc, pos, dirExists, tempDir, tree, open, extractErr, restored>>
vars == <<writerVars, readerVars, faults>>

Fault(f) == f \in Faults /\ faults < MaxFaults

Tok(t) == [t |-> t, path |-> <<>>, bytes |-> ""]
GzHeader == Tok("gzheader")
Trailer == Tok("trailer")
FinalBlock == Tok("final")
GzFooter == Tok("footer")
EntryHeader(p) == [Tok("header") EXCEPT !.path = p]
EntryBody(b) == [Tok("body") EXCEPT !.bytes = b]

Key(it) == [res |-> it.res, ns |-> it.ns, name |-> it.name]
\* json.Marshal of a string document quotes it
Marshal(doc) == "\"" \o doc \o "\""

(***************************************************************************)
(* Writer                                                                  *)
(***************************************************************************)

\* mutant: the namespace test inverted
FilePathSwapped(res, ns, name) ==
    IF ns = "" THEN <<ResourcesDir, res, NamespaceScopedDir, ns, name \o ".json">>
    ELSE <<ResourcesDir, res, ClusterScopedDir, name \o ".json">>

\* the tar entry Write builds: the path, then the marshalled item
FilePath(res, ns, name) ==
    IF ns # "" THEN <<ResourcesDir, res, NamespaceScopedDir, ns, name \o ".json">>
    ELSE <<ResourcesDir, res, ClusterScopedDir, name \o ".json">>
Entry(it) == <<EntryHeader(FilePath(it.res, it.ns, it.name)), EntryBody(Marshal(it.doc))>>

\* the base writer receives the writes ws in order; under a "base" fault one
\* of them fails after part of it arrived, the later ones are not made, and
\* the error sticks in gzip.Writer and tar.Writer
BaseWrites(ws) ==
    \/ /\ base' = base \o FlattenSeq(ws)
       /\ UNCHANGED <<failed, faults>>
    \/ /\ Fault("base")
       /\ \E i \in 1..Len(ws) : \E m \in 0..Len(ws[i]) - 1 :
             base' = base \o FlattenSeq(SubSeq(ws, 1, i - 1)) \o SubSeq(ws[i], 1, m)
       /\ failed' = TRUE
       /\ faults' = faults + 1

\* gzip.Writer writes its header ahead of the first data it is given
HeaderWrite == IF wroteHeader THEN <<>> ELSE << <<GzHeader>> >>

Write(it) ==
    /\ wpc = "open" /\ writes < MaxWrites
    /\ writes' = writes + 1
    /\ \/ /\ it.doc \in Unencodable
          /\ UNCHANGED <<failed, wroteHeader, pending, base, acked, faults>>
       \/ /\ it.doc \notin Unencodable /\ failed
          /\ UNCHANGED <<failed, wroteHeader, pending, base, acked, faults>>
       \/ /\ it.doc \notin Unencodable /\ ~failed
          /\ LET buf == pending \o Entry(it) IN
             \E n \in 0..Len(buf) :
                /\ BaseWrites(HeaderWrite \o (IF n > 0 THEN <<SubSeq(buf, 1, n)>> ELSE <<>>))
                /\ pending' = SubSeq(buf, n + 1, Len(buf))
          /\ wroteHeader' = TRUE
          /\ acked' = IF failed' THEN acked ELSE (Key(it) :> Marshal(it.doc)) @@ acked
    /\ UNCHANGED <<wpc, readerVars>>

\* tar.Close appends the trailer; gzip.Close emits the buffer and the final
\* block, then the footer.  Both return the kept error without writing, and
\* gzipTarWriter.Close ignores what they return.
Close ==
    /\ wpc = "open"
    /\ wpc' = "closed"
    /\ \/ /\ failed
          /\ UNCHANGED <<failed, wroteHeader, pending, base, faults>>
       \/ /\ ~failed
          /\ BaseWrites(HeaderWrite \o << pending \o <<Trailer, FinalBlock>>, <<GzFooter>> >>)
          /\ wroteHeader' = TRUE
          /\ pending' = <<>>
    /\ UNCHANGED <<writes, acked, readerVars>>

(***************************************************************************)
(* Reader                                                                  *)
(***************************************************************************)

\* Extract returns an error: the deferred file.Close calls and gzr.Close run,
\* r.tempDir stays empty, and context.execute returns without calling Close
ExtractFails ==
    /\ extractErr' = TRUE
    /\ open' = 0
    /\ rpc' = "done"

\* gzip.NewReader needs the gzip header; then TempDir
ExtractStart ==
    /\ wpc = "closed" /\ rpc = "idle"
    /\ \/ /\ base = <<>>
          /\ ExtractFails
          /\ UNCHANGED <<pos, dirExists, faults>>
       \/ /\ base # <<>> /\ Fault("tempdir")
          /\ faults' = faults + 1
          /\ ExtractFails
          /\ UNCHANGED <<pos, dirExists>>
       \/ /\ base # <<>>
          /\ dirExists' = TRUE
          /\ pos' = 2
          /\ rpc' = "extracting"
          /\ UNCHANGED <<open, extractErr, faults>>
    /\ UNCHANGED <<writerVars, tempDir, tree, restored>>

\* mutant: a stream that ends early is taken for the end of the archive
AtEOFTolerant == IF pos > Len(base) THEN TRUE ELSE base[pos] = Trailer

\* rdr.Next returns io.EOF: the tar trailer
AtEOF == pos <= Len(base) /\ base[pos] = Trailer

\* one iteration of Extract's loop: rdr.Next, then for a regular file
\* MkdirAll, Create (EMFILE once FdLimit files are open, since every file is
\* closed by a defer that runs only when Extract returns) and io.Copy.  The
\* archives gzipTarWriter writes hold regular files only.
ExtractNext ==
    /\ rpc = "extracting"
    /\ \/ /\ pos > Len(base)           \* the stream ends early: io.ErrUnexpectedEOF
          /\ ExtractFails
          /\ UNCHANGED <<pos, tree, faults>>
       \/ /\ AtEOF
          /\ open' = 0
          /\ rpc' = "extracted"
          /\ UNCHANGED <<pos, tree, extractErr, faults>>
       \/ /\ pos <= Len(base) /\ base[pos].t = "header"
          /\ LET p == base[pos].path IN
             \/ /\ \E f \in {"mkdir", "create"} : Fault(f)
                /\ faults' = faults + 1
                /\ ExtractFails
                /\ UNCHANGED <<pos, tree>>
             \/ /\ open = FdLimit
                /\ ExtractFails
                /\ UNCHANGED <<pos, tree, faults>>
             \/ /\ open < FdLimit
                /\ \/ /\ pos + 1 > Len(base)   \* io.Copy: io.ErrUnexpectedEOF
                      /\ tree' = (p :> "") @@ tree
                      /\ ExtractFails
                      /\ UNCHANGED <<pos, faults>>
                   \/ /\ pos + 1 <= Len(base) /\ Fault("copy")
                      /\ faults' = faults + 1
                      /\ tree' = (p :> "") @@ tree
                      /\ ExtractFails
                      /\ UNCHANGED pos
                   \/ /\ pos + 1 <= Len(base)
                      /\ tree' = (p :> base[pos + 1].bytes) @@ tree
                      /\ open' = open + 1
                      /\ pos' = pos + 2
                      /\ UNCHANGED <<rpc, extractErr, faults>>
    \* r.tempDir = dir only after the loop ends at io.EOF
    /\ tempDir' = (rpc' = "extracted")
    /\ UNCHANGED <<writerVars, dirExists, restored>>

\* GetResourceScope, ListNamespaces, ListContents and Get over the temp dir
Under(dir) == {p \in DOMAIN tree : IsStrictPrefix(dir, p)}
Children(dir) == {p[Len(dir) + 1] : p \in Under(dir)}
ResourceFound(res) == Under(<<ResourcesDir, res>>) # {}
ClusterScoped(res) == Under(<<ResourcesDir, res, ClusterScopedDir>>) # {}
ListNamespaces(res) ==
    {p[4] : p \in {q \in Under(<<ResourcesDir, res, NamespaceScopedDir>>) : Len(q) > 4}}
ItemDir(res, ns) ==
    IF ns = "" THEN <<ResourcesDir, res, ClusterScopedDir>>
    ELSE <<ResourcesDir, res, NamespaceScopedDir, ns>>
ListContents(res, ns) == Children(ItemDir(res, ns))
Get(res, ns, file) == tree[ItemDir(res, ns) \o <<file>>]

\* the items restoreFromArchive reaches: for each resource found, the
\* cluster dir, or each namespace ListNamespaces returns
Readable(res) ==
    IF ~ResourceFound(res) THEN {}
    ELSE IF ClusterScoped(res) THEN {<<res, "", f>> : f \in ListContents(res, "")}
    ELSE UNION {{<<res, ns, f>> : f \in ListContents(res, ns)} : ns \in ListNamespaces(res)}
Resources == {it.res : it \in Items}
ReadFiles == UNION {Readable(res) : res \in Resources}

\* restoreFromArchive reads every item of the extracted archive
ReadArchive ==
    /\ rpc = "extracted"
    /\ restored' = [f \in ReadFiles |-> Get(f[1], f[2], f[3])]
    /\ rpc' = "read"
    /\ UNCHANGED <<writerVars, pos, dirExists, tempDir, tree, open, extractErr, faults>>

\* the Close deferred by context.execute: RemoveAll, whose error is dropped
ReaderClose ==
    /\ rpc = "read"
    /\ rpc' = "done"
    /\ \/ /\ Fault("removeall")
          /\ faults' = faults + 1
          /\ UNCHANGED <<dirExists, tree>>
       \/ /\ dirExists' = FALSE
          /\ tree' = [p \in {} |-> ""]
          /\ UNCHANGED faults
    /\ UNCHANGED <<writerVars, pos, tempDir, open, extractErr, restored>>

\* context.execute has returned
Terminated ==
    /\ rpc = "done"
    /\ UNCHANGED vars

\* NewGzipTarWriter: gzip and tar writers over an empty base stream
NewGzipTarWriter ==
    /\ wpc = "open" /\ failed = FALSE /\ wroteHeader = FALSE
    /\ pending = <<>> /\ base = <<>> /\ writes = 0
    /\ acked = [k \in {} |-> ""]

\* NewGzipTarReader: not extracted yet (tempDir "")
NewGzipTarReader ==
    /\ rpc = "idle" /\ pos = 1 /\ dirExists = FALSE /\ tempDir = FALSE
    /\ tree = [p \in {} |-> ""] /\ open = 0 /\ extractErr = FALSE
    /\ restored = [f \in {} |-> ""]

Init == NewGzipTarWriter /\ NewGzipTarReader /\ faults = 0

Next ==
    \/ \E it \in Items : Write(it)
    \/ Close
    \/ ExtractStart
    \/ ExtractNext
    \/ ReadArchive
    \/ ReaderClose
    \/ Terminated

\* every step is taken by the one goroutine running the backup, then the restore
Spec == Init /\ [][Next]_vars

(***************************************************************************)
(* Properties                                                              *)
(***************************************************************************)

Namespaces == {it.ns : it \in Items} \ {""}
FileNames == {it.name \o ".json" : it \in Items}
LayoutPaths ==
    {<<ResourcesDir, r, NamespaceScopedDir, n, f>> : r \in Resources, n \in Namespaces, f \in FileNames}
    \cup {<<ResourcesDir, r, ClusterScopedDir, f>> : r \in Resources, f \in FileNames}

\* the files of the temp dir follow the archive layout of spec.md section 6:
\* resources/<type>/cluster/<name>.json or resources/<type>/namespaces/<ns>/<name>.json
TypeOK ==
    /\ wpc \in {"open", "closed"} /\ writes \in 0..MaxWrites
    /\ rpc \in {"idle", "extracting", "extracted", "read", "done"}
    /\ DOMAIN tree \subseteq LayoutPaths
    /\ open \in 0..FdLimit /\ faults \in 0..MaxFaults

ItemKeys == {Key(it) : it \in Items}
File(k) == <<k.res, k.ns, k.name \o ".json">>
RestoredItems == [k \in {k \in ItemKeys : File(k) \in DOMAIN restored} |-> restored[File(k)]]
NoItems == [k \in {} |-> ""]
\* what opening the archive gave the restore: Extract's error, or the items read
Result ==
    IF extractErr THEN [status |-> "error", view |-> NoItems]
    ELSE IF rpc \in {"read", "done"} THEN [status |-> "ok", view |-> RestoredItems]
    ELSE [status |-> "none", view |-> NoItems]

Store == INSTANCE ArchiveStore WITH
            Keys <- ItemKeys, Contents <- {Marshal(it.doc) : it \in Items},
            stored <- acked, sealed <- (wpc = "closed"), result <- Result

\* the writer, the byte stream and the reader together implement the archive
\* store: a restore that extracts the archive reads exactly the items whose
\* Write returned nil, each with its last content, although Close drops the
\* errors of tar.Close and gzip.Close and a base write may fail part way
ArchiveRefinesStore == Store!Spec

\* once context.execute has returned, the temp dir Extract made is gone
NoTempDirLeft == rpc = "done" => ~dirExists

=============================================================================
