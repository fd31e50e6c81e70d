------------------------------ MODULE HubStore ------------------------------
(* The hub cache of one machine, as the processes that share it see it: the  *)
(* hosted index with its ETag (spikeforge_hub/community.py), the bytes cached *)
(* for one community model (cache.py, download_cli.py, transfer.py) and the   *)
(* checkpoint imported from them (import_model.py).  Command-line pulls, the  *)
(* dashboard's pulls, downloads and imports all run at once and without a     *)
(* lock; any of them may be killed between two steps (cancel() terminates the *)
(* download child, a user interrupts a pull).                                 *)
(*                                                                            *)
(* Publication n of the model is the index document n that names bytes n.     *)
EXTENDS Naturals

CONSTANTS
    Procs,        \* processes and server threads that use the cache
    MaxVersion,   \* publications of the model
    UrlFile,      \* the file name of each publication's URL, as a sort rank
    PinFile,      \* the file name of the pinned version 1, as a sort rank
    Tries,        \* how many commands the processes run together
    MaxFaults     \* kills, network failures and corrupted transfers

Versions == 1..MaxVersion
Files == {UrlFile[v] : v \in Versions} \cup {PinFile}
Rank == {0} \cup Files

None  == 0                  \* no file
Torn  == MaxVersion + 1     \* a document or an artifact that is cut or altered
Empty == MaxVersion + 2     \* a file just opened for writing

Kinds == {"pull", "pin", "hub_pull", "hub_download", "hub_import"}
Storing == {"write", "validate", "replace", "etag"}
Refreshing == {"request", "store"} \cup Storing
Copying == {"copy", "copied"}
Importing == {"verify", "load", "save"}
Places == {"idle", "lookup", "pinned", "fetch", "refused"} \cup
              Refreshing \cup Copying \cup Importing

\* A process: where it is, what it does, what it has read or fetched, the file
\* it has open and the one it works on, what these bytes should be, and whether
\* another process wrote to that file after it was verified.
Process == [pc : Places, kind : Kinds \cup {"none"}, got : 0..Torn,
            hnd : {"none", "tmp", "index", "file", "gone"}, file : Rank,
            want : 0..MaxVersion, raced : BOOLEAN]

ASSUME HubAssumption ==
    /\ MaxVersion \in Nat \ {0} /\ Tries \in Nat /\ MaxFaults \in Nat
    /\ UrlFile \in [Versions -> Nat \ {0}] /\ PinFile \in Nat \ {0}

VARIABLES
    served,   \* the publication the hosted API serves
    doc,      \* index.json, index.json.tmp and index.etag
    files,    \* the model's cache directory
    store,    \* the checkpoint hub_<id>: its bytes, the checksum they passed
    proc,     \* the processes
    overlap,  \* two processes were in _store / in fetch_index at once
    tries, faults

hubVars == <<served, doc, files, store, proc, overlap, tries, faults>>

Idle == [pc |-> "idle", kind |-> "none", got |-> None, hnd |-> "none",
         file |-> 0, want |-> None, raced |-> FALSE]

HubInit ==
    /\ served = 1
    /\ doc = [index |-> None, tmp |-> None, etag |-> None]
    /\ files = [f \in Files |-> None]
    /\ store = [bytes |-> None, sum |-> None, raced |-> FALSE]
    /\ proc = [p \in Procs |-> Idle]
    /\ overlap = {}
    /\ tries = 0
    /\ faults = 0

Goes(p, process) == proc' = [proc EXCEPT ![p] = process]
Ends(p) == Goes(p, Idle)

\* load_cached(): the documents a catalog lookup finds entries in.
Readable(d) == d \in Versions
\* cache.cached(): some byte is there, whoever left it.
Cached == \E f \in Files : files[f] \notin {None, Empty}

\* What a command does once it has its index: a pinned pull turns to its own
\* file, every other one looks its entry up.
Refreshed(p) ==
    Goes(p, [proc[p] EXCEPT !.pc = IF proc[p].kind = "pin" THEN "pinned" ELSE "lookup",
             !.got = None, !.want = None, !.hnd = "none"])

\* _fallback(): the cached index covers for a refresh that failed, if it loads.
Fallback(p) == IF Readable(doc.index) THEN Refreshed(p) ELSE Ends(p)

Fault == faults < MaxFaults /\ faults' = faults + 1

(* fetch_index ---------------------------------------------------------------*)
Start(p, kind) ==
    /\ proc[p].pc \in {"idle", "refused"} /\ tries < Tries
    /\ tries' = tries + 1
    /\ proc' = [proc EXCEPT ![p] =
         [Idle EXCEPT !.kind = kind,
            !.want = IF kind \in {"hub_download", "hub_import"} THEN None ELSE doc.etag,
            !.pc = CASE kind = "hub_download" -> "lookup"
                     [] kind = "hub_import" -> "verify"
                     [] OTHER -> "request"]]
    /\ overlap' = IF /\ kind \notin {"hub_download", "hub_import"}
                     /\ \E q \in Procs \ {p} : proc[q].pc \in Refreshing
                  THEN overlap \cup {"refresh"} ELSE overlap
    /\ UNCHANGED <<served, doc, files, store, faults>>

\* Mutant: the ETag is remembered as soon as the response is there.
AnsweredRemembers(p) ==
    /\ proc[p].pc = "request" /\ proc[p].want # served
    /\ Goes(p, [proc[p] EXCEPT !.pc = "store", !.want = served, !.got = served])
    /\ doc' = [doc EXCEPT !.etag = served]
    /\ UNCHANGED <<served, files, store, overlap, tries, faults>>

\* A 200: the document is whole, or the server sent a malformed one.
Answered(p) ==
    /\ proc[p].pc = "request" /\ proc[p].want # served
    /\ \E got \in {served, Torn} :
         /\ Goes(p, [proc[p] EXCEPT !.pc = "store", !.want = served, !.got = got])
         /\ IF got = Torn THEN Fault ELSE UNCHANGED faults
    /\ UNCHANGED <<served, doc, files, store, overlap, tries>>

\* A 304, which urllib raises as an HTTPError, or no answer at all.
NotAnswered(p) ==
    /\ proc[p].pc = "request"
    /\ IF proc[p].want = served THEN UNCHANGED faults ELSE Fault
    /\ Fallback(p)
    /\ UNCHANGED <<served, doc, files, store, overlap, tries>>

\* open(tmp, "wb") empties whatever file has that name.
OpenTmp(p) ==
    /\ proc[p].pc = "store"
    /\ doc' = [doc EXCEPT !.tmp = Torn]
    /\ Goes(p, [proc[p] EXCEPT !.pc = "write", !.hnd = "tmp"])
    /\ overlap' = IF \E q \in Procs \ {p} : proc[q].pc \in Storing
                  THEN overlap \cup {"store"} ELSE overlap
    /\ UNCHANGED <<served, files, store, tries, faults>>

\* The bytes go to the file that was opened, whatever its name is by now.
WriteTmp(p) ==
    /\ proc[p].pc = "write"
    /\ doc' = CASE proc[p].hnd = "tmp"   -> [doc EXCEPT !.tmp = proc[p].got]
                [] proc[p].hnd = "index" -> [doc EXCEPT !.index = proc[p].got]
                [] OTHER -> doc
    /\ Goes(p, [proc[p] EXCEPT !.pc = "validate", !.hnd = "none"])
    /\ UNCHANGED <<served, files, store, overlap, tries, faults>>

\* load_catalog(tmp) refuses it: it is removed and the refresh fails.
Malformed(p) ==
    /\ proc[p].pc = "validate" /\ ~Readable(doc.tmp)
    /\ doc' = [doc EXCEPT !.tmp = None]
    /\ proc' = [q \in Procs |->
         IF q # p THEN [proc[q] EXCEPT !.hnd = IF @ = "tmp" THEN "gone" ELSE @]
         ELSE IF ~Readable(doc.index) THEN Idle
         ELSE [proc[p] EXCEPT !.pc = IF proc[p].kind = "pin" THEN "pinned" ELSE "lookup",
                              !.got = None, !.want = None]]
    /\ UNCHANGED <<served, files, store, overlap, tries, faults>>

\* Mutant: the document replaces the index without being loaded first.
ValidatedAnyway(p) ==
    /\ proc[p].pc = "validate"
    /\ Goes(p, [proc[p] EXCEPT !.pc = "replace"])
    /\ UNCHANGED <<served, doc, files, store, overlap, tries, faults>>

Validated(p) ==
    /\ proc[p].pc = "validate" /\ Readable(doc.tmp)
    /\ Goes(p, [proc[p] EXCEPT !.pc = "replace"])
    /\ UNCHANGED <<served, doc, files, store, overlap, tries, faults>>

\* os.replace(tmp, path): open files keep following their inode.
Replace(p) ==
    /\ proc[p].pc = "replace" /\ doc.tmp # None
    /\ doc' = [doc EXCEPT !.index = doc.tmp, !.tmp = None]
    /\ proc' = [q \in Procs |->
         IF q = p THEN [proc[p] EXCEPT !.pc = "etag"]
         ELSE [proc[q] EXCEPT !.hnd = CASE @ = "tmp" -> "index"
                                        [] @ = "index" -> "gone"
                                        [] OTHER -> @]]
    /\ UNCHANGED <<served, files, store, overlap, tries, faults>>

\* Another refresh took the temporary file away: the OSError is a fallback.
ReplaceFails(p) ==
    /\ proc[p].pc = "replace" /\ doc.tmp = None
    /\ Fallback(p)
    /\ UNCHANGED <<served, doc, files, store, overlap, tries, faults>>

\* _remember_etag(), then load_cached().
RememberEtag(p) ==
    /\ proc[p].pc = "etag"
    /\ doc' = [doc EXCEPT !.etag = proc[p].want]
    /\ Fallback(p)
    /\ UNCHANGED <<served, files, store, overlap, tries, faults>>

(* download ------------------------------------------------------------------*)
\* catalog.get(), then what the entry needs: a pull takes any cached bytes for
\* the model, the dashboard's child fetches them again.
Lookup(p) ==
    /\ proc[p].pc = "lookup"
    /\ IF ~Readable(doc.index) THEN Ends(p)
       ELSE IF proc[p].kind = "pull" /\ Cached THEN Goes(p, [proc[p] EXCEPT !.pc = "verify"])
       ELSE Goes(p, [proc[p] EXCEPT !.pc = "fetch", !.want = doc.index,
                     !.file = UrlFile[doc.index]])
    /\ UNCHANGED <<served, doc, files, store, overlap, tries, faults>>

\* _pull_pinned(): a file that is there is not downloaded again; the import of
\* its bytes is not gated and goes to a checkpoint of another name.
Pinned(p) ==
    /\ proc[p].pc = "pinned"
    /\ IF files[PinFile] # None THEN Ends(p)
       ELSE Goes(p, [proc[p] EXCEPT !.pc = "fetch", !.want = 1, !.file = PinFile])
    /\ UNCHANGED <<served, doc, files, store, overlap, tries, faults>>

\* A write to a file that another process has verified and is about to load.
Races(f) == [q \in Procs |-> IF proc[q].pc = "load" /\ proc[q].file = f
                             THEN [proc[q] EXCEPT !.raced = TRUE] ELSE proc[q]]

\* _open() and open(path, "wb").
OpenFile(p) ==
    /\ proc[p].pc = "fetch"
    /\ files' = [files EXCEPT ![proc[p].file] = Empty]
    /\ proc' = [Races(proc[p].file) EXCEPT ![p] = [proc[p] EXCEPT !.pc = "copy",
                                                                  !.hnd = "file"]]
    /\ UNCHANGED <<served, doc, store, overlap, tries, faults>>

OpenFails(p) ==
    /\ proc[p].pc = "fetch" /\ Fault /\ Ends(p)
    /\ UNCHANGED <<served, doc, files, store, overlap, tries>>

Written(p, bytes) ==
    files' = IF proc[p].hnd = "file" THEN [files EXCEPT ![proc[p].file] = bytes]
                                     ELSE files

Copy(p) ==
    /\ proc[p].pc = "copy"
    /\ Written(p, Torn)
    /\ proc' = [Races(proc[p].file) EXCEPT ![p] = [proc[p] EXCEPT !.pc = "copied"]]
    /\ UNCHANGED <<served, doc, store, overlap, tries, faults>>

\* The last block.  Bytes that another process wrote to the same file in the
\* meantime may stay between them.  The verdict on the bytes is reported, and
\* a pull goes on to the import whatever it is.
Copied(p) ==
    LET f == proc[p].file
        alone == \A q \in Procs \ {p} : ~(proc[q].pc \in Copying /\ proc[q].file = f)
        next == CASE proc[p].kind = "pull" -> [Idle EXCEPT !.pc = "verify", !.kind = "pull"]
                  [] OTHER -> Idle
    IN /\ proc[p].pc = "copied"
       /\ \/ Written(p, proc[p].want) /\ UNCHANGED faults
          \/ Written(p, Torn) /\ IF alone /\ files[f] = Torn THEN Fault ELSE UNCHANGED faults
       /\ proc' = [Races(f) EXCEPT ![p] = next]
       /\ UNCHANGED <<served, doc, store, overlap, tries>>

\* A read or a write fails, or the cap is exceeded: _drop_partial().
CopyFails(p) ==
    LET f == proc[p].file
    IN /\ proc[p].pc \in Copying /\ Fault
       /\ files' = [files EXCEPT ![f] = None]
       /\ proc' = [q \in Procs |->
            IF q = p THEN Idle
            ELSE IF proc[q].pc \in Copying /\ proc[q].file = f
                 THEN [proc[q] EXCEPT !.hnd = "gone"] ELSE Races(f)[q]]
       /\ UNCHANGED <<served, doc, store, overlap, tries>>

(* import --------------------------------------------------------------------*)
\* _cached_artifact(): the first file of the directory, in the order of names.
FirstFile(f) ==
    f \in Files /\ files[f] # None /\ \A g \in Files : files[g] # None => f <= g

\* Mutant: bytes that are there have passed.
GateByPresence(f) == files[f] # None

\* _gate(): the file's digest must be the one the catalog gives.
Gate(f) == files[f] = doc.index

\* _resolve() reads the catalog again and takes the cached file.
Verify(p) ==
    /\ proc[p].pc = "verify"
    /\ IF ~Readable(doc.index) \/ \A f \in Files : files[f] = None THEN Ends(p)
       ELSE \E f \in Files :
              /\ FirstFile(f)
              /\ Goes(p, IF Gate(f)
                         THEN [proc[p] EXCEPT !.pc = "load", !.file = f, !.want = doc.index]
                         ELSE [proc[p] EXCEPT !.pc = "refused"])
    /\ UNCHANGED <<served, doc, files, store, overlap, tries, faults>>

\* The file is opened again to be inspected and loaded.  Altered bytes may
\* still parse.
Load(p) ==
    LET bytes == files[proc[p].file]
    IN /\ proc[p].pc = "load"
       /\ \/ /\ bytes \in Versions \cup {Torn}
             /\ Goes(p, [proc[p] EXCEPT !.pc = "save", !.got = bytes])
          \/ bytes \notin Versions /\ Ends(p)
       /\ UNCHANGED <<served, doc, files, store, overlap, tries, faults>>

Save(p) ==
    /\ proc[p].pc = "save"
    /\ store' = [bytes |-> proc[p].got, sum |-> proc[p].want, raced |-> proc[p].raced]
    /\ Ends(p)
    /\ UNCHANGED <<served, doc, files, overlap, tries, faults>>

(* faults and the server -----------------------------------------------------*)
\* The process is gone and leaves what it has written: a checkpoint that was
\* being written cannot be loaded, and an ETag may be empty, which is none.
Kill(p) ==
    /\ proc[p].pc \notin {"idle", "refused"} /\ Fault /\ Ends(p)
    /\ store' = IF proc[p].pc = "save"
                THEN [bytes |-> None, sum |-> None, raced |-> FALSE] ELSE store
    /\ \/ UNCHANGED doc
       \/ proc[p].pc = "etag" /\ doc' = [doc EXCEPT !.etag = None]
    /\ UNCHANGED <<served, files, overlap, tries>>

Publish ==
    /\ served < MaxVersion
    /\ served' = served + 1
    /\ UNCHANGED <<doc, files, store, proc, overlap, tries, faults>>

HubNext ==
    \/ Publish
    \/ \E p \in Procs :
         \/ \E kind \in Kinds : Start(p, kind)
         \/ Answered(p) \/ NotAnswered(p) \/ OpenTmp(p) \/ WriteTmp(p)
         \/ Malformed(p) \/ Validated(p) \/ Replace(p) \/ ReplaceFails(p)
         \/ RememberEtag(p) \/ Lookup(p) \/ Pinned(p) \/ OpenFile(p)
         \/ OpenFails(p) \/ Copy(p) \/ Copied(p) \/ CopyFails(p)
         \/ Verify(p) \/ Load(p) \/ Save(p) \/ Kill(p)

HubSpec == HubInit /\ [][HubNext]_hubVars

-----------------------------------------------------------------------------
HubTypeOK ==
    /\ served \in Versions
    /\ doc \in [index : 0..Torn, tmp : 0..Torn, etag : 0..MaxVersion]
    /\ files \in [Files -> 0..Empty]
    /\ store \in [bytes : 0..Torn, sum : 0..MaxVersion, raced : BOOLEAN]
    /\ proc \in [Procs -> Process]
    /\ overlap \subseteq {"refresh", "store"}
    /\ faults \in 0..MaxFaults /\ tries \in 0..Tries

\* The index on disk always loads, whatever is killed and whatever the server
\* sends, as long as no two processes store one at the same time (_store()
\* validates the temporary file before it replaces the index).
IndexIsWhole == "store" \notin overlap => doc.index # Torn

\* The remembered ETag is never that of a newer document than the index beside
\* it, as long as refreshes follow one another: the server would answer 304 for
\* a document that this cache does not have, and the old one would stay.
EtagNotAhead == overlap = {} => doc.etag <= doc.index

\* The checkpoint of a community model holds the bytes that passed the published
\* checksum, whatever partial, altered or pinned files the cache holds, unless
\* its file was written between the check and the load.
PromotedIsPublished == ~store.raced => store.bytes = store.sum

\* A pull without a version ends with the latest publication: it is refused
\* only after something failed.
PullGetsLatest ==
    \A p \in Procs : proc[p].pc = "refused" /\ proc[p].kind = "pull" => faults > 0
=============================================================================
