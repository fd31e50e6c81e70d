----------------------------- MODULE Hub_proofs -----------------------------
(* Proofs about the two documents of the hub package that processes share      *)
(* without a lock: HubStore, for any set of processes, publications and        *)
(* faults, and Registry, for any set of commands, models and crashes.          *)
EXTENDS HubStore, Registry, TLAPS

(***************************************************************************)
(* HubStore: imports.  A process between the gate and the load works on a  *)
(* file with the bytes it verified, or it is known that the file was       *)
(* written to; between the load and the save it has what it verified.      *)
(***************************************************************************)
Verified ==
  /\ \A p \in Procs : proc[p].pc = "load" =>
       /\ proc[p].file \in Files
       /\ ~proc[p].raced => files[proc[p].file] = proc[p].want
  /\ \A p \in Procs : proc[p].pc = "save" /\ ~proc[p].raced => proc[p].got = proc[p].want
  /\ PromotedIsPublished

(***************************************************************************)
(* HubStore: _store().  Where no two processes were in it at once, the     *)
(* process in it writes to the temporary file and moves a readable one.    *)
(***************************************************************************)
StoresAlone ==
  "store" \notin overlap =>
    /\ \A p, q \in Procs : proc[p].pc \in Storing /\ proc[q].pc \in Storing => p = q
    /\ \A p \in Procs : /\ proc[p].pc = "write" => proc[p].hnd = "tmp"
                        /\ proc[p].pc = "replace" => Readable(doc.tmp)
    /\ doc.index # Torn

(***************************************************************************)
(* HubStore: fetch_index().  Where no two processes were in it at once, an *)
(* answer is at least as new as the index, and what the server serves is   *)
(* at least as new as the answer; what is moved into place is the answer.  *)
(***************************************************************************)
RefreshesAlone ==
  overlap = {} =>
    /\ \A p, q \in Procs : proc[p].pc \in Refreshing /\ proc[q].pc \in Refreshing => p = q
    /\ doc.etag <= doc.index /\ doc.index <= served
    /\ \A p \in Procs :
         /\ proc[p].pc \in {"store", "write", "validate", "replace"} =>
              /\ doc.index <= proc[p].want /\ proc[p].want <= served
              /\ proc[p].got \in {proc[p].want, Torn}
         /\ proc[p].pc = "validate" => doc.tmp = proc[p].got
         /\ proc[p].pc = "replace" => doc.tmp = proc[p].want
         /\ proc[p].pc = "etag" => proc[p].want = doc.index

HubInv == HubTypeOK /\ Verified /\ StoresAlone /\ RefreshesAlone
-----------------------------------------------------------------------------
\* The numbers of publications, files and marks.
LEMMA Marks ==
  /\ MaxVersion \in Nat /\ MaxVersion > 0 /\ Tries \in Nat /\ MaxFaults \in Nat
  /\ Torn = MaxVersion + 1 /\ Empty = MaxVersion + 2 /\ None = 0
  /\ \A v \in Versions : UrlFile[v] \in Files
  /\ PinFile \in Files /\ Files \subseteq Rank /\ 0 \in Rank
  /\ 1 \in Versions /\ 1 \in 0..MaxVersion
  BY HubAssumption DEF Torn, Empty, None, Versions, Files, Rank

LEMMA IdleIsProcess == Idle \in Process /\ Idle.pc = "idle"
  BY Marks DEF Idle, Process, Places, Kinds

LEMMA HubInvInit == HubInit => HubInv
<1> SUFFICES ASSUME HubInit PROVE HubInv
  OBVIOUS
<1> USE DEF HubInit
<1>1. HubTypeOK
  <2>1. /\ served \in Versions /\ overlap \subseteq {"refresh", "store"}
        /\ faults \in 0..MaxFaults /\ tries \in 0..Tries
    BY Marks
  <2>2. /\ doc \in [index : 0..Torn, tmp : 0..Torn, etag : 0..MaxVersion]
        /\ files \in [Files -> 0..Empty]
        /\ store \in [bytes : 0..Torn, sum : 0..MaxVersion, raced : BOOLEAN]
    BY Marks
  <2>3. proc \in [Procs -> Process]
    BY IdleIsProcess
  <2>4. QED
    BY <2>1, <2>2, <2>3 DEF HubTypeOK
<1>2. \A p \in Procs : proc[p].pc = "idle"
  BY IdleIsProcess
<1>3. Verified
  BY <1>2 DEF Verified, PromotedIsPublished
<1>4. StoresAlone
  BY <1>2, Marks DEF StoresAlone, Storing
<1>5. RefreshesAlone
  BY <1>2, Marks DEF RefreshesAlone, Refreshing, Storing, Versions
<1>6. QED
  BY <1>1, <1>3, <1>4, <1>5 DEF HubInv
-----------------------------------------------------------------------------
LEMMA GoesTo ==
  ASSUME HubTypeOK, NEW p \in Procs, NEW r, Goes(p, r)
  PROVE  /\ r \in Process => proc' \in [Procs -> Process]
         /\ proc'[p] = r /\ \A q \in Procs \ {p} : proc'[q] = proc[q]
  BY DEF HubTypeOK, Goes

\* The fields of a process, and the values the actions give them.
LEMMA ProcessFields ==
  ASSUME HubTypeOK, NEW p \in Procs
  PROVE  /\ proc[p] \in Process
         /\ proc[p].pc \in Places /\ proc[p].got \in 0..Torn
         /\ proc[p].want \in 0..MaxVersion /\ proc[p].file \in Rank
  BY DEF HubTypeOK, Process

LEMMA RefreshedTypes ==
  ASSUME HubTypeOK, NEW p \in Procs, Refreshed(p) \/ Fallback(p)
  PROVE  /\ proc' \in [Procs -> Process]
         /\ proc'[p].pc \notin Refreshing \cup {"load", "save"}
         /\ \A q \in Procs \ {p} : proc'[q] = proc[q]
<1>1. CASE Refreshed(p)
  <2> DEFINE r == [proc[p] EXCEPT
                     !.pc = IF proc[p].kind = "pin" THEN "pinned" ELSE "lookup",
                     !.got = None, !.want = None, !.hnd = "none"]
  <2>1. r \in Process /\ r.pc \in {"pinned", "lookup"}
    <3>1. \E pc \in {"pinned", "lookup"} :
             r = [proc[p] EXCEPT !.pc = pc, !.got = 0, !.want = 0, !.hnd = "none"]
      BY Marks
    <3>2. 0 \in 0..Torn /\ 0 \in 0..MaxVersion /\ {"pinned", "lookup"} \subseteq Places
      BY Marks DEF Places
    <3>3. QED
      BY <3>1, <3>2, ProcessFields DEF Process
  <2>2. Goes(p, r)
    BY <1>1 DEF Refreshed
  <2> HIDE DEF r
  <2>3. QED
    BY <2>1, <2>2, GoesTo DEF Refreshing, Storing
<1>2. CASE Ends(p)
  BY <1>2, GoesTo, IdleIsProcess DEF Ends, Refreshing, Storing
<1>3. QED
  BY <1>1, <1>2 DEF Fallback

\* What a refresh leaves alone, so far as imports go.
Elsewhere ==
  /\ files' = files /\ store' = store
  /\ \A q \in Procs : proc'[q].pc \in {"load", "save"} =>
       /\ proc'[q].pc = proc[q].pc /\ proc'[q].file = proc[q].file
       /\ proc'[q].want = proc[q].want /\ proc'[q].got = proc[q].got
       /\ proc'[q].raced = proc[q].raced

LEMMA ElsewhereKeeps == ASSUME Verified, Elsewhere PROVE Verified'
  BY DEF Verified, Elsewhere, PromotedIsPublished
-----------------------------------------------------------------------------
(* The actions of fetch_index.  *)

LEMMA StartKeeps ==
  ASSUME HubInv, NEW p \in Procs, NEW kind \in Kinds, Start(p, kind)
  PROVE  HubInv'
<1> USE DEF Start
<1> DEFINE r == [Idle EXCEPT !.kind = kind,
            !.want = IF kind \in {"hub_download", "hub_import"} THEN None ELSE doc.etag,
            !.pc = CASE kind = "hub_download" -> "lookup"
                     [] kind = "hub_import" -> "verify"
                     [] OTHER -> "request"]
<1>1. /\ r \in Process /\ r.pc \in {"lookup", "verify", "request"}
      /\ r.pc = "request" => kind \notin {"hub_download", "hub_import"}
  <2> DEFINE want == IF kind \in {"hub_download", "hub_import"} THEN None ELSE doc.etag
             pc == CASE kind = "hub_download" -> "lookup"
                     [] kind = "hub_import" -> "verify"
                     [] OTHER -> "request"
  <2>1. /\ want \in 0..MaxVersion /\ pc \in {"lookup", "verify", "request"}
        /\ pc = "request" => kind \notin {"hub_download", "hub_import"}
    BY Marks DEF HubInv, HubTypeOK
  <2>2. {"lookup", "verify", "request"} \subseteq Places
    BY DEF Places, Refreshing, Importing
  <2>3. r = [Idle EXCEPT !.kind = kind, !.want = want, !.pc = pc]
    OBVIOUS
  <2> HIDE DEF want, pc
  <2>4. QED
    BY <2>1, <2>2, <2>3, IdleIsProcess DEF Process
<1>2. Goes(p, r)
  BY DEF Goes
<1> HIDE DEF r
<1>3. /\ proc' \in [Procs -> Process] /\ proc'[p] = r
      /\ \A q \in Procs \ {p} : proc'[q] = proc[q]
  BY <1>1, <1>2, GoesTo DEF HubInv
<1>4. HubTypeOK'
  BY <1>3, Marks DEF HubInv, HubTypeOK
<1>5. Verified'
  BY <1>1, <1>3, ElsewhereKeeps DEF HubInv, Elsewhere
<1>6. StoresAlone'
  BY <1>1, <1>3 DEF HubInv, StoresAlone, Storing
<1>7. RefreshesAlone'
  <2> SUFFICES ASSUME overlap' = {} PROVE RefreshesAlone'
    BY DEF RefreshesAlone
  <2>1. overlap = {} /\ (r.pc = "request" => \A q \in Procs \ {p} : proc[q].pc \notin Refreshing)
    BY <1>1
  <2>2. QED
    BY <1>1, <1>3, <2>1 DEF HubInv, RefreshesAlone, Refreshing, Storing
<1>8. QED
  BY <1>4, <1>5, <1>6, <1>7 DEF HubInv

LEMMA AnsweredKeeps == ASSUME HubInv, NEW p \in Procs, Answered(p) PROVE HubInv'
<1> USE DEF Answered
<1>1. PICK got \in {served, Torn} :
        /\ Goes(p, [proc[p] EXCEPT !.pc = "store", !.want = served, !.got = got])
        /\ IF got = Torn THEN Fault ELSE UNCHANGED faults
  OBVIOUS
<1> DEFINE r == [proc[p] EXCEPT !.pc = "store", !.want = served, !.got = got]
<1>2. r \in Process /\ r.pc = "store" /\ r.want = served /\ r.got = got
  <2>1. served \in 0..MaxVersion /\ got \in 0..Torn /\ "store" \in Places
    BY <1>1, Marks DEF HubInv, HubTypeOK, Versions, Places, Refreshing
  <2>2. QED
    BY <2>1, ProcessFields DEF HubInv, Process
<1> HIDE DEF r
<1>3. /\ proc' \in [Procs -> Process] /\ proc'[p] = r
      /\ \A q \in Procs \ {p} : proc'[q] = proc[q]
  BY <1>1, <1>2, GoesTo DEF HubInv, r
<1>4. HubTypeOK'
  <2>1. faults' \in 0..MaxFaults
    BY <1>1, Marks DEF HubInv, HubTypeOK, Fault
  <2>2. QED
    BY <1>3, <2>1 DEF HubInv, HubTypeOK
<1>5. Verified'
  BY <1>2, <1>3, ElsewhereKeeps DEF HubInv, Elsewhere
<1>6. StoresAlone'
  BY <1>2, <1>3 DEF HubInv, StoresAlone, Storing
<1>7. RefreshesAlone'
  <2>1. served \in Nat /\ proc[p].pc \in Refreshing
    BY DEF HubInv, HubTypeOK, Versions, Refreshing
  <2>2. QED
    BY <1>1, <1>2, <1>3, <2>1 DEF HubInv, RefreshesAlone, Refreshing, Storing
<1>8. QED
  BY <1>4, <1>5, <1>6, <1>7 DEF HubInv

\* A process that leaves fetch_index without touching a document.
LEMMA LeavingKeeps ==
  ASSUME HubInv, NEW p \in Procs, Refreshed(p) \/ Fallback(p),
         UNCHANGED <<served, doc, files, store, overlap, tries>>,
         faults' \in 0..MaxFaults
  PROVE  HubInv'
<1>1. /\ proc' \in [Procs -> Process]
      /\ proc'[p].pc \notin Refreshing \cup {"load", "save"}
      /\ \A q \in Procs \ {p} : proc'[q] = proc[q]
  BY RefreshedTypes DEF HubInv
<1>2. HubTypeOK'
  BY <1>1 DEF HubInv, HubTypeOK
<1>3. Verified'
  BY <1>1, ElsewhereKeeps DEF HubInv, Elsewhere
<1>4. StoresAlone'
  BY <1>1 DEF HubInv, StoresAlone, Refreshing, Storing
<1>5. RefreshesAlone'
  BY <1>1 DEF HubInv, RefreshesAlone, Refreshing, Storing
<1>6. QED
  BY <1>2, <1>3, <1>4, <1>5 DEF HubInv

LEMMA NotAnsweredKeeps == ASSUME HubInv, NEW p \in Procs, NotAnswered(p) PROVE HubInv'
<1>1. faults' \in 0..MaxFaults
  BY Marks DEF NotAnswered, Fault, HubInv, HubTypeOK
<1>2. QED
  BY <1>1, LeavingKeeps DEF NotAnswered

LEMMA ReplaceFailsKeeps == ASSUME HubInv, NEW p \in Procs, ReplaceFails(p) PROVE HubInv'
  BY LeavingKeeps DEF ReplaceFails, HubInv, HubTypeOK

LEMMA OpenTmpKeeps == ASSUME HubInv, NEW p \in Procs, OpenTmp(p) PROVE HubInv'
<1> USE DEF OpenTmp
<1> DEFINE r == [proc[p] EXCEPT !.pc = "write", !.hnd = "tmp"]
<1>1. /\ r \in Process /\ r.pc = "write" /\ r.hnd = "tmp"
      /\ r.want = proc[p].want /\ r.got = proc[p].got
  <2>1. "write" \in Places
    BY DEF Places, Refreshing, Storing
  <2>2. QED
    BY <2>1, ProcessFields DEF HubInv, Process
<1> HIDE DEF r
<1>2. /\ proc' \in [Procs -> Process] /\ proc'[p] = r
      /\ \A q \in Procs \ {p} : proc'[q] = proc[q]
  BY <1>1, GoesTo DEF HubInv, r
<1>3. /\ doc' \in [index : 0..Torn, tmp : 0..Torn, etag : 0..MaxVersion]
      /\ doc'.index = doc.index /\ doc'.etag = doc.etag
  BY Marks DEF HubInv, HubTypeOK
<1>4. HubTypeOK'
  BY <1>2, <1>3 DEF HubInv, HubTypeOK
<1>5. Verified'
  BY <1>1, <1>2, ElsewhereKeeps DEF HubInv, Elsewhere
<1>6. StoresAlone'
  <2> SUFFICES ASSUME "store" \notin overlap' PROVE StoresAlone'
    BY DEF StoresAlone
  <2>1. "store" \notin overlap /\ \A q \in Procs \ {p} : proc[q].pc \notin Storing
    OBVIOUS
  <2>2. QED
    BY <1>1, <1>2, <1>3, <2>1 DEF HubInv, StoresAlone, Storing
<1>7. RefreshesAlone'
  <2> SUFFICES ASSUME overlap' = {} PROVE RefreshesAlone'
    BY DEF RefreshesAlone
  <2>1. overlap = {} /\ proc[p].pc = "store" /\ served' = served
    OBVIOUS
  <2>2. QED
    BY <1>1, <1>2, <1>3, <2>1 DEF HubInv, RefreshesAlone, Refreshing, Storing
<1>8. QED
  BY <1>4, <1>5, <1>6, <1>7 DEF HubInv

LEMMA WriteTmpKeeps == ASSUME HubInv, NEW p \in Procs, WriteTmp(p) PROVE HubInv'
<1> USE DEF WriteTmp
<1> DEFINE r == [proc[p] EXCEPT !.pc = "validate", !.hnd = "none"]
<1>1. /\ r \in Process /\ r.pc = "validate"
      /\ r.want = proc[p].want /\ r.got = proc[p].got
  <2>1. "validate" \in Places
    BY DEF Places, Refreshing, Storing
  <2>2. QED
    BY <2>1, ProcessFields DEF HubInv, Process
<1> HIDE DEF r
<1>2. /\ proc' \in [Procs -> Process] /\ proc'[p] = r
      /\ \A q \in Procs \ {p} : proc'[q] = proc[q]
  BY <1>1, GoesTo DEF HubInv, r
<1>3. /\ doc' \in [index : 0..Torn, tmp : 0..Torn, etag : 0..MaxVersion]
      /\ proc[p].hnd = "tmp" => /\ doc'.index = doc.index /\ doc'.etag = doc.etag
                                /\ doc'.tmp = proc[p].got
  BY ProcessFields DEF HubInv, HubTypeOK
<1>4. HubTypeOK'
  BY <1>2, <1>3 DEF HubInv, HubTypeOK
<1>5. Verified'
  BY <1>1, <1>2, ElsewhereKeeps DEF HubInv, Elsewhere
<1>6. StoresAlone'
  BY <1>1, <1>2, <1>3 DEF HubInv, StoresAlone, Storing
<1>7. RefreshesAlone'
  <2> SUFFICES ASSUME overlap' = {} PROVE RefreshesAlone'
    BY DEF RefreshesAlone
  <2>1. overlap = {} /\ proc[p].pc = "write" /\ served' = served
    OBVIOUS
  <2>2. proc[p].hnd = "tmp"
    BY <2>1 DEF HubInv, StoresAlone
  <2>3. QED
    BY <1>1, <1>2, <1>3, <2>1, <2>2 DEF HubInv, RefreshesAlone, Refreshing, Storing
<1>8. QED
  BY <1>4, <1>5, <1>6, <1>7 DEF HubInv

LEMMA ValidatedKeeps == ASSUME HubInv, NEW p \in Procs, Validated(p) PROVE HubInv'
<1> USE DEF Validated
<1> DEFINE r == [proc[p] EXCEPT !.pc = "replace"]
<1>1. /\ r \in Process /\ r.pc = "replace"
      /\ r.want = proc[p].want /\ r.got = proc[p].got
  <2>1. "replace" \in Places
    BY DEF Places, Refreshing, Storing
  <2>2. QED
    BY <2>1, ProcessFields DEF HubInv, Process
<1> HIDE DEF r
<1>2. /\ proc' \in [Procs -> Process] /\ proc'[p] = r
      /\ \A q \in Procs \ {p} : proc'[q] = proc[q]
  BY <1>1, GoesTo DEF HubInv, r
<1>3. HubTypeOK'
  BY <1>2 DEF HubInv, HubTypeOK
<1>4. Verified'
  BY <1>1, <1>2, ElsewhereKeeps DEF HubInv, Elsewhere
<1>5. StoresAlone'
  BY <1>1, <1>2 DEF HubInv, StoresAlone, Storing, Readable
<1>6. RefreshesAlone'
  <2>1. doc.tmp # Torn
    BY Marks DEF Readable, Versions
  <2>2. QED
    BY <1>1, <1>2, <2>1 DEF HubInv, RefreshesAlone, Refreshing, Storing
<1>7. QED
  BY <1>3, <1>4, <1>5, <1>6 DEF HubInv

\* The other processes may lose the file that they have open, and no more.
LEMMA MalformedKeeps == ASSUME HubInv, NEW p \in Procs, Malformed(p) PROVE HubInv'
<1> USE DEF Malformed
<1>1. /\ doc' \in [index : 0..Torn, tmp : 0..Torn, etag : 0..MaxVersion]
      /\ doc'.index = doc.index /\ doc'.etag = doc.etag
  BY Marks DEF HubInv, HubTypeOK
<1>2. \A q \in Procs \ {p} :
        /\ proc'[q] \in Process /\ proc'[q].pc = proc[q].pc /\ proc'[q].file = proc[q].file
        /\ proc'[q].want = proc[q].want /\ proc'[q].got = proc[q].got
        /\ proc'[q].raced = proc[q].raced
  BY ProcessFields DEF HubInv, Process
<1>3. proc'[p] \in Process /\ proc'[p].pc \notin Refreshing \cup {"load", "save"}
  <2>1. CASE ~Readable(doc.index)
    BY <2>1, IdleIsProcess DEF Refreshing, Storing
  <2>2. CASE Readable(doc.index)
    <3>1. PICK pc \in {"pinned", "lookup"} :
             proc'[p] = [proc[p] EXCEPT !.pc = pc, !.got = 0, !.want = 0]
      BY <2>2, Marks
    <3>2. 0 \in 0..Torn /\ 0 \in 0..MaxVersion /\ {"pinned", "lookup"} \subseteq Places
      BY Marks DEF Places
    <3>3. proc[p] \in Process
      BY ProcessFields DEF HubInv
    <3> HIDE DEF Malformed
    <3>4. proc'[p] \in Process /\ proc'[p].pc = pc
      BY <3>1, <3>2, <3>3 DEF Process
    <3>5. QED
      BY <3>4 DEF Refreshing, Storing
  <2>3. QED
    BY <2>1, <2>2
<1>4. HubTypeOK'
  <2>1. proc' \in [Procs -> Process]
    BY <1>2, <1>3
  <2>2. QED
    BY <1>1, <2>1 DEF HubInv, HubTypeOK
<1>5. Verified'
  BY <1>2, <1>3, ElsewhereKeeps DEF HubInv, Elsewhere
<1>6. StoresAlone'
  BY <1>1, <1>2, <1>3 DEF HubInv, StoresAlone, Storing, Refreshing
<1>7. RefreshesAlone'
  BY <1>1, <1>2, <1>3 DEF HubInv, RefreshesAlone, Refreshing, Storing
<1>8. QED
  BY <1>4, <1>5, <1>6, <1>7 DEF HubInv

LEMMA ReplaceKeeps == ASSUME HubInv, NEW p \in Procs, Replace(p) PROVE HubInv'
<1> USE DEF Replace
<1>0. /\ proc[p].pc = "replace"
      /\ UNCHANGED <<served, files, store, overlap, tries, faults>>
  OBVIOUS
<1>1. /\ doc' \in [index : 0..Torn, tmp : 0..Torn, etag : 0..MaxVersion]
      /\ doc'.index = doc.tmp /\ doc'.etag = doc.etag
  <2>1. doc' = [doc EXCEPT !.index = doc.tmp, !.tmp = 0]
    BY Marks
  <2>2. doc \in [index : 0..Torn, tmp : 0..Torn, etag : 0..MaxVersion] /\ 0 \in 0..Torn
    BY Marks DEF HubInv, HubTypeOK
  <2> HIDE DEF Replace
  <2>3. QED
    BY <2>1, <2>2
<1>2. \A q \in Procs \ {p} :
        /\ proc'[q] \in Process /\ proc'[q].pc = proc[q].pc /\ proc'[q].file = proc[q].file
        /\ proc'[q].want = proc[q].want /\ proc'[q].got = proc[q].got
        /\ proc'[q].raced = proc[q].raced
  BY ProcessFields DEF HubInv, Process
<1>3. proc'[p] \in Process /\ proc'[p].pc = "etag" /\ proc'[p].want = proc[p].want
  <2>1. "etag" \in Places
    BY DEF Places, Refreshing, Storing
  <2>2. QED
    BY <2>1, ProcessFields DEF HubInv, Process
<1>4. HubTypeOK'
  <2>1. proc' \in [Procs -> Process]
    BY <1>2, <1>3
  <2> HIDE DEF Replace
  <2>2. QED
    BY <1>0, <1>1, <2>1 DEF HubInv, HubTypeOK
<1> HIDE DEF Replace
<1>5. Verified'
  BY <1>0, <1>2, <1>3, ElsewhereKeeps DEF HubInv, Elsewhere
<1>6. StoresAlone'
  <2> SUFFICES ASSUME "store" \notin overlap' PROVE StoresAlone'
    BY DEF StoresAlone
  <2>1. doc.tmp # Torn /\ \A q \in Procs \ {p} : proc[q].pc \notin Storing
    BY <1>0, Marks DEF HubInv, StoresAlone, Storing, Readable, Versions
  <2>2. QED
    BY <1>0, <1>1, <1>2, <1>3, <2>1 DEF HubInv, StoresAlone, Storing
<1>7. RefreshesAlone'
  <2> SUFFICES ASSUME overlap' = {} PROVE RefreshesAlone'
    BY DEF RefreshesAlone
  <2>1. /\ overlap = {} /\ proc[p].pc = "replace" /\ served' = served
        /\ proc[p].pc \in Refreshing
    BY <1>0 DEF Refreshing, Storing
  <2>2. /\ \A q \in Procs \ {p} : proc[q].pc \notin Refreshing
        /\ doc.etag <= doc.index /\ doc.index <= proc[p].want /\ proc[p].want <= served
        /\ doc.tmp = proc[p].want
    BY <2>1 DEF HubInv, RefreshesAlone
  <2>3. doc.etag \in Nat /\ doc.index \in Nat /\ proc[p].want \in Nat /\ served \in Nat
    BY ProcessFields DEF HubInv, HubTypeOK, Versions
  <2>4. /\ doc'.etag <= doc'.index /\ doc'.index <= served'
        /\ proc'[p].want = doc'.index
    BY <1>1, <1>3, <2>1, <2>2, <2>3
  <2>5. \A q \in Procs : proc'[q].pc \in Refreshing => q = p
    BY <1>2, <2>2
  <2>6. {"store", "write", "validate", "replace", "etag"} \subseteq Refreshing
    BY DEF Refreshing, Storing
  <2>7. QED
    BY <1>3, <2>4, <2>5, <2>6 DEF RefreshesAlone
<1>8. QED
  BY <1>4, <1>5, <1>6, <1>7 DEF HubInv

LEMMA RememberEtagKeeps == ASSUME HubInv, NEW p \in Procs, RememberEtag(p) PROVE HubInv'
<1> USE DEF RememberEtag
<1>1. /\ doc' \in [index : 0..Torn, tmp : 0..Torn, etag : 0..MaxVersion]
      /\ doc'.index = doc.index /\ doc'.tmp = doc.tmp /\ doc'.etag = proc[p].want
  BY ProcessFields DEF HubInv, HubTypeOK
<1>2. /\ proc' \in [Procs -> Process]
      /\ proc'[p].pc \notin Refreshing \cup {"load", "save"}
      /\ \A q \in Procs \ {p} : proc'[q] = proc[q]
  BY RefreshedTypes DEF HubInv
<1>3. HubTypeOK'
  BY <1>1, <1>2 DEF HubInv, HubTypeOK
<1>4. Verified'
  BY <1>2, ElsewhereKeeps DEF HubInv, Elsewhere
<1>5. StoresAlone'
  BY <1>1, <1>2 DEF HubInv, StoresAlone, Storing, Refreshing
<1>6. RefreshesAlone'
  <2> SUFFICES ASSUME overlap' = {} PROVE RefreshesAlone'
    BY DEF RefreshesAlone
  <2>1. overlap = {} /\ proc[p].pc = "etag" /\ served' = served
    OBVIOUS
  <2>2. proc[p].want = doc.index /\ doc.index \in Nat
    BY <2>1 DEF HubInv, RefreshesAlone, HubTypeOK
  <2>3. doc'.etag <= doc'.index
    BY <1>1, <2>2
  <2>4. QED
    BY <1>1, <1>2, <2>1, <2>3 DEF HubInv, RefreshesAlone, Refreshing, Storing
<1>7. QED
  BY <1>3, <1>4, <1>5, <1>6 DEF HubInv
-----------------------------------------------------------------------------
(* The actions outside fetch_index.  *)

\* They leave the index, and the processes that refresh it, as they are.
Outside ==
  /\ served' = served /\ doc' = doc /\ overlap' = overlap
  /\ \A q \in Procs : proc'[q].pc \in Refreshing => proc'[q] = proc[q]

LEMMA OutsideKeeps ==
  ASSUME StoresAlone, RefreshesAlone, Outside
  PROVE  StoresAlone' /\ RefreshesAlone'
<1>1. StoresAlone'
  BY DEF StoresAlone, Outside, Refreshing, Storing
<1>2. RefreshesAlone'
  BY DEF RefreshesAlone, Outside, Refreshing, Storing
<1>3. QED
  BY <1>1, <1>2

\* A process that goes on outside fetch_index and touches no file.
LEMMA GoingOnKeeps ==
  ASSUME HubInv, NEW p \in Procs, NEW r \in Process, Goes(p, r),
         r.pc \notin Refreshing \cup {"load", "save"},
         UNCHANGED <<served, doc, files, store, overlap, tries>>,
         faults' \in 0..MaxFaults
  PROVE  HubInv'
<1>1. /\ proc' \in [Procs -> Process] /\ proc'[p] = r
      /\ \A q \in Procs \ {p} : proc'[q] = proc[q]
  BY GoesTo DEF HubInv
<1>2. HubTypeOK'
  BY <1>1 DEF HubInv, HubTypeOK
<1>3. Verified'
  BY <1>1, ElsewhereKeeps DEF HubInv, Elsewhere
<1>4. StoresAlone' /\ RefreshesAlone'
  BY <1>1, OutsideKeeps DEF HubInv, Outside
<1>5. QED
  BY <1>2, <1>3, <1>4 DEF HubInv

LEMMA EndingKeeps ==
  ASSUME HubInv, NEW p \in Procs, Ends(p),
         UNCHANGED <<served, doc, files, store, overlap, tries>>,
         faults' \in 0..MaxFaults
  PROVE  HubInv'
  BY GoingOnKeeps, IdleIsProcess DEF Ends, Refreshing, Storing

\* Where a process may go, and which places are no part of a refresh.
LEMMA Elsewheres ==
  /\ {"idle", "lookup", "pinned", "fetch", "refused", "copy", "copied", "verify",
      "load", "save"} \subseteq Places
  /\ \A pc \in {"idle", "lookup", "pinned", "fetch", "refused", "copy", "copied",
                "verify", "load", "save"} : pc \notin Refreshing
  BY DEF Places, Refreshing, Storing, Copying, Importing

LEMMA LookupKeeps == ASSUME HubInv, NEW p \in Procs, Lookup(p) PROVE HubInv'
<1>0. faults' \in 0..MaxFaults
  BY DEF Lookup, HubInv, HubTypeOK
<1>1. CASE Ends(p)
  BY <1>0, <1>1, EndingKeeps DEF Lookup
<1>2. CASE Goes(p, [proc[p] EXCEPT !.pc = "verify"])
  <2> DEFINE r == [proc[p] EXCEPT !.pc = "verify"]
  <2>1. r \in Process /\ r.pc = "verify"
    BY ProcessFields, Elsewheres DEF HubInv, Process
  <2> HIDE DEF r
  <2>2. QED
    BY <1>0, <1>2, <2>1, GoingOnKeeps, Elsewheres DEF Lookup, r
<1>3. CASE /\ Readable(doc.index)
           /\ Goes(p, [proc[p] EXCEPT !.pc = "fetch", !.want = doc.index,
                                      !.file = UrlFile[doc.index]])
  <2> DEFINE r == [proc[p] EXCEPT !.pc = "fetch", !.want = doc.index,
                                  !.file = UrlFile[doc.index]]
  <2>1. doc.index \in 0..MaxVersion /\ UrlFile[doc.index] \in Rank
    BY <1>3, Marks DEF Readable, Versions
  <2>2. r \in Process /\ r.pc = "fetch"
    BY <2>1, ProcessFields, Elsewheres DEF HubInv, Process
  <2> HIDE DEF r
  <2>3. QED
    BY <1>0, <1>3, <2>2, GoingOnKeeps, Elsewheres DEF Lookup, r
<1>4. QED
  BY <1>1, <1>2, <1>3 DEF Lookup

LEMMA PinnedKeeps == ASSUME HubInv, NEW p \in Procs, Pinned(p) PROVE HubInv'
<1>0. faults' \in 0..MaxFaults
  BY DEF Pinned, HubInv, HubTypeOK
<1>1. CASE Ends(p)
  BY <1>0, <1>1, EndingKeeps DEF Pinned
<1>2. CASE Goes(p, [proc[p] EXCEPT !.pc = "fetch", !.want = 1, !.file = PinFile])
  <2> DEFINE r == [proc[p] EXCEPT !.pc = "fetch", !.want = 1, !.file = PinFile]
  <2>1. r \in Process /\ r.pc = "fetch"
    BY ProcessFields, Elsewheres, Marks DEF HubInv, Process
  <2> HIDE DEF r
  <2>2. QED
    BY <1>0, <1>2, <2>1, GoingOnKeeps, Elsewheres DEF Pinned, r
<1>3. QED
  BY <1>1, <1>2 DEF Pinned

LEMMA OpenFailsKeeps == ASSUME HubInv, NEW p \in Procs, OpenFails(p) PROVE HubInv'
<1>1. faults' \in 0..MaxFaults
  BY Marks DEF OpenFails, Fault, HubInv, HubTypeOK
<1>2. QED
  BY <1>1, EndingKeeps DEF OpenFails, HubInv, HubTypeOK

\* A step that writes to the file f: who has verified it is marked.
Touches(p, f) ==
  /\ \E b \in 0..Empty : files' \in {files, [files EXCEPT ![f] = b]}
  /\ \A q \in Procs \ {p} :
       /\ proc[q].pc = "load" /\ proc[q].file = f =>
            proc'[q] = [proc[q] EXCEPT !.raced = TRUE]
       /\ ~(proc[q].pc = "load" /\ proc[q].file = f) =>
            \/ proc'[q] = proc[q]
            \/ proc[q].pc \in Copying /\ proc'[q] = [proc[q] EXCEPT !.hnd = "gone"]
  /\ proc' = [q \in Procs |-> proc'[q]]
  /\ proc'[p] \in Process /\ proc'[p].pc \notin Refreshing \cup {"load", "save"}
  /\ UNCHANGED <<served, doc, store, overlap, tries>>
  /\ faults' \in 0..MaxFaults

LEMMA WritingKeeps ==
  ASSUME HubInv, NEW p \in Procs, NEW f, Touches(p, f) PROVE HubInv'
<1> USE DEF Touches
<1>1. \A q \in Procs : proc[q] \in Process
  BY ProcessFields DEF HubInv
<1>2. \A q \in Procs \ {p} :
        /\ proc'[q] \in Process /\ proc'[q].pc = proc[q].pc
        /\ proc'[q].file = proc[q].file /\ proc'[q].want = proc[q].want
        /\ proc'[q].got = proc[q].got
        /\ IF proc[q].pc = "load" /\ proc[q].file = f THEN proc'[q].raced = TRUE
           ELSE proc'[q].raced = proc[q].raced
        /\ proc[q].pc \in Refreshing => proc'[q] = proc[q]
  <2> SUFFICES ASSUME NEW q \in Procs \ {p}
               PROVE  /\ proc'[q] \in Process /\ proc'[q].pc = proc[q].pc
                      /\ proc'[q].file = proc[q].file /\ proc'[q].want = proc[q].want
                      /\ proc'[q].got = proc[q].got
                      /\ IF proc[q].pc = "load" /\ proc[q].file = f THEN proc'[q].raced = TRUE
                         ELSE proc'[q].raced = proc[q].raced
                      /\ proc[q].pc \in Refreshing => proc'[q] = proc[q]
    OBVIOUS
  <2>1. proc[q].pc = "load" \/ proc[q].pc \in Copying => proc[q].pc \notin Refreshing
    BY DEF Copying, Refreshing, Storing
  <2>2. CASE proc[q].pc = "load" /\ proc[q].file = f
    <3>1. proc[q] \in Process /\ proc'[q] = [proc[q] EXCEPT !.raced = TRUE]
      BY <1>1, <2>2
    <3>2. /\ proc'[q] \in Process /\ proc'[q].raced = TRUE
          /\ proc'[q].pc = proc[q].pc /\ proc'[q].file = proc[q].file
          /\ proc'[q].want = proc[q].want /\ proc'[q].got = proc[q].got
      BY <3>1 DEF Process
    <3>3. QED
      BY <2>1, <2>2, <3>2
  <2>3. CASE proc'[q] = proc[q] /\ ~(proc[q].pc = "load" /\ proc[q].file = f)
    BY <1>1, <2>3
  <2>4. CASE proc[q].pc \in Copying /\ proc'[q] = [proc[q] EXCEPT !.hnd = "gone"]
    BY <1>1, <2>1, <2>4 DEF Process, Copying
  <2>5. QED
    BY <2>2, <2>3, <2>4
<1>3. /\ files' \in [Files -> 0..Empty]
      /\ \A g \in Files : g # f => files'[g] = files[g]
  BY DEF HubInv, HubTypeOK
<1>4. HubTypeOK'
  <2>1. proc' \in [Procs -> Process]
    BY <1>2
  <2>2. QED
    BY <1>3, <2>1 DEF HubInv, HubTypeOK
<1>5. Verified'
  <2>1. ASSUME NEW q \in Procs, proc'[q].pc = "load"
        PROVE  /\ proc'[q].file \in Files
               /\ ~proc'[q].raced => files'[proc'[q].file] = proc'[q].want
    BY <1>2, <1>3, <2>1 DEF HubInv, Verified
  <2>2. ASSUME NEW q \in Procs, proc'[q].pc = "save", ~proc'[q].raced
        PROVE  proc'[q].got = proc'[q].want
    BY <1>2, <2>2 DEF HubInv, Verified
  <2>3. PromotedIsPublished'
    BY DEF HubInv, Verified, PromotedIsPublished
  <2>4. QED
    BY <2>1, <2>2, <2>3 DEF Verified
<1>6. StoresAlone' /\ RefreshesAlone'
  BY <1>2, OutsideKeeps DEF HubInv, Outside
<1>7. QED
  BY <1>4, <1>5, <1>6 DEF HubInv

LEMMA OpenFileKeeps == ASSUME HubInv, NEW p \in Procs, OpenFile(p) PROVE HubInv'
<1> USE DEF OpenFile
<1> DEFINE f == proc[p].file
           r == [proc[p] EXCEPT !.pc = "copy", !.hnd = "file"]
<1>1. r \in Process /\ r.pc = "copy"
  BY ProcessFields, Elsewheres DEF HubInv, Process
<1>2. proc' = [q \in Procs |-> IF q = p THEN r ELSE Races(f)[q]]
  BY DEF Races
<1> HIDE DEF r
<1>3. /\ proc' = [q \in Procs |-> proc'[q]] /\ proc'[p] = r
      /\ \A q \in Procs \ {p} : proc'[q] = Races(f)[q]
  BY <1>2
<1>4. Empty \in 0..Empty /\ faults' \in 0..MaxFaults
  BY Marks DEF HubInv, HubTypeOK
<1>5. files' = [files EXCEPT ![f] = Empty]
      /\ UNCHANGED <<served, doc, store, overlap, tries>>
  OBVIOUS
<1> HIDE DEF OpenFile, f
<1>6. \A q \in Procs \ {p} :
        /\ proc[q].pc = "load" /\ proc[q].file = f =>
             proc'[q] = [proc[q] EXCEPT !.raced = TRUE]
        /\ ~(proc[q].pc = "load" /\ proc[q].file = f) =>
             \/ proc'[q] = proc[q]
             \/ proc[q].pc \in Copying /\ proc'[q] = [proc[q] EXCEPT !.hnd = "gone"]
  BY <1>3 DEF Races
<1>7. Touches(p, f)
  BY <1>1, <1>3, <1>4, <1>5, <1>6, Elsewheres DEF Touches
<1>8. QED
  BY <1>7, WritingKeeps

LEMMA CopyKeeps == ASSUME HubInv, NEW p \in Procs, Copy(p) PROVE HubInv'
<1> USE DEF Copy
<1> DEFINE f == proc[p].file
           r == [proc[p] EXCEPT !.pc = "copied"]
<1>1. r \in Process /\ r.pc = "copied"
  BY ProcessFields, Elsewheres DEF HubInv, Process
<1>2. proc' = [q \in Procs |-> IF q = p THEN r ELSE Races(f)[q]]
  BY DEF Races
<1> HIDE DEF r
<1>3. /\ proc' = [q \in Procs |-> proc'[q]] /\ proc'[p] = r
      /\ \A q \in Procs \ {p} : proc'[q] = Races(f)[q]
  BY <1>2
<1>4. Torn \in 0..Empty /\ faults' \in 0..MaxFaults
  BY Marks DEF HubInv, HubTypeOK
<1>5. files' \in {files, [files EXCEPT ![f] = Torn]}
      /\ UNCHANGED <<served, doc, store, overlap, tries>>
  BY DEF Written
<1> HIDE DEF Copy, f
<1>6. \A q \in Procs \ {p} :
        /\ proc[q].pc = "load" /\ proc[q].file = f =>
             proc'[q] = [proc[q] EXCEPT !.raced = TRUE]
        /\ ~(proc[q].pc = "load" /\ proc[q].file = f) =>
             \/ proc'[q] = proc[q]
             \/ proc[q].pc \in Copying /\ proc'[q] = [proc[q] EXCEPT !.hnd = "gone"]
  BY <1>3 DEF Races
<1>7. Touches(p, f)
  BY <1>1, <1>3, <1>4, <1>5, <1>6, Elsewheres DEF Touches
<1>8. QED
  BY <1>7, WritingKeeps

LEMMA CopiedKeeps == ASSUME HubInv, NEW p \in Procs, Copied(p) PROVE HubInv'
<1> USE DEF Copied
<1> DEFINE f == proc[p].file
           r == CASE proc[p].kind = "pull" -> [Idle EXCEPT !.pc = "verify", !.kind = "pull"]
                  [] OTHER -> Idle
<1>1. r \in Process /\ r.pc \in {"idle", "verify"}
  <2>1. [Idle EXCEPT !.pc = "verify", !.kind = "pull"] \in Process
    BY IdleIsProcess, Elsewheres DEF Process, Kinds
  <2>2. [Idle EXCEPT !.pc = "verify", !.kind = "pull"].pc = "verify"
    BY IdleIsProcess DEF Process
  <2>3. QED
    BY <2>1, <2>2, IdleIsProcess
<1>2. proc' = [q \in Procs |-> IF q = p THEN r ELSE Races(f)[q]]
  BY DEF Races
<1> HIDE DEF r
<1>3. /\ proc' = [q \in Procs |-> proc'[q]] /\ proc'[p] = r
      /\ \A q \in Procs \ {p} : proc'[q] = Races(f)[q]
  BY <1>2
<1>4. Torn \in 0..Empty /\ proc[p].want \in 0..Empty /\ faults' \in 0..MaxFaults
  BY Marks, ProcessFields DEF HubInv, HubTypeOK, Fault
<1>5. /\ \/ files' \in {files, [files EXCEPT ![f] = Torn]}
         \/ files' \in {files, [files EXCEPT ![f] = proc[p].want]}
      /\ UNCHANGED <<served, doc, store, overlap, tries>>
  BY DEF Written
<1> HIDE DEF Copied, f
<1>6. \A q \in Procs \ {p} :
        /\ proc[q].pc = "load" /\ proc[q].file = f =>
             proc'[q] = [proc[q] EXCEPT !.raced = TRUE]
        /\ ~(proc[q].pc = "load" /\ proc[q].file = f) =>
             \/ proc'[q] = proc[q]
             \/ proc[q].pc \in Copying /\ proc'[q] = [proc[q] EXCEPT !.hnd = "gone"]
  BY <1>3 DEF Races
<1>7. Touches(p, f)
  BY <1>1, <1>3, <1>4, <1>5, <1>6, Elsewheres DEF Touches
<1>8. QED
  BY <1>7, WritingKeeps

LEMMA CopyFailsKeeps == ASSUME HubInv, NEW p \in Procs, CopyFails(p) PROVE HubInv'
<1> USE DEF CopyFails
<1> DEFINE f == proc[p].file
<1>1. /\ proc' = [q \in Procs |-> proc'[q]] /\ proc'[p] = Idle
      /\ \A q \in Procs \ {p} :
           proc'[q] = IF proc[q].pc \in Copying /\ proc[q].file = f
                      THEN [proc[q] EXCEPT !.hnd = "gone"] ELSE Races(f)[q]
  OBVIOUS
<1>2. None \in 0..Empty /\ faults' \in 0..MaxFaults
  BY Marks DEF HubInv, HubTypeOK, Fault
<1>3. files' = [files EXCEPT ![f] = None]
      /\ UNCHANGED <<served, doc, store, overlap, tries>>
  OBVIOUS
<1> HIDE DEF CopyFails, f
<1>4. "load" \notin Copying
  BY DEF Copying
<1>5. \A q \in Procs \ {p} :
        /\ proc[q].pc = "load" /\ proc[q].file = f =>
             proc'[q] = [proc[q] EXCEPT !.raced = TRUE]
        /\ ~(proc[q].pc = "load" /\ proc[q].file = f) =>
             \/ proc'[q] = proc[q]
             \/ proc[q].pc \in Copying /\ proc'[q] = [proc[q] EXCEPT !.hnd = "gone"]
  BY <1>1, <1>4 DEF Races
<1>6. Touches(p, f)
  BY <1>1, <1>2, <1>3, <1>5, IdleIsProcess, Elsewheres DEF Touches
<1>7. QED
  BY <1>6, WritingKeeps

\* The gate has just compared the bytes, and nobody has written to them since.
LEMMA VerifyKeeps == ASSUME HubInv, NEW p \in Procs, Verify(p) PROVE HubInv'
<1>0. /\ UNCHANGED <<served, doc, files, store, overlap, tries>>
      /\ faults' \in 0..MaxFaults
  BY DEF Verify, HubInv, HubTypeOK
<1>1. CASE Ends(p)
  BY <1>0, <1>1, EndingKeeps
<1>2. CASE Goes(p, [proc[p] EXCEPT !.pc = "refused"])
  <2> DEFINE r == [proc[p] EXCEPT !.pc = "refused"]
  <2>1. r \in Process /\ r.pc = "refused"
    BY ProcessFields, Elsewheres DEF HubInv, Process
  <2> HIDE DEF r
  <2>2. QED
    BY <1>0, <1>2, <2>1, GoingOnKeeps, Elsewheres DEF r
<1>3. ASSUME Readable(doc.index), NEW f \in Files, Gate(f),
             Goes(p, [proc[p] EXCEPT !.pc = "load", !.file = f, !.want = doc.index])
      PROVE  HubInv'
  <2> DEFINE r == [proc[p] EXCEPT !.pc = "load", !.file = f, !.want = doc.index]
  <2>1. /\ r \in Process /\ r.pc = "load" /\ r.file = f /\ r.want = doc.index
    <3>1. doc.index \in 0..MaxVersion /\ f \in Rank
      BY <1>3, Marks DEF Readable, Versions
    <3>2. QED
      BY <3>1, ProcessFields, Elsewheres DEF HubInv, Process
  <2> HIDE DEF r
  <2>2. /\ proc' \in [Procs -> Process] /\ proc'[p] = r
        /\ \A q \in Procs \ {p} : proc'[q] = proc[q]
    BY <1>3, <2>1, GoesTo DEF HubInv, r
  <2>3. HubTypeOK'
    BY <1>0, <2>2 DEF HubInv, HubTypeOK
  <2>4. Verified'
    BY <1>0, <1>3, <2>1, <2>2 DEF HubInv, Verified, PromotedIsPublished, Gate
  <2>5. StoresAlone' /\ RefreshesAlone'
    BY <1>0, <2>1, <2>2, Elsewheres, OutsideKeeps DEF HubInv, Outside
  <2>6. QED
    BY <2>3, <2>4, <2>5 DEF HubInv
<1>4. QED
  BY <1>1, <1>2, <1>3 DEF Verify

LEMMA LoadKeeps == ASSUME HubInv, NEW p \in Procs, Load(p) PROVE HubInv'
<1>0. /\ UNCHANGED <<served, doc, files, store, overlap, tries>>
      /\ faults' \in 0..MaxFaults /\ proc[p].pc = "load"
  BY DEF Load, HubInv, HubTypeOK
<1> DEFINE bytes == files[proc[p].file]
<1>1. CASE Ends(p)
  BY <1>0, <1>1, EndingKeeps
<1>2. CASE /\ bytes \in Versions \cup {Torn}
           /\ Goes(p, [proc[p] EXCEPT !.pc = "save", !.got = bytes])
  <2> DEFINE r == [proc[p] EXCEPT !.pc = "save", !.got = bytes]
  <2>1. /\ r \in Process /\ r.pc = "save" /\ r.got = bytes
        /\ r.want = proc[p].want /\ r.raced = proc[p].raced
    <3>1. bytes \in 0..Torn
      BY <1>2, Marks DEF Versions
    <3> HIDE DEF bytes
    <3>2. QED
      BY <3>1, ProcessFields, Elsewheres DEF HubInv, Process
  <2> HIDE DEF r
  <2>2. /\ proc' \in [Procs -> Process] /\ proc'[p] = r
        /\ \A q \in Procs \ {p} : proc'[q] = proc[q]
    BY <1>2, <2>1, GoesTo DEF HubInv, r
  <2>3. HubTypeOK'
    BY <1>0, <2>2 DEF HubInv, HubTypeOK
  <2>4. Verified'
    BY <1>0, <2>1, <2>2 DEF HubInv, Verified, PromotedIsPublished
  <2>5. StoresAlone' /\ RefreshesAlone'
    BY <1>0, <2>1, <2>2, Elsewheres, OutsideKeeps DEF HubInv, Outside
  <2>6. QED
    BY <2>3, <2>4, <2>5 DEF HubInv
<1>3. QED
  BY <1>1, <1>2 DEF Load

\* A process that ends, perhaps with a checkpoint, or with its ETag cut off.
LEMMA LeavesAStore ==
  ASSUME HubInv, NEW p \in Procs, Ends(p),
         UNCHANGED <<served, files, overlap, tries>>, faults' \in 0..MaxFaults,
         store' \in [bytes : 0..Torn, sum : 0..MaxVersion, raced : BOOLEAN],
         PromotedIsPublished',
         doc' = doc \/ doc' = [doc EXCEPT !.etag = 0]
  PROVE  HubInv'
<1>1. /\ proc' \in [Procs -> Process] /\ proc'[p].pc = "idle"
      /\ \A q \in Procs \ {p} : proc'[q] = proc[q]
  BY GoesTo, IdleIsProcess DEF HubInv, Ends
<1>2. /\ doc' \in [index : 0..Torn, tmp : 0..Torn, etag : 0..MaxVersion]
      /\ doc'.index = doc.index /\ doc'.tmp = doc.tmp
      /\ doc'.etag = doc.etag \/ doc'.etag = 0
      /\ doc.index \in Nat
  BY Marks DEF HubInv, HubTypeOK
<1>3. HubTypeOK'
  BY <1>1, <1>2 DEF HubInv, HubTypeOK
<1>4. Verified'
  BY <1>1 DEF HubInv, Verified
<1>5. StoresAlone'
  BY <1>1, <1>2 DEF HubInv, StoresAlone, Storing
<1>6. RefreshesAlone'
  <2>1. doc.etag <= doc.index => doc'.etag <= doc'.index
    BY <1>2
  <2>2. QED
    BY <1>1, <1>2, <2>1 DEF HubInv, RefreshesAlone, Refreshing, Storing
<1>7. QED
  BY <1>3, <1>4, <1>5, <1>6 DEF HubInv

LEMMA SaveKeeps == ASSUME HubInv, NEW p \in Procs, Save(p) PROVE HubInv'
<1>1. /\ proc[p].got \in 0..Torn /\ proc[p].want \in 0..MaxVersion
      /\ proc[p].raced \in BOOLEAN
  BY ProcessFields DEF HubInv, Process
<1>2. /\ store' \in [bytes : 0..Torn, sum : 0..MaxVersion, raced : BOOLEAN]
      /\ store'.bytes = proc[p].got /\ store'.sum = proc[p].want
      /\ store'.raced = proc[p].raced
  BY <1>1 DEF Save
<1>3. PromotedIsPublished'
  BY <1>2 DEF HubInv, Verified, PromotedIsPublished, Save
<1>4. faults' \in 0..MaxFaults
  BY DEF Save, HubInv, HubTypeOK
<1>5. QED
  BY <1>2, <1>3, <1>4, LeavesAStore DEF Save

LEMMA KillKeeps == ASSUME HubInv, NEW p \in Procs, Kill(p) PROVE HubInv'
<1>1. /\ store' \in [bytes : 0..Torn, sum : 0..MaxVersion, raced : BOOLEAN]
      /\ PromotedIsPublished'
  <2>1. CASE store' = store
    BY <2>1 DEF HubInv, HubTypeOK, Verified, PromotedIsPublished
  <2>2. CASE store' = [bytes |-> None, sum |-> None, raced |-> FALSE]
    BY <2>2, Marks DEF PromotedIsPublished
  <2>3. QED
    BY <2>1, <2>2 DEF Kill
<1>2. faults' \in 0..MaxFaults /\ (doc' = doc \/ doc' = [doc EXCEPT !.etag = 0])
  BY Marks DEF Kill, Fault, HubInv, HubTypeOK
<1>3. QED
  BY <1>1, <1>2, LeavesAStore DEF Kill

LEMMA PublishKeeps == ASSUME HubInv, Publish PROVE HubInv'
<1> USE DEF Publish
<1>1. /\ served \in Nat /\ served' \in Versions /\ served <= served'
      /\ doc.index \in Nat /\ \A p \in Procs : proc[p].want \in Nat
  BY Marks, ProcessFields DEF HubInv, HubTypeOK, Versions
<1>2. HubTypeOK'
  BY <1>1 DEF HubInv, HubTypeOK
<1>3. Verified' /\ StoresAlone'
  BY DEF HubInv, Verified, PromotedIsPublished, StoresAlone
<1>4. RefreshesAlone'
  <2>1. \A n \in Nat : n <= served => n <= served'
    BY <1>1 DEF Versions
  <2>2. QED
    BY <1>1, <2>1 DEF HubInv, RefreshesAlone
<1>5. QED
  BY <1>2, <1>3, <1>4 DEF HubInv
-----------------------------------------------------------------------------
LEMMA HubInvNext == HubInv /\ [HubNext]_hubVars => HubInv'
<1> SUFFICES ASSUME HubInv, [HubNext]_hubVars PROVE HubInv'
  OBVIOUS
<1>1. CASE Publish
  BY <1>1, PublishKeeps
<1>2. ASSUME NEW p \in Procs,
             \/ \E kind \in Kinds : Start(p, kind)
             \/ Answered(p) \/ NotAnswered(p) \/ OpenTmp(p) \/ WriteTmp(p)
             \/ Malformed(p) \/ Validated(p) \/ Replace(p) \/ ReplaceFails(p)
             \/ RememberEtag(p)
      PROVE  HubInv'
  BY <1>2, StartKeeps, AnsweredKeeps, NotAnsweredKeeps, OpenTmpKeeps, WriteTmpKeeps,
     MalformedKeeps, ValidatedKeeps, ReplaceKeeps, ReplaceFailsKeeps, RememberEtagKeeps
<1>3. ASSUME NEW p \in Procs,
             \/ Lookup(p) \/ Pinned(p) \/ OpenFile(p) \/ OpenFails(p) \/ Copy(p)
             \/ Copied(p) \/ CopyFails(p) \/ Verify(p) \/ Load(p) \/ Save(p) \/ Kill(p)
      PROVE  HubInv'
  BY <1>3, LookupKeeps, PinnedKeeps, OpenFileKeeps, OpenFailsKeeps, CopyKeeps,
     CopiedKeeps, CopyFailsKeeps, VerifyKeeps, LoadKeeps, SaveKeeps, KillKeeps
<1>4. CASE UNCHANGED hubVars
  BY <1>4 DEF hubVars, HubInv, HubTypeOK, Verified, PromotedIsPublished, StoresAlone,
              RefreshesAlone
<1>5. QED
  BY <1>1, <1>2, <1>3, <1>4 DEF HubNext

LEMMA HubInvHolds == HubSpec => []HubInv
  BY HubInvInit, HubInvNext, PTL DEF HubSpec

\* The documents, the files and the processes of the hub cache keep their types.
THEOREM HubTypes == HubSpec => []HubTypeOK
<1>1. HubInv => HubTypeOK
  BY DEF HubInv
<1>2. QED
  BY <1>1, HubInvHolds, PTL

\* However many processes are killed, transfers fail and bytes arrive altered,
\* the index can be loaded, where no two processes stored one at once.
THEOREM IndexHolds == HubSpec => []IndexIsWhole
<1>1. HubInv => IndexIsWhole
  BY DEF HubInv, StoresAlone, IndexIsWhole
<1>2. QED
  BY <1>1, HubInvHolds, PTL

\* A kill between the replacement of the index and the writing of its ETag never
\* leaves an ETag that is newer than the index, where no two refreshes overlap.
THEOREM EtagHolds == HubSpec => []EtagNotAhead
<1>1. HubInv => EtagNotAhead
  BY DEF HubInv, RefreshesAlone, EtagNotAhead
<1>2. QED
  BY <1>1, HubInvHolds, PTL

\* The checkpoint is the published model, whoever wrote what to the cache, unless
\* its file was written to between the check and the load.
THEOREM PromotedHolds == HubSpec => []PromotedIsPublished
<1>1. HubInv => PromotedIsPublished
  BY DEF HubInv, Verified
<1>2. QED
  BY <1>1, HubInvHolds, PTL
-----------------------------------------------------------------------------
(***************************************************************************)
(* Registry: what is on its way to the file has earned its stages as well, *)
(* and the one command between load and save, where no two ever were, is   *)
(* about to write what is in the file and its own entry.                   *)
(***************************************************************************)
PlannedIsEarned ==
  \A a \in Admins :
    /\ Earned(admin[a].updated)
    /\ admin[a].pc # "away" => admin[a].entry \in admin[a].updated

Alone == \A a, b \in Admins : admin[a].pc # "away" /\ admin[b].pc # "away" => a = b

WritesEverything ==
  \A a \in Admins :
    /\ admin[a].pc = "open" =>
         /\ document.whole /\ promised \subseteq admin[a].updated
         /\ promised \subseteq document.entries
    /\ admin[a].pc = "write" =>
         /\ ~document.whole /\ promised \subseteq admin[a].updated

Kept ==
  ~crossed =>
    /\ Alone /\ WritesEverything
    /\ document.whole => promised \subseteq document.entries
    /\ ~document.whole => kills > 0 \/ \E a \in Admins : admin[a].pc = "write"

RegistryInv == RegistryTypeOK /\ StagesAreEarned /\ PlannedIsEarned /\ Kept
-----------------------------------------------------------------------------
\* A registered entry, or one a stage above an entry, keeps a document earned.
LEMMA AddKeepsEarned ==
  ASSUME NEW E \in SUBSET Entries, Earned(E), NEW e \in Entries,
         \/ e \in Registered
         \/ \E from \in E : from.id = e.id /\ MayPromote(from, e.stage)
  PROVE  Earned(Add(E, e))
<1> SUFFICES ASSUME NEW f \in E \cup {e}, f \notin Registered
             PROVE  /\ [id |-> f.id, stage |-> f.stage - 1] \in E \cup {e}
                    /\ f.id \in Active
                    /\ f.stage = Prod => f.id \in Compatible
  BY DEF Earned, Add
<1>1. CASE f \in E
  BY <1>1 DEF Earned
<1>2. CASE f = e
  <2>1. PICK from \in E : from.id = e.id /\ MayPromote(from, e.stage)
    BY <1>2
  <2>2. from \in Entries /\ from.stage + 1 = e.stage
    BY <2>1 DEF MayPromote
  <2>3. [id |-> e.id, stage |-> e.stage - 1] = from
    BY <2>1, <2>2 DEF Entries, Levels, Dev, Prod
  <2>4. QED
    BY <1>2, <2>1, <2>3 DEF MayPromote
<1>3. QED
  BY <1>1, <1>2

\* A process that is away has nothing to write.
LEMMA TextsAreTyped ==
  ASSUME NEW S, NEW E \in SUBSET S, NEW b \in BOOLEAN
  PROVE  [whole |-> b, entries |-> E] \in [whole : BOOLEAN, entries : SUBSET S]
  BY Zenon

LEMMA EmptyIsEarned == Earned({})
  BY DEF Earned

LEMMA AwayIsWork == Away \in Work /\ Away.pc = "away" /\ Away.updated = {}
  BY DEF Away, Work, Levels, Dev, Prod

LEMMA WorkFields ==
  ASSUME NEW w \in Work
  PROVE  /\ w.pc \in {"away", "open", "write"} /\ w.updated \in SUBSET Entries
         /\ [w EXCEPT !.pc = "write"] \in Work
         /\ [w EXCEPT !.pc = "write"].pc = "write"
         /\ [w EXCEPT !.pc = "write"].updated = w.updated
         /\ [w EXCEPT !.pc = "write"].entry = w.entry
  BY DEF Work

LEMMA RegistryInvInit == RegistryInit => RegistryInv
<1> SUFFICES ASSUME RegistryInit PROVE RegistryInv
  OBVIOUS
<1> USE DEF RegistryInit
<1>1. RegistryTypeOK
  <2>1. document \in [whole : BOOLEAN, entries : SUBSET Entries]
    BY TextsAreTyped
  <2>2. admin \in [Admins -> Work] /\ promised \subseteq Entries /\ kills \in 0..MaxKills
    BY RegistryAssumption, AwayIsWork
  <2>3. crossed \in BOOLEAN
    BY Zenon
  <2>4. QED
    BY <2>1, <2>2, <2>3 DEF RegistryTypeOK
<1>2. StagesAreEarned /\ PlannedIsEarned
  <2>1. document.entries = {} /\ \A a \in Admins : admin[a].updated = {} /\ admin[a].pc = "away"
    BY AwayIsWork
  <2>2. StagesAreEarned
    BY <2>1, EmptyIsEarned DEF StagesAreEarned
  <2>3. PlannedIsEarned
    BY <2>1, EmptyIsEarned DEF PlannedIsEarned
  <2>4. QED
    BY <2>2, <2>3
<1>3. Kept
  BY AwayIsWork DEF Kept, Alone, WritesEverything
<1>4. QED
  BY <1>1, <1>2, <1>3 DEF RegistryInv

\* A command that prepares an entry which may be added keeps the invariant.
LEMMA PreparesKeepsInv ==
  ASSUME RegistryInv, NEW a \in Admins, NEW e \in Entries, Prepares(a, e),
         \/ e \in Registered
         \/ \E from \in document.entries : from.id = e.id /\ MayPromote(from, e.stage)
  PROVE  RegistryInv'
<1> USE DEF Prepares
<1>1. document.entries \in SUBSET Entries /\ Earned(document.entries)
  BY DEF RegistryInv, RegistryTypeOK, StagesAreEarned
<1>2. Earned(Add(document.entries, e)) /\ Add(document.entries, e) \in SUBSET Entries
  BY <1>1, AddKeepsEarned DEF Add
<1> DEFINE w == [pc |-> "open", entry |-> e, updated |-> Add(document.entries, e)]
<1>3. /\ admin \in [Admins -> Work] /\ admin' = [admin EXCEPT ![a] = w]
      /\ w \in Work /\ w.pc = "open" /\ w.entry = e
      /\ w.updated = Add(document.entries, e) /\ e \in w.updated
  <2>1. w \in Work
    BY <1>2 DEF Work, Entries
  <2>2. QED
    BY <2>1 DEF RegistryInv, RegistryTypeOK, Add
<1> HIDE DEF w
<1>4. RegistryTypeOK'
  <2>1. crossed' \in BOOLEAN
    <3>1. crossed \in BOOLEAN
      BY DEF RegistryInv, RegistryTypeOK
    <3>2. QED
      BY <3>1, Zenon
  <2>2. admin' \in [Admins -> Work]
    BY <1>3
  <2>3. QED
    BY <2>1, <2>2 DEF RegistryInv, RegistryTypeOK
<1>5. StagesAreEarned' /\ PlannedIsEarned'
  <2>1. StagesAreEarned'
    BY DEF RegistryInv, StagesAreEarned
  <2>2. \A b \in Admins : admin'[b] = IF b = a THEN w ELSE admin[b]
    BY <1>3
  <2>3. PlannedIsEarned'
    BY <1>2, <1>3, <2>2 DEF RegistryInv, PlannedIsEarned
  <2>4. QED
    BY <2>1, <2>3
<1>6. Kept'
  <2> SUFFICES ASSUME ~crossed' PROVE Kept'
    BY DEF Kept
  <2>1. ~crossed /\ document.whole /\ \A b \in Admins \ {a} : admin[b].pc = "away"
    OBVIOUS
  <2>2. promised \subseteq document.entries
    BY <2>1 DEF RegistryInv, Kept
  <2> DEFINE after == \A b \in Admins : admin'[b] = IF b = a THEN w ELSE admin[b]
  <2>3. after
    BY <1>3
  <2>4. Alone' /\ WritesEverything'
    BY <1>3, <2>1, <2>2, <2>3 DEF Alone, WritesEverything, Add
  <2>5. QED
    BY <2>1, <2>2, <2>3, <2>4 DEF Kept
<1>7. QED
  BY <1>4, <1>5, <1>6 DEF RegistryInv

\* Emptying the file loses nothing that its writer does not have.
LEMMA TruncateKeepsInv == ASSUME RegistryInv, NEW a \in Admins, Truncate(a) PROVE RegistryInv'
<1> USE DEF Truncate
<1>0. /\ \A b \in Admins : admin[b] \in Work
      /\ \A b \in Admins : admin'[b] = IF b = a THEN [admin[a] EXCEPT !.pc = "write"]
                                              ELSE admin[b]
      /\ admin' \in [Admins -> Work]
      /\ \A b \in Admins : /\ admin'[b].updated = admin[b].updated
                           /\ admin'[b].entry = admin[b].entry
                           /\ admin'[b].pc = IF b = a THEN "write" ELSE admin[b].pc
  <2>1. /\ admin \in [Admins -> Work] /\ admin[a] \in Work
        /\ admin' = [admin EXCEPT ![a] = [admin[a] EXCEPT !.pc = "write"]]
    BY DEF RegistryInv, RegistryTypeOK
  <2>2. [admin[a] EXCEPT !.pc = "write"] \in Work
    BY <2>1, WorkFields
  <2>3. QED
    BY <2>1, <2>2, WorkFields
<1>1. RegistryTypeOK'
  BY <1>0 DEF RegistryInv, RegistryTypeOK
<1>2. StagesAreEarned' /\ PlannedIsEarned'
  BY <1>0 DEF RegistryInv, StagesAreEarned, PlannedIsEarned, Earned
<1>3. Kept'
  BY <1>0 DEF RegistryInv, Kept, Alone, WritesEverything
<1>4. QED
  BY <1>1, <1>2, <1>3 DEF RegistryInv

\* Writing makes the file what the writer has; a mixture of two texts needs two.
LEMMA WriteKeepsInv == ASSUME RegistryInv, NEW a \in Admins, Write(a) PROVE RegistryInv'
<1> USE DEF Write
<1>1. admin' = [admin EXCEPT ![a] = Away] /\ Away.pc = "away" /\ Away.updated = {}
      /\ admin \in [Admins -> Work] /\ Earned(Away.updated)
      /\ admin[a].updated \in SUBSET Entries /\ admin[a].entry \in admin[a].updated
  BY AwayIsWork, EmptyIsEarned, WorkFields DEF RegistryInv, RegistryTypeOK, PlannedIsEarned
<1>2. RegistryTypeOK'
  <2>1. admin' \in [Admins -> Work]
    BY <1>1, AwayIsWork
  <2>2. document' \in [whole : BOOLEAN, entries : SUBSET Entries]
    <3>1. \/ document' = [whole |-> TRUE, entries |-> admin[a].updated]
          \/ document' = [whole |-> FALSE, entries |-> {}]
      OBVIOUS
    <3>2. /\ [whole |-> TRUE, entries |-> admin[a].updated]
               \in [whole : BOOLEAN, entries : SUBSET Entries]
          /\ [whole |-> FALSE, entries |-> {}]
               \in [whole : BOOLEAN, entries : SUBSET Entries]
      BY <1>1, TextsAreTyped, Zenon
    <3>3. QED
      BY <3>1, <3>2, Zenon
  <2>3. promised' \subseteq Entries
    BY <1>1 DEF RegistryInv, RegistryTypeOK
  <2>4. QED
    BY <2>1, <2>2, <2>3 DEF RegistryInv, RegistryTypeOK
<1>3. StagesAreEarned' /\ PlannedIsEarned'
  <2>1. document'.entries = admin[a].updated \/ document'.entries = {}
    OBVIOUS
  <2>2. Earned(admin[a].updated)
    BY DEF RegistryInv, PlannedIsEarned
  <2>3. StagesAreEarned'
    BY <2>1, <2>2, EmptyIsEarned DEF StagesAreEarned
  <2>4. PlannedIsEarned'
    BY <1>1, EmptyIsEarned DEF RegistryInv, PlannedIsEarned
  <2>5. QED
    BY <2>3, <2>4
<1>4. Kept'
  BY <1>1 DEF RegistryInv, Kept, Alone, WritesEverything
<1>5. QED
  BY <1>2, <1>3, <1>4 DEF RegistryInv

LEMMA KilledKeepsInv == ASSUME RegistryInv, NEW a \in Admins, Killed(a) PROVE RegistryInv'
<1> USE DEF Killed
<1>1. admin' = [admin EXCEPT ![a] = Away] /\ Away.pc = "away" /\ Away.updated = {}
  BY AwayIsWork
<1>2. kills \in 0..MaxKills /\ kills' \in 0..MaxKills /\ kills' > 0
  BY RegistryAssumption DEF RegistryInv, RegistryTypeOK
<1>3. RegistryTypeOK'
  <2>1. Away \in Work
    BY AwayIsWork
  <2>2. QED
    BY <1>1, <1>2, <2>1 DEF RegistryInv, RegistryTypeOK
<1>4. StagesAreEarned' /\ PlannedIsEarned'
  BY <1>1 DEF RegistryInv, RegistryTypeOK, StagesAreEarned, PlannedIsEarned, Earned
<1>5. Kept'
  BY <1>1, <1>2 DEF RegistryInv, RegistryTypeOK, Kept, Alone, WritesEverything
<1>6. QED
  BY <1>3, <1>4, <1>5 DEF RegistryInv

LEMMA RegistryInvNext == RegistryInv /\ [RegistryNext]_registryVars => RegistryInv'
<1> SUFFICES ASSUME RegistryInv, [RegistryNext]_registryVars PROVE RegistryInv'
  OBVIOUS
<1>1. ASSUME NEW a \in Admins, NEW e \in Registered, Register(a, e) PROVE RegistryInv'
  BY <1>1, RegisteredAssumption, PreparesKeepsInv DEF Register
<1>2. ASSUME NEW a \in Admins, NEW id \in Models, NEW to \in Levels, Promote(a, id, to)
      PROVE  RegistryInv'
  <2>1. [id |-> id, stage |-> to] \in Entries
    BY DEF Entries
  <2>2. PICK from \in Entries : /\ from.id = id /\ Furthest(document.entries, from)
                                /\ MayPromote(from, to)
    BY <1>2 DEF Promote
  <2>3. from \in document.entries
    BY <2>2 DEF Furthest
  <2>4. QED
    BY <1>2, <2>1, <2>2, <2>3, PreparesKeepsInv DEF Promote
<1>3. ASSUME NEW a \in Admins, Truncate(a) PROVE RegistryInv'
  BY <1>3, TruncateKeepsInv
<1>4. ASSUME NEW a \in Admins, Write(a) PROVE RegistryInv'
  BY <1>4, WriteKeepsInv
<1>5. ASSUME NEW a \in Admins, Killed(a) PROVE RegistryInv'
  BY <1>5, KilledKeepsInv
<1>6. CASE UNCHANGED registryVars
  BY <1>6 DEF registryVars, RegistryInv, RegistryTypeOK, StagesAreEarned, PlannedIsEarned,
              Earned, Kept, Alone, WritesEverything
<1>7. QED
  BY <1>1, <1>2, <1>3, <1>4, <1>5, <1>6 DEF RegistryNext

\* The invariant holds for every number of commands and crashes.
LEMMA RegistryInvHolds == RegistrySpec => []RegistryInv
  BY RegistryInvInit, RegistryInvNext, PTL DEF RegistrySpec
-----------------------------------------------------------------------------
\* The document and what the commands are about to write keep their types.
THEOREM RegistryTypes == RegistrySpec => []RegistryTypeOK
<1>1. RegistryInv => RegistryTypeOK
  BY DEF RegistryInv
<1>2. QED
  BY <1>1, RegistryInvHolds, PTL

\* However commands cross, lose each other's updates or crash, no entry of the
\* document is at a stage that it has not earned, or been registered at.
THEOREM EarnedHolds == RegistrySpec => []StagesAreEarned
<1>1. RegistryInv => StagesAreEarned
  BY DEF RegistryInv
<1>2. QED
  BY <1>1, RegistryInvHolds, PTL

\* Where no two commands ever crossed and none was killed while it wrote, every
\* reported entry stays in a readable document.
THEOREM SurvivalHolds == RegistrySpec => []PromotionSurvives
<1>1. RegistryInv => PromotionSurvives
  BY DEF RegistryInv, Kept, PromotionSurvives
<1>2. QED
  BY <1>1, RegistryInvHolds, PTL
=============================================================================
