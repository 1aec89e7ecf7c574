--------------------------- MODULE FetchersProofs ---------------------------
(***************************************************************************)
(* Theorems about fetching, for any set of invocations, any number of       *)
(* fetches and blocks and any number of failures.                           *)
(***************************************************************************)
EXTENDS Fetchers, TLAPS

(* A running job has a derivative.                                          *)
Busy == \A p \in Proc : job[p].pc # "idle" => job[p].n \in Node

(* Only archives come to mkdir() and to extraction.                         *)
ForArchives ==
    \A p \in Proc : job[p].pc = "mkdir" \/ Extracting(p) => job[p].n \in Archive

(* Who extracts does so into a directory that is there ...                  *)
DirMade == \A p \in Proc : Extracting(p) => store[job[p].n].kind = "dir"

(* ... and a plain file is never one.                                       *)
PlainIsNoDir == \A n \in Node \ Archive : store[n].kind # "dir"

FetchInv == TypeOK /\ Busy /\ ForArchives /\ DirMade /\ PlainIsNoDir /\ OneExtractor

-----------------------------------------------------------------------------
(* The parts of a job have their types.                                     *)
LEMMA JobParts ==
    ASSUME TypeOK, NEW p \in Proc
    PROVE  /\ job[p] \in Job
           /\ job[p].pc \in Pcs /\ job[p].n \in 0..N /\ job[p].k \in 1..(K + 1)
           /\ job[p].fd \in {"closed", "path", "orphan"}
           /\ job[p].data \in SUBSET Blocks
           /\ job[p].last \in {"ok", "fail"} /\ job[p].result \in {"ok", "fail"}
<1>1. job[p] \in Job
  BY DEF TypeOK
<1> QED BY <1>1 DEF Job

(* The outfile of a derivative is an object.                                *)
LEMMA OutObject ==
    ASSUME TypeOK, NEW n \in Node
    PROVE  Out(n) \in Object
BY DEF TypeOK, Out

(* Writing to the outfile keeps the types of the files.                     *)
LEMMA SetOutType ==
    ASSUME TypeOK, NEW n \in Node, NEW o \in Object, SetOut(n, o)
    PROVE  store' \in [Node -> Object] /\ tmp' \in Object
BY DEF TypeOK, SetOut

(* Unlinking takes no job but its open file.                                *)
LEMMA OrphanedType ==
    ASSUME TypeOK, NEW n \in Node
    PROVE  /\ Orphaned(n) \in [Proc -> Job]
           /\ \A q \in Proc : /\ Orphaned(n)[q].pc = job[q].pc
                              /\ Orphaned(n)[q].n = job[q].n
<1>1. ASSUME NEW q \in Proc
      PROVE  /\ Orphaned(n)[q] \in Job
             /\ Orphaned(n)[q].pc = job[q].pc /\ Orphaned(n)[q].n = job[q].n
  <2>1. Out(n) \in Object
    BY OutObject
  <2>2. Out(n).has \in SUBSET Blocks
    BY <2>1 DEF Object
  <2>3. job[q] \in Job
    BY JobParts
  <2>4. CASE job[q].fd = "path" /\ SameOut(job[q].n, n)
    <3>1. Orphaned(n)[q] = [job[q] EXCEPT !.fd = "orphan", !.data = Out(n).has]
      BY <2>4 DEF Orphaned
    <3> QED BY <3>1, <2>2, <2>3 DEF Job
  <2>5. CASE ~(job[q].fd = "path" /\ SameOut(job[q].n, n))
    BY <2>5, <2>3 DEF Orphaned
  <2> QED BY <2>4, <2>5
<1> QED BY <1>1 DEF Orphaned

(* A job that returns.                                                      *)
LEMMA ReturningType ==
    ASSUME NEW j \in Job, NEW r \in {"ok", "fail"}
    PROVE  /\ Returning(j, r) \in Job
           /\ Returning(j, r).pc = "returned" /\ Returning(j, r).n = j.n
<1>1. 1 \in 1..(K + 1) /\ {} \in SUBSET Blocks
  BY KAssumption
<1> QED BY <1>1 DEF Returning, Job, Pcs

-----------------------------------------------------------------------------
(* What a step of p may do, as far as the invariant is concerned: the jobs  *)
(* of the others stay where they are ...                                    *)
OthersStay(p) ==
    \A q \in Proc \ {p} : job'[q].pc = job[q].pc /\ job'[q].n = job[q].n

(* ... and of the store at most one plain file changes, which does not      *)
(* become a directory, ...                                                  *)
PlainWrite(n) ==
    \A m \in Node : store'[m] # store[m] =>
        m = n /\ m \notin Archive /\ (store'[m].kind = "dir" => store[m].kind = "dir")

(* ... while p itself goes on with the same derivative.                     *)
SameNode(p) == job'[p].n = job[p].n

Types == store' \in [Node -> Object] /\ tmp' \in Object /\ job' \in [Proc -> Job]

(* A failing call takes one from the budget.                                *)
LEMMA FaultType ==
    ASSUME TypeOK, NoFault \/ Fault
    PROVE  faults' \in 0..MaxFaults
BY FaultsAssumption DEF TypeOK, NoFault, Fault

(* fetch() returns with the outfile unlinked.                               *)
LEMMA RemoveEffect ==
    ASSUME TypeOK, NEW p \in Proc, job[p].n \in Node,
           NEW r \in {"ok", "fail"}, RemoveAndReturn(p, r)
    PROVE  /\ Types /\ OthersStay(p) /\ PlainWrite(job[p].n) /\ SameNode(p)
           /\ job'[p].pc = "returned"
<1> DEFINE n == job[p].n
<1>1. Absent \in Object
  BY DEF Absent, Object
<1>2. Orphaned(n) \in [Proc -> Job] /\ job[p] \in Job
  BY OrphanedType, JobParts
<1>3. job' = [Orphaned(n) EXCEPT ![p] = Returning(job[p], r)]
  BY DEF RemoveAndReturn
<1>4. Returning(job[p], r) \in Job /\ Returning(job[p], r).pc = "returned"
      /\ Returning(job[p], r).n = n
  BY <1>2, ReturningType
<1>5. job' \in [Proc -> Job] /\ job'[p].pc = "returned" /\ SameNode(p)
  BY <1>2, <1>3, <1>4 DEF SameNode
<1>6. OthersStay(p)
  BY <1>2, <1>3, OrphanedType DEF OthersStay
<1>7. store' \in [Node -> Object] /\ tmp' \in Object
  BY <1>1, SetOutType DEF RemoveAndReturn
<1>8. PlainWrite(n)
  BY DEF RemoveAndReturn, PlainWrite, SetOut, TypeOK, Absent
<1> QED BY <1>5, <1>6, <1>7, <1>8 DEF Types

(* fetch() returns and leaves the files alone.                              *)
LEMMA FailEffect ==
    ASSUME TypeOK, NEW p \in Proc, Fail(p)
    PROVE  /\ Types /\ OthersStay(p) /\ PlainWrite(job[p].n) /\ SameNode(p)
           /\ job'[p].pc = "returned"
<1>1. job[p] \in Job
  BY JobParts
<1>2. Returning(job[p], "fail") \in Job /\ Returning(job[p], "fail").pc = "returned"
      /\ Returning(job[p], "fail").n = job[p].n
  BY <1>1, ReturningType
<1>3. job' = [job EXCEPT ![p] = Returning(job[p], "fail")] /\ UNCHANGED <<store, tmp>>
  BY DEF Fail
<1> QED BY <1>2, <1>3 DEF TypeOK, Types, OthersStay, PlainWrite, SameNode

-----------------------------------------------------------------------------
(* A step of p that neither makes a directory nor writes to one, and does   *)
(* not bring p to extraction.                                               *)
Quiet(p) ==
    /\ Types /\ OthersStay(p) /\ SameNode(p) /\ PlainWrite(job[p].n)
    /\ faults' \in 0..MaxFaults
    /\ job[p].n \in Node /\ job'[p].pc # "idle"
    /\ job'[p].pc = "mkdir" => job[p].n \in Archive
    /\ Extracting(p)' => Extracting(p)

(* Returning is such a step.                                                *)
LEMMA ReturnIsQuiet ==
    ASSUME TypeOK, NEW p \in Proc, job[p].n \in Node, NoFault \/ Fault,
           Fail(p) \/ RemoveAndReturn(p, "ok") \/ RemoveAndReturn(p, "fail")
    PROVE  Quiet(p)
<1>1. /\ Types /\ OthersStay(p) /\ PlainWrite(job[p].n) /\ SameNode(p)
      /\ job'[p].pc = "returned"
  BY FailEffect, RemoveEffect
<1>2. faults' \in 0..MaxFaults
  BY FaultType
<1> QED BY <1>1, <1>2 DEF Quiet, Extracting

(* So is going on to another place, with the files left alone.              *)
LEMMA MoveIsQuiet ==
    ASSUME TypeOK, NEW p \in Proc, job[p].n \in Node,
           NoFault \/ Fault, UNCHANGED <<store, tmp>>,
           NEW j \in Job, job' = [job EXCEPT ![p] = j], j.n = job[p].n,
           j.pc # "idle", j.pc = "mkdir" => job[p].n \in Archive,
           j.pc \in {"unpack", "extract", "extracted"} => Extracting(p)
    PROVE  Quiet(p)
<1>1. job'[p] = j /\ OthersStay(p) /\ SameNode(p) /\ Types
  BY DEF TypeOK, OthersStay, SameNode, Types
<1>2. faults' \in 0..MaxFaults
  BY FaultType
<1>3. PlainWrite(job[p].n)
  BY DEF PlainWrite
<1> QED BY <1>1, <1>2, <1>3 DEF Quiet, Extracting

(* fopen() of the outfile.                                                  *)
LEMMA OpenIsQuiet ==
    ASSUME FetchInv, NEW p \in Proc, Open(p)
    PROVE  Quiet(p)
<1>1. TypeOK /\ job[p].n \in Node /\ job[p] \in Job
  BY JobParts DEF FetchInv, Busy, Open
<1>2. CASE Fail(p) /\ (NoFault \/ Fault)
  BY <1>1, <1>2, ReturnIsQuiet
<1>3. CASE /\ Out(job[p].n).kind # "dir" /\ SetOut(job[p].n, EmptyFile) /\ NoFault
           /\ job' = [job EXCEPT ![p].pc = "transfer", ![p].fd = "path"]
  <2>1. EmptyFile \in Object
    BY DEF EmptyFile, Object
  <2>2. store' \in [Node -> Object] /\ tmp' \in Object
    BY <1>1, <1>3, <2>1, SetOutType
  <2> DEFINE j == [job[p] EXCEPT !.pc = "transfer", !.fd = "path"]
  <2>3. j \in Job /\ j.pc = "transfer" /\ j.n = job[p].n
    BY <1>1 DEF Job, Pcs
  <2>4. job' = [job EXCEPT ![p] = j]
    BY <1>1, <1>3 DEF TypeOK
  <2>5. job'[p] = j /\ OthersStay(p) /\ SameNode(p) /\ Types
    BY <1>1, <2>2, <2>3, <2>4 DEF TypeOK, OthersStay, SameNode, Types
  <2>6. PlainWrite(job[p].n)
    BY <1>1, <1>3 DEF PlainWrite, SetOut, Out, TypeOK, EmptyFile
  <2>7. faults' \in 0..MaxFaults
    BY <1>1, <1>3, FaultType
  <2> QED BY <1>1, <2>3, <2>5, <2>6, <2>7 DEF Quiet, Extracting
<1> QED BY <1>2, <1>3 DEF Open

(* A block of the transfer.                                                 *)
LEMMA BlockIsQuiet ==
    ASSUME FetchInv, NEW p \in Proc, job[p].pc = "transfer", job[p].k <= K,
           NEW b \in {<<job[p].n, job[p].k>>, <<0, job[p].k>>},
           NoFault \/ Fault,
           \/ /\ job' = [job EXCEPT ![p].k = job[p].k + 1,
                                    ![p].data = {c \in @ : c[2] # job[p].k} \cup {b}]
              /\ UNCHANGED <<store, tmp>>
           \/ /\ job' = [job EXCEPT ![p].k = job[p].k + 1]
              /\ SetOut(job[p].n, Write(Out(job[p].n), b))
    PROVE  Quiet(p)
<1> DEFINE n == job[p].n
           k == job[p].k
<1>1. TypeOK /\ n \in Node /\ job[p] \in Job
  BY JobParts DEF FetchInv, Busy
<1>2. b \in Blocks /\ k \in 1..K /\ k + 1 \in 1..(K + 1)
  BY <1>1, NAssumption, KAssumption DEF Job, Blocks, Node
<1>3. faults' \in 0..MaxFaults
  BY <1>1, FaultType
<1>4. CASE /\ job' = [job EXCEPT ![p].k = k + 1,
                                 ![p].data = {c \in @ : c[2] # k} \cup {b}]
           /\ UNCHANGED <<store, tmp>>
  <2> DEFINE d == {c \in job[p].data : c[2] # k} \cup {b}
             j == [job[p] EXCEPT !.k = k + 1, !.data = d]
  <2>1. d \in SUBSET Blocks
    BY <1>1, <1>2 DEF Job
  <2>2. j \in Job /\ j.pc = "transfer" /\ j.n = n
    BY <1>1, <1>2, <2>1 DEF Job
  <2>3. job' = [job EXCEPT ![p] = j]
    BY <1>1, <1>4 DEF TypeOK
  <2> HIDE DEF j
  <2> QED BY <1>1, <1>4, <2>2, <2>3, MoveIsQuiet
<1>5. CASE /\ job' = [job EXCEPT ![p].k = k + 1]
           /\ SetOut(n, Write(Out(n), b))
  <2> DEFINE o == Write(Out(n), b)
             j == [job[p] EXCEPT !.k = k + 1]
  <2>1. Out(n) \in Object
    BY <1>1, OutObject
  <2>2. o \in Object /\ o.kind = Out(n).kind
    BY <1>2, <2>1 DEF Write, Object
  <2>3. store' \in [Node -> Object] /\ tmp' \in Object
    BY <1>1, <1>5, <2>2, SetOutType
  <2>4. j \in Job /\ j.pc = "transfer" /\ j.n = n
    BY <1>1, <1>2 DEF Job
  <2>5. job' = [job EXCEPT ![p] = j]
    BY <1>1, <1>5 DEF TypeOK
  <2>6. job'[p] = j /\ OthersStay(p) /\ SameNode(p) /\ Types
    BY <1>1, <2>3, <2>4, <2>5 DEF TypeOK, OthersStay, SameNode, Types
  <2>7. PlainWrite(n)
    <3> HIDE DEF o
    <3> QED BY <1>1, <1>5, <2>2 DEF PlainWrite, SetOut, Out, TypeOK, o
  <2> QED BY <1>1, <1>3, <2>4, <2>6, <2>7 DEF Quiet, Extracting
<1> QED BY <1>4, <1>5

(* curl_easy_perform().                                                     *)
LEMMA TransferIsQuiet ==
    ASSUME FetchInv, NEW p \in Proc, Transfer(p)
    PROVE  Quiet(p)
<1>1. TypeOK /\ job[p].n \in Node /\ job[p] \in Job /\ job[p].pc = "transfer"
  BY JobParts DEF FetchInv, Busy, Transfer
<1>2. CASE Fail(p) /\ Fault
  BY <1>1, <1>2, ReturnIsQuiet
<1>3. CASE job' = [job EXCEPT ![p].pc = "status"] /\ UNCHANGED <<store, tmp>> /\ NoFault
  <2> DEFINE j == [job[p] EXCEPT !.pc = "status"]
  <2>1. j \in Job /\ j.pc = "status" /\ j.n = job[p].n
    BY <1>1 DEF Job, Pcs
  <2>2. job' = [job EXCEPT ![p] = j]
    BY <1>1, <1>3 DEF TypeOK
  <2> HIDE DEF j
  <2> QED BY <1>1, <1>3, <2>1, <2>2, MoveIsQuiet
<1>4. CASE job[p].k <= K /\ ~(Fail(p) /\ Fault) /\ job[p].k # K + 1
  <2>1. PICK b \in {<<job[p].n, job[p].k>>, <<0, job[p].k>>} :
            /\ NoFault \/ Fault
            /\ \/ /\ job' = [job EXCEPT ![p].k = job[p].k + 1,
                                 ![p].data = {c \in @ : c[2] # job[p].k} \cup {b}]
                  /\ UNCHANGED <<store, tmp>>
               \/ /\ job' = [job EXCEPT ![p].k = job[p].k + 1]
                  /\ SetOut(job[p].n, Write(Out(job[p].n), b))
    BY <1>4, Zenon DEF Transfer
  <2> QED BY <1>1, <1>4, <2>1, BlockIsQuiet
<1>5. job[p].k <= K => job[p].k # K + 1
  BY <1>1, KAssumption DEF Job
<1> QED BY <1>2, <1>3, <1>4, <1>5, Zenon DEF Transfer

(* The HTTP status.                                                         *)
LEMMA StatusIsQuiet ==
    ASSUME FetchInv, NEW p \in Proc, Status(p)
    PROVE  Quiet(p)
<1>1. TypeOK /\ job[p].n \in Node /\ job[p] \in Job
  BY JobParts DEF FetchInv, Busy, Status
<1>2. CASE RemoveAndReturn(p, "fail") /\ Fault
  BY <1>1, <1>2, ReturnIsQuiet
<1>3. CASE /\ job' = [job EXCEPT ![p].pc = "verify", ![p].fd = "closed",
                                 ![p].data = {}, ![p].k = 1]
           /\ UNCHANGED <<store, tmp>> /\ NoFault
  <2> DEFINE j == [job[p] EXCEPT !.pc = "verify", !.fd = "closed",
                                 !.data = {}, !.k = 1]
  <2>0. 1 \in 1..(K + 1) /\ {} \in SUBSET Blocks
    BY KAssumption
  <2>1. j \in Job /\ j.pc = "verify" /\ j.n = job[p].n
    BY <1>1, <2>0 DEF Job, Pcs
  <2>2. job' = [job EXCEPT ![p] = j]
    BY <1>1, <1>3 DEF TypeOK
  <2> HIDE DEF j
  <2> QED BY <1>1, <1>3, <2>1, <2>2, MoveIsQuiet
<1> QED BY <1>2, <1>3 DEF Status

(* The hash of the download.                                                *)
LEMMA VerifyIsQuiet ==
    ASSUME FetchInv, NEW p \in Proc, Verify(p)
    PROVE  Quiet(p)
<1>1. TypeOK /\ job[p].n \in Node /\ job[p] \in Job
  BY JobParts DEF FetchInv, Busy, Verify
<1>2. CASE /\ Fail(p) \/ RemoveAndReturn(p, "fail")
           /\ NoFault \/ Fault
  BY <1>1, <1>2, ReturnIsQuiet
<1>3. CASE /\ job' = [job EXCEPT ![p].pc = IF job[p].n \in Archive THEN "mkdir" ELSE "seal"]
           /\ UNCHANGED <<store, tmp>> /\ NoFault
  <2> DEFINE j == [job[p] EXCEPT !.pc = IF job[p].n \in Archive THEN "mkdir" ELSE "seal"]
  <2>1. /\ j \in Job /\ j.pc \in {"mkdir", "seal"} /\ j.n = job[p].n
        /\ j.pc = "mkdir" => job[p].n \in Archive
    BY <1>1 DEF Job, Pcs
  <2>2. job' = [job EXCEPT ![p] = j]
    BY <1>1, <1>3 DEF TypeOK
  <2> HIDE DEF j
  <2> QED BY <1>1, <1>3, <2>1, <2>2, MoveIsQuiet
<1> QED BY <1>2, <1>3 DEF Verify

(* chmod() and chown() of a plain file.                                     *)
LEMMA SealIsQuiet ==
    ASSUME FetchInv, NEW p \in Proc, Seal(p)
    PROVE  Quiet(p)
<1>1. TypeOK /\ job[p].n \in Node /\ job[p] \in Job
  BY JobParts DEF FetchInv, Busy, Seal
<1>2. CASE /\ Fail(p) \/ RemoveAndReturn(p, "fail")
           /\ NoFault \/ Fault
  BY <1>1, <1>2, ReturnIsQuiet
<1>3. CASE /\ job' = [job EXCEPT ![p] = Returning(job[p], "ok")]
           /\ UNCHANGED <<store, tmp>> /\ NoFault
  <2>1. /\ Returning(job[p], "ok") \in Job
        /\ Returning(job[p], "ok").pc = "returned"
        /\ Returning(job[p], "ok").n = job[p].n
    BY <1>1, ReturningType
  <2> QED BY <1>1, <1>3, <2>1, MoveIsQuiet
<1> QED BY <1>2, <1>3 DEF Seal

(* extract_archive() opens the archive.                                     *)
LEMMA UnpackIsQuiet ==
    ASSUME FetchInv, NEW p \in Proc, Unpack(p)
    PROVE  Quiet(p)
<1>1. TypeOK /\ job[p].n \in Node /\ job[p] \in Job /\ Extracting(p)
  BY JobParts DEF FetchInv, Busy, Unpack, Extracting
<1>2. CASE /\ Fail(p) \/ RemoveAndReturn(p, "fail")
           /\ NoFault \/ Fault
  BY <1>1, <1>2, ReturnIsQuiet
<1>3. CASE /\ job' = [job EXCEPT ![p].pc = "extract", ![p].fd = "path", ![p].k = 1]
           /\ UNCHANGED <<store, tmp>> /\ NoFault
  <2> DEFINE j == [job[p] EXCEPT !.pc = "extract", !.fd = "path", !.k = 1]
  <2>0. 1 \in 1..(K + 1)
    BY KAssumption
  <2>1. j \in Job /\ j.pc = "extract" /\ j.n = job[p].n
    BY <1>1, <2>0 DEF Job, Pcs
  <2>2. job' = [job EXCEPT ![p] = j]
    BY <1>1, <1>3 DEF TypeOK
  <2> HIDE DEF j
  <2> QED BY <1>1, <1>3, <2>1, <2>2, MoveIsQuiet
<1> QED BY <1>2, <1>3 DEF Unpack

(* The end of an extraction.                                                *)
LEMMA ExtractedIsQuiet ==
    ASSUME FetchInv, NEW p \in Proc, Extracted(p)
    PROVE  Quiet(p)
<1>1. TypeOK /\ job[p].n \in Node
  BY DEF FetchInv, Busy, Extracted
<1>2. /\ RemoveAndReturn(p, "ok") \/ RemoveAndReturn(p, "fail")
      /\ NoFault \/ Fault
  BY DEF Extracted
<1> QED BY <1>1, <1>2, ReturnIsQuiet

-----------------------------------------------------------------------------
(* What happens to directories in the store: none is unlinked, emptied or   *)
(* replaced ...                                                             *)
DirsGrow ==
    \A n \in Node : store[n].kind = "dir" =>
        store'[n].kind = "dir" /\ store[n].has \subseteq store'[n].has

(* ... and a quiet step does not make any.                                  *)
LEMMA QuietStore ==
    ASSUME FetchInv, NEW p \in Proc, Quiet(p)
    PROVE  DirsGrow /\ PlainIsNoDir'
BY DEF FetchInv, Quiet, PlainWrite, PlainIsNoDir, DirsGrow

(* A quiet step preserves what is said of the jobs.                         *)
LEMMA QuietInv ==
    ASSUME FetchInv, NEW p \in Proc, Quiet(p), UNCHANGED <<crowd, plan, done>>
    PROVE  FetchInv'
<1>1. DirsGrow /\ PlainIsNoDir'
  BY QuietStore
<1>2. /\ OthersStay(p) /\ SameNode(p)
      /\ job'[p].pc # "idle"
      /\ job'[p].pc = "mkdir" => job[p].n \in Archive
      /\ Extracting(p)' => Extracting(p)
  BY DEF Quiet
<1>3. TypeOK'
  BY DEF FetchInv, TypeOK, Quiet, Types
<1>4. \A q \in Proc : job'[q].n = job[q].n /\ (Extracting(q)' => Extracting(q))
  BY <1>2 DEF OthersStay, SameNode, Extracting
<1>5. ForArchives'
  BY <1>2, <1>4 DEF FetchInv, ForArchives, OthersStay, SameNode
<1>6. \A q \in Proc : Extracting(q) => job[q].n \in Node
  BY DEF FetchInv, Busy, Extracting
<1>7. DirMade'
  BY <1>1, <1>4, <1>6 DEF FetchInv, DirMade, DirsGrow
<1>8. OneExtractor'
  BY <1>4 DEF FetchInv, OneExtractor
<1>9. Busy'
  BY <1>2, <1>4 DEF FetchInv, Busy, OthersStay, Quiet
<1> QED BY <1>1, <1>3, <1>5, <1>7, <1>8, <1>9 DEF FetchInv

(* mkdir() of the store path gives its maker the only extraction of it: who *)
(* extracts already has a directory there, and then the mkdir() fails.      *)
LEMMA MakeDirInv ==
    ASSUME FetchInv, NEW p \in Proc, MakeDir(p), UNCHANGED <<crowd, plan, done>>
    PROVE  FetchInv' /\ DirsGrow
<1> DEFINE n == job[p].n
<1>1. /\ TypeOK /\ n \in Node /\ n \in Archive /\ job[p] \in Job
      /\ job[p].pc = "mkdir"
  BY JobParts DEF FetchInv, Busy, ForArchives, MakeDir
<1>2. CASE RemoveAndReturn(p, "fail") /\ (NoFault \/ Fault)
  BY <1>1, <1>2, ReturnIsQuiet, QuietInv, QuietStore
<1>3. CASE /\ ~Exists(store[n]) /\ store' = [store EXCEPT ![n] = EmptyDir]
           /\ job' = [job EXCEPT ![p].pc = "unpack"] /\ UNCHANGED tmp /\ NoFault
  <2> DEFINE j == [job[p] EXCEPT !.pc = "unpack"]
  <2>1. j \in Job /\ j.pc = "unpack" /\ j.n = n
    BY <1>1 DEF Job, Pcs
  <2>2. job' = [job EXCEPT ![p] = j]
    BY <1>1, <1>3 DEF TypeOK
  <2> HIDE DEF j
  <2>3. /\ job' \in [Proc -> Job] /\ job'[p].pc = "unpack" /\ job'[p].n = n
        /\ \A q \in Proc \ {p} : job'[q] = job[q]
    BY <1>1, <2>1, <2>2 DEF TypeOK
  <2>4. store[n].kind = "none" /\ EmptyDir \in Object /\ EmptyDir.kind = "dir"
    BY <1>3 DEF Exists, EmptyDir, Object
  <2>5. /\ store' \in [Node -> Object] /\ store'[n].kind = "dir"
        /\ \A m \in Node \ {n} : store'[m] = store[m]
    BY <1>1, <1>3, <2>4 DEF TypeOK
  <2>6. DirsGrow
    BY <2>4, <2>5 DEF DirsGrow
  <2>7. TypeOK'
    BY <1>1, <1>3, <2>3, <2>5, FaultType DEF TypeOK
  <2>8. Busy' /\ ForArchives' /\ PlainIsNoDir'
    BY <1>1, <2>3, <2>5 DEF FetchInv, Busy, ForArchives, PlainIsNoDir, Extracting
  <2>9. \A q \in Proc \ {p} : Extracting(q) =>
            job[q].n \in Node /\ store[job[q].n].kind = "dir" /\ job[q].n # n
    BY <2>4 DEF FetchInv, Busy, DirMade, Extracting
  <2>10. DirMade'
    BY <2>3, <2>5, <2>9 DEF DirMade, Extracting
  <2>11. OneExtractor'
    BY <2>3, <2>9 DEF FetchInv, OneExtractor, Extracting
  <2> QED BY <2>6, <2>7, <2>8, <2>10, <2>11 DEF FetchInv
<1> QED BY <1>2, <1>3 DEF MakeDir

(* An entry is added to the directory, by the one who extracts into it.     *)
LEMMA ExtractInv ==
    ASSUME FetchInv, NEW p \in Proc, Extract(p), UNCHANGED <<crowd, plan, done>>
    PROVE  FetchInv' /\ DirsGrow
<1> DEFINE n == job[p].n
           k == job[p].k
<1>1. /\ TypeOK /\ n \in Node /\ n \in Archive /\ job[p] \in Job
      /\ Extracting(p) /\ UNCHANGED tmp
  BY JobParts DEF FetchInv, Busy, ForArchives, Extracting, Extract
<1>2. Readable(p) \subseteq Blocks
  <2>1. Out(n) \in Object
    BY <1>1, OutObject
  <2> QED BY <1>1, <2>1 DEF Readable, Job, Object
<1>3. \A b \in BlocksAt(Readable(p), k) :
         b \in Blocks /\ k \in 1..K /\ k + 1 \in 1..(K + 1)
  BY <1>1, <1>2, KAssumption DEF BlocksAt, Blocks, Job
<1>4. CASE /\ job' = [job EXCEPT ![p].pc = "extracted"]
           /\ UNCHANGED store /\ (NoFault \/ Fault)
  <2> DEFINE j == [job[p] EXCEPT !.pc = "extracted"]
  <2>1. j \in Job /\ j.pc = "extracted" /\ j.n = n
    BY <1>1 DEF Job, Pcs
  <2>2. job' = [job EXCEPT ![p] = j]
    BY <1>1, <1>4 DEF TypeOK
  <2> HIDE DEF j
  <2> QED BY <1>1, <1>4, <2>1, <2>2, MoveIsQuiet, QuietInv, QuietStore
<1>5. CASE /\ BlocksAt(Readable(p), k) # {} /\ UNCHANGED store /\ Fault
           /\ job' = [job EXCEPT ![p].k = k + 1, ![p].last = "fail"]
  <2> DEFINE j == [job[p] EXCEPT !.k = k + 1, !.last = "fail"]
  <2>0. k + 1 \in 1..(K + 1)
    BY <1>3, <1>5
  <2>1. j \in Job /\ j.pc = job[p].pc /\ j.n = n
    BY <1>1, <2>0 DEF Job
  <2>2. job' = [job EXCEPT ![p] = j]
    BY <1>1, <1>5 DEF TypeOK
  <2>3. j.pc # "idle" /\ j.pc # "mkdir"
    BY <1>1, <2>1 DEF Extracting
  <2> HIDE DEF j
  <2> QED BY <1>1, <1>5, <2>1, <2>2, <2>3, MoveIsQuiet, QuietInv, QuietStore
<1>6. ASSUME NEW b \in BlocksAt(Readable(p), k), NoFault,
             store' = [store EXCEPT ![n].has = @ \cup {b}],
             job' = [job EXCEPT ![p].k = k + 1, ![p].last = "ok"]
      PROVE  FetchInv' /\ DirsGrow
  <2> DEFINE j == [job[p] EXCEPT !.k = k + 1, !.last = "ok"]
  <2>1. j \in Job /\ j.pc = job[p].pc /\ j.n = n
    BY <1>1, <1>3 DEF Job
  <2>2. job' = [job EXCEPT ![p] = j]
    BY <1>1, <1>6 DEF TypeOK
  <2> HIDE DEF j
  <2>3. /\ job' \in [Proc -> Job]
        /\ \A q \in Proc : job'[q].pc = job[q].pc /\ job'[q].n = job[q].n
    BY <1>1, <2>1, <2>2 DEF TypeOK
  <2>4. /\ store' \in [Node -> Object]
        /\ \A m \in Node : /\ store'[m].kind = store[m].kind
                           /\ store[m].has \subseteq store'[m].has
    BY <1>1, <1>3, <1>6 DEF TypeOK, Object
  <2>5. DirsGrow
    BY <2>4 DEF DirsGrow
  <2>6. TypeOK'
    BY <1>1, <1>6, <2>3, <2>4, FaultType DEF TypeOK
  <2>7. Busy' /\ ForArchives' /\ PlainIsNoDir' /\ OneExtractor'
    BY <2>3, <2>4 DEF FetchInv, Busy, ForArchives, PlainIsNoDir, OneExtractor, Extracting
  <2>8. \A q \in Proc : Extracting(q) => job[q].n \in Node
    BY DEF FetchInv, Busy, Extracting
  <2>9. DirMade'
    BY <2>3, <2>4, <2>8 DEF FetchInv, DirMade, Extracting
  <2> QED BY <2>5, <2>6, <2>7, <2>9 DEF FetchInv
<1> QED BY <1>1, <1>4, <1>5, <1>6 DEF Extract

-----------------------------------------------------------------------------
(* The next fetch of the plan begins.                                       *)
LEMMA TakeInv ==
    ASSUME FetchInv, NEW p \in Proc, Take(p)
    PROVE  FetchInv' /\ DirsGrow
<1>1. PICK n \in plan[p] : /\ Begin(p, n) /\ UNCHANGED <<crowd, done>>
                           /\ plan' = [plan EXCEPT ![p] = @ \ {n}]
  BY DEF Take
<1> DEFINE j == [NoJob EXCEPT !.pc = "open", !.n = n]
<1>2. TypeOK /\ n \in Node /\ n \in 0..N
  BY NAssumption DEF FetchInv, TypeOK, Node
<1>3. 1 \in 1..(K + 1) /\ {} \in SUBSET Blocks
  BY KAssumption
<1>4. j \in Job /\ j.pc = "open" /\ j.n = n
  BY <1>2, <1>3 DEF NoJob, Job, Pcs
<1>5. job' = [job EXCEPT ![p] = j] /\ UNCHANGED <<store, tmp, faults>>
  BY <1>1 DEF Begin
<1> HIDE DEF j
<1>6. /\ job' \in [Proc -> Job] /\ job'[p].pc = "open" /\ job'[p].n = n
      /\ \A q \in Proc \ {p} : job'[q] = job[q]
  BY <1>2, <1>4, <1>5 DEF TypeOK
<1>7. plan' \in [Proc -> SUBSET Node]
  BY <1>1, <1>2 DEF TypeOK
<1>8. TypeOK'
  BY <1>1, <1>2, <1>5, <1>6, <1>7 DEF TypeOK
<1>9. DirsGrow /\ PlainIsNoDir'
  BY <1>5 DEF DirsGrow, FetchInv, PlainIsNoDir
<1>10. Busy' /\ ForArchives' /\ DirMade' /\ OneExtractor'
  BY <1>2, <1>5, <1>6
     DEF FetchInv, Busy, ForArchives, DirMade, OneExtractor, Extracting
<1> QED BY <1>8, <1>9, <1>10 DEF FetchInv

(* A fetch has returned to the loop of main().                              *)
LEMMA FinishInv ==
    ASSUME FetchInv, NEW p \in Proc, Finish(p)
    PROVE  FetchInv' /\ DirsGrow
<1>1. TypeOK /\ job[p].n \in Node
  BY DEF FetchInv, Busy, Finish
<1>2. 1 \in 1..(K + 1) /\ {} \in SUBSET Blocks /\ 0 \in 0..N
  BY NAssumption, KAssumption
<1>3. NoJob \in Job /\ NoJob.pc = "idle"
  BY <1>2 DEF NoJob, Job, Pcs
<1>4. job' = [job EXCEPT ![p] = NoJob] /\ UNCHANGED <<store, tmp, faults, crowd>>
  BY DEF Finish
<1>5. /\ job' \in [Proc -> Job] /\ job'[p].pc = "idle"
      /\ \A q \in Proc \ {p} : job'[q] = job[q]
  BY <1>1, <1>3, <1>4 DEF TypeOK
<1>6. plan' \in [Proc -> SUBSET Node] /\ done' \subseteq Node
  BY <1>1 DEF Finish, TypeOK
<1>7. TypeOK'
  BY <1>1, <1>4, <1>5, <1>6 DEF TypeOK
<1>8. DirsGrow /\ PlainIsNoDir'
  BY <1>4 DEF DirsGrow, FetchInv, PlainIsNoDir
<1>9. Busy' /\ ForArchives' /\ DirMade' /\ OneExtractor'
  BY <1>4, <1>5
     DEF FetchInv, Busy, ForArchives, DirMade, OneExtractor, Extracting
<1> QED BY <1>7, <1>8, <1>9 DEF FetchInv

-----------------------------------------------------------------------------
(* Nothing runs at first.                                                   *)
LEMMA FetchInvInit == RunInit => FetchInv
<1> SUFFICES ASSUME RunInit PROVE FetchInv
  OBVIOUS
<1>1. 1 \in 1..(K + 1) /\ {} \in SUBSET Blocks /\ 0 \in 0..N /\ 0 \in 0..MaxFaults
  BY NAssumption, KAssumption, FaultsAssumption
<1>2. NoJob \in Job /\ NoJob.pc = "idle"
  BY <1>1 DEF NoJob, Job, Pcs
<1>3. Absent \in Object /\ Absent.kind = "none"
  BY <1>1 DEF Absent, Object
<1>4. TypeOK
  BY <1>1, <1>2, <1>3 DEF RunInit, Init, TypeOK
<1>5. \A p \in Proc : job[p].pc = "idle"
  BY <1>2 DEF RunInit, Init
<1>6. PlainIsNoDir
  BY <1>3 DEF RunInit, Init, PlainIsNoDir
<1> QED BY <1>4, <1>5, <1>6
        DEF FetchInv, Busy, ForArchives, DirMade, OneExtractor, Extracting

(* Every step preserves the invariant, and no step harms a directory.       *)
LEMMA FetchInvStep == FetchInv /\ [RunNext]_runVars => FetchInv' /\ DirsGrow
<1> SUFFICES ASSUME FetchInv, [RunNext]_runVars
             PROVE  FetchInv' /\ DirsGrow
  OBVIOUS
<1>1. ASSUME NEW p \in Proc, Step(p), UNCHANGED <<crowd, plan, done>>
      PROVE  FetchInv' /\ DirsGrow
  <2>1. CASE Open(p)
    BY <1>1, <2>1, OpenIsQuiet, QuietInv, QuietStore
  <2>2. CASE Transfer(p)
    BY <1>1, <2>2, TransferIsQuiet, QuietInv, QuietStore
  <2>3. CASE Status(p)
    BY <1>1, <2>3, StatusIsQuiet, QuietInv, QuietStore
  <2>4. CASE Verify(p)
    BY <1>1, <2>4, VerifyIsQuiet, QuietInv, QuietStore
  <2>5. CASE Seal(p)
    BY <1>1, <2>5, SealIsQuiet, QuietInv, QuietStore
  <2>6. CASE MakeDir(p)
    BY <1>1, <2>6, MakeDirInv
  <2>7. CASE Unpack(p)
    BY <1>1, <2>7, UnpackIsQuiet, QuietInv, QuietStore
  <2>8. CASE Extract(p)
    BY <1>1, <2>8, ExtractInv
  <2>9. CASE Extracted(p)
    BY <1>1, <2>9, ExtractedIsQuiet, QuietInv, QuietStore
  <2> QED BY <1>1, <2>1, <2>2, <2>3, <2>4, <2>5, <2>6, <2>7, <2>8, <2>9 DEF Step
<1>2. CASE UNCHANGED runVars
  BY <1>2 DEF runVars, vars, FetchInv, TypeOK, Busy, ForArchives, DirMade,
              PlainIsNoDir, OneExtractor, Extracting, DirsGrow
<1>3. ASSUME NEW p \in Proc, Work(p)
      PROVE  FetchInv' /\ DirsGrow
  BY <1>1, <1>3, TakeInv, FinishInv DEF Work
<1> QED BY <1>2, <1>3 DEF RunNext

(* What the theorems below rest on.                                         *)
THEOREM FetchInvariant == RunSpec => []FetchInv
<1>1. RunInit => FetchInv
  BY FetchInvInit
<1>2. FetchInv /\ [RunNext]_runVars => FetchInv'
  BY FetchInvStep
<1> QED BY <1>1, <1>2, PTL DEF RunSpec

(* However many invocations fetch the same archive, at most one extracts it *)
(* into the store: mkdir() of fetch() is a sufficient lock.                 *)
THEOREM OnlyOneExtracts == RunSpec => []OneExtractor
<1>1. FetchInv => OneExtractor
  BY DEF FetchInv
<1> QED BY <1>1, FetchInvariant, PTL

(* However many invocations fetch, and whatever fails, no directory of the  *)
(* store is unlinked, emptied or replaced by a fetch().                     *)
THEOREM DirsOnlyGrow == RunSpec => DirOnlyGrows
<1>1. FetchInv /\ [RunNext]_runVars =>
        [\A n \in Node : store[n].kind = "dir" =>
            store'[n].kind = "dir" /\ store[n].has \subseteq store'[n].has]_runVars
  BY FetchInvStep DEF DirsGrow
<1> QED BY <1>1, FetchInvariant, PTL DEF RunSpec, DirOnlyGrows

-----------------------------------------------------------------------------
(***************************************************************************)
(* Theorems about an invocation that fetches with the machine to itself:    *)
(* what it reports as fetched is what was asked for, and only that gets     *)
(* into a directory, whatever the network sends and whichever call fails.   *)
(* (Two invocations share /tmp/fetched_file, and neither holds.)            *)
(***************************************************************************)

(* Who was not started does nothing.                                        *)
NobodyElse == \A q \in Proc \ crowd : job[q] = NoJob /\ plan[q] = {}

(* The file of a fetch that was reported is not fetched again.              *)
NotAgain ==
    \A p \in crowd :
        /\ plan[p] \cap done = {}
        /\ job[p].pc # "idle" => job[p].n \notin done \cup plan[p]

(* From the check of its hash on, the download is the right one: in the     *)
(* temporary file until it is extracted, and in the store for good.         *)
Checked(p) ==
    /\ job[p].fd # "orphan"
    /\ job[p].pc \in {"mkdir", "unpack", "extract"} => tmp.has = Whole(job[p].n)
    /\ job[p].n \notin Archive
         /\ (job[p].pc = "seal" \/ (job[p].pc = "returned" /\ job[p].result = "ok"))
       => store[job[p].n].kind = "file" /\ store[job[p].n].has = Whole(job[p].n)

FilesWhole ==
    \A n \in done \ Archive : store[n].kind = "file" /\ store[n].has = Whole(n)

AloneGood ==
    NobodyElse /\ NotAgain /\ (\A p \in crowd : Checked(p)) /\ FilesWhole /\ ArchivePure

AloneInv == FetchInv /\ (Alone => AloneGood)

-----------------------------------------------------------------------------
(* What a step of fetch() by p leaves behind: the jobs of the others, and   *)
(* all objects of the store but its own, and if its own is a directory then *)
(* a pure one.                                                              *)
Local(p) ==
    /\ job'[p].n = job[p].n
    /\ \A q \in Proc \ {p} : job'[q] = job[q]
    /\ \A m \in Node : m # job[p].n => store'[m] = store[m]
    /\ job[p].n \in Archive => store'[job[p].n].has \subseteq Whole(job[p].n)

(* A step that does so, and takes p where its download is right, preserves  *)
(* the invariant.                                                           *)
LEMMA LocalGood ==
    ASSUME FetchInv, Alone, AloneGood, NEW p \in crowd, job[p].n \in Node,
           job[p].pc # "idle", Local(p), Checked(p)', UNCHANGED <<crowd, plan, done>>
    PROVE  AloneGood'
<1>1. \A q \in crowd : q = p
  BY DEF Alone
<1>2. crowd \subseteq Proc /\ done \subseteq Node /\ Archive \subseteq Node
  BY ArchiveAssumption DEF FetchInv, TypeOK
<1>3. NobodyElse'
  BY <1>2 DEF AloneGood, NobodyElse, Local
<1>4. job[p].n \notin done \cup plan[p] /\ plan[p] \cap done = {}
  BY DEF AloneGood, NotAgain
<1>5. NotAgain'
  BY <1>1, <1>4 DEF NotAgain, Local
<1>6. (\A q \in crowd : Checked(q))'
  BY <1>1
<1>7. FilesWhole'
  BY <1>2, <1>4 DEF AloneGood, FilesWhole, Local
<1>8. ArchivePure'
  BY <1>2 DEF AloneGood, ArchivePure, Local
<1> QED BY <1>3, <1>5, <1>6, <1>7, <1>8 DEF AloneGood

(* What is known of the fetch that p is in.                                 *)
Running(p) ==
    /\ FetchInv /\ Alone /\ AloneGood /\ p \in crowd /\ p \in Proc
    /\ job[p] \in Job /\ job[p].n \in Node
    /\ Checked(p)
    /\ \A q \in Proc \ {p} : job[q] = NoJob

(* Who is at work was started, and nobody else was.                         *)
LEMMA IsRunning ==
    ASSUME FetchInv, Alone, AloneGood, NEW p \in Proc, job[p].pc # "idle"
    PROVE  Running(p)
<1>1. job[p] \in Job /\ job[p].n \in Node
  BY JobParts DEF FetchInv, Busy
<1>2. p \in crowd
  BY DEF AloneGood, NobodyElse, NoJob
<1>3. \A q \in Proc \ {p} : job[q] = NoJob
  BY <1>2 DEF AloneGood, NobodyElse, Alone
<1> QED BY <1>1, <1>2, <1>3 DEF Running, AloneGood

(* The parts of a job that returns.                                         *)
LEMMA ReturningParts ==
    ASSUME NEW j \in Job, NEW r \in {"ok", "fail"}
    PROVE  /\ Returning(j, r).pc = "returned" /\ Returning(j, r).fd = "closed"
           /\ Returning(j, r).n = j.n /\ Returning(j, r).result = r
BY DEF Returning, Job

(* fetch() gives up and leaves the file.                                    *)
LEMMA FailGood ==
    ASSUME NEW p, Running(p), Fail(p)
    PROVE  Local(p) /\ Checked(p)'
<1>1. /\ job' = [job EXCEPT ![p] = Returning(job[p], "fail")]
      /\ UNCHANGED <<store, tmp>> /\ job \in [Proc -> Job]
  BY DEF Fail, Running, FetchInv, TypeOK
<1>2. /\ Returning(job[p], "fail").pc = "returned"
      /\ Returning(job[p], "fail").fd = "closed"
      /\ Returning(job[p], "fail").n = job[p].n
      /\ Returning(job[p], "fail").result = "fail"
  BY ReturningParts DEF Running
<1>3. /\ job'[p] = Returning(job[p], "fail")
      /\ \A q \in Proc \ {p} : job'[q] = job[q]
  BY <1>1 DEF Running
<1>4. Local(p)
  BY <1>1, <1>2, <1>3 DEF Local, Running, AloneGood, ArchivePure
<1> QED BY <1>2, <1>3, <1>4 DEF Checked

(* It removes the file and returns; a plain file was then not fetched.      *)
LEMMA RemoveGood ==
    ASSUME NEW p, Running(p), NEW r \in {"ok", "fail"}, RemoveAndReturn(p, r),
           r = "ok" => job[p].n \in Archive
    PROVE  Local(p) /\ Checked(p)'
<1> DEFINE n == job[p].n
<1>1. /\ job' = [Orphaned(n) EXCEPT ![p] = Returning(job[p], r)]
      /\ SetOut(n, Absent) /\ n \in Node /\ p \in Proc
      /\ store \in [Node -> Object]
  BY DEF RemoveAndReturn, Running, FetchInv, TypeOK
<1>2. /\ Returning(job[p], r).pc = "returned" /\ Returning(job[p], r).fd = "closed"
      /\ Returning(job[p], r).n = n /\ Returning(job[p], r).result = r
  BY ReturningParts DEF Running
<1>3. \A q \in Proc \ {p} : Orphaned(n)[q] = job[q]
  BY DEF Running, Orphaned, NoJob
<1>4. Orphaned(n) \in [Proc -> Job]
  BY OrphanedType DEF Running, FetchInv
<1>5. /\ job'[p] = Returning(job[p], r)
      /\ \A q \in Proc \ {p} : job'[q] = job[q]
  BY <1>1, <1>3, <1>4
<1>6. /\ \A m \in Node : m # n => store'[m] = store[m]
      /\ n \in Archive => store' = store
  BY <1>1 DEF SetOut
<1>7. Local(p)
  BY <1>1, <1>2, <1>5, <1>6 DEF Local, Running, AloneGood, ArchivePure
<1>8. Checked(p)'
  BY <1>2, <1>5 DEF Checked
<1> QED BY <1>7, <1>8

(* It goes on to another place and leaves the files alone.                  *)
LEMMA MoveGood ==
    ASSUME NEW p, Running(p), UNCHANGED <<store, tmp>>,
           NEW j, job' = [job EXCEPT ![p] = j], j.n = job[p].n, j.fd # "orphan",
           j.pc \in {"mkdir", "unpack", "extract"} => tmp.has = Whole(job[p].n),
           j.pc = "seal" /\ job[p].n \notin Archive =>
               store[job[p].n].kind = "file" /\ store[job[p].n].has = Whole(job[p].n),
           j.pc # "returned"
    PROVE  Local(p) /\ Checked(p)'
<1>1. job \in [Proc -> Job] /\ p \in Proc
  BY DEF Running, FetchInv, TypeOK
<1>2. job'[p] = j /\ \A q \in Proc \ {p} : job'[q] = job[q]
  BY <1>1
<1>3. Local(p)
  BY <1>2 DEF Local, Running, AloneGood, ArchivePure
<1> QED BY <1>2, <1>3 DEF Checked

(* It writes to its outfile, which is no directory of the store.            *)
LEMMA WriteGood ==
    ASSUME NEW p, Running(p), NEW o, SetOut(job[p].n, o),
           NEW j, job' = [job EXCEPT ![p] = j], j.n = job[p].n, j.fd # "orphan",
           j.pc = "transfer"
    PROVE  Local(p) /\ Checked(p)'
<1>1. job \in [Proc -> Job] /\ p \in Proc /\ store \in [Node -> Object]
      /\ job[p].n \in Node
  BY DEF Running, FetchInv, TypeOK
<1>2. job'[p] = j /\ \A q \in Proc \ {p} : job'[q] = job[q]
  BY <1>1
<1>3. /\ \A m \in Node : m # job[p].n => store'[m] = store[m]
      /\ job[p].n \in Archive => store' = store
  BY <1>1 DEF SetOut
<1>4. Local(p)
  BY <1>1, <1>2, <1>3 DEF Local, Running, AloneGood, ArchivePure
<1> QED BY <1>2, <1>4 DEF Checked

-----------------------------------------------------------------------------
(* The calls of fetch(), one by one.  fopen() of the outfile:               *)
LEMMA OpenGood ==
    ASSUME NEW p, Running(p), Open(p)
    PROVE  Local(p) /\ Checked(p)'
<1>1. CASE Fail(p)
  BY <1>1, FailGood
<1>2. CASE /\ SetOut(job[p].n, EmptyFile)
           /\ job' = [job EXCEPT ![p].pc = "transfer", ![p].fd = "path"]
  <2> DEFINE j == [job[p] EXCEPT !.pc = "transfer", !.fd = "path"]
  <2>1. j.pc = "transfer" /\ j.n = job[p].n /\ j.fd = "path"
    BY DEF Running, Job
  <2>2. job' = [job EXCEPT ![p] = j]
    BY <1>2 DEF Running, FetchInv, TypeOK
  <2> HIDE DEF j
  <2> QED BY <1>2, <2>1, <2>2, WriteGood
<1> QED BY <1>1, <1>2 DEF Open

(* The transfer writes to the outfile only, right or wrong.                 *)
LEMMA TransferGood ==
    ASSUME NEW p, Running(p), Transfer(p)
    PROVE  Local(p) /\ Checked(p)'
<1> DEFINE n == job[p].n
           k == job[p].k
<1>1. job[p].fd # "orphan" /\ job[p].pc = "transfer"
  BY DEF Running, Checked, Transfer
<1>2. CASE Fail(p)
  BY <1>2, FailGood
<1>3. CASE job' = [job EXCEPT ![p].pc = "status"] /\ UNCHANGED <<store, tmp>>
  <2> DEFINE j == [job[p] EXCEPT !.pc = "status"]
  <2>1. j.pc = "status" /\ j.n = job[p].n /\ j.fd # "orphan"
    BY <1>1 DEF Running, Job
  <2>2. job' = [job EXCEPT ![p] = j]
    BY <1>3 DEF Running, FetchInv, TypeOK
  <2> HIDE DEF j
  <2> QED BY <1>3, <2>1, <2>2, MoveGood
<1>4. ASSUME NEW b \in {<<n, k>>, <<0, k>>},
             job' = [job EXCEPT ![p].k = k + 1],
             SetOut(n, Write(Out(n), b))
      PROVE  Local(p) /\ Checked(p)'
  <2> DEFINE j == [job[p] EXCEPT !.k = k + 1]
             o == Write(Out(n), b)
  <2>1. j.pc = "transfer" /\ j.n = job[p].n /\ j.fd # "orphan"
    BY <1>1 DEF Running, Job
  <2>2. job' = [job EXCEPT ![p] = j]
    BY <1>4 DEF Running, FetchInv, TypeOK
  <2>3. SetOut(job[p].n, o)
    BY <1>4
  <2> HIDE DEF j, o
  <2> QED BY <2>1, <2>2, <2>3, WriteGood
<1> QED BY <1>1, <1>2, <1>3, <1>4, Zenon DEF Transfer

(* The status is no reason yet to believe the file.                         *)
LEMMA StatusGood ==
    ASSUME NEW p, Running(p), Status(p)
    PROVE  Local(p) /\ Checked(p)'
<1>1. CASE RemoveAndReturn(p, "fail")
  BY <1>1, RemoveGood
<1>2. CASE /\ job' = [job EXCEPT ![p].pc = "verify", ![p].fd = "closed",
                                 ![p].data = {}, ![p].k = 1]
           /\ UNCHANGED <<store, tmp>>
  <2> DEFINE j == [job[p] EXCEPT !.pc = "verify", !.fd = "closed", !.data = {}, !.k = 1]
  <2>1. j.pc = "verify" /\ j.n = job[p].n /\ j.fd = "closed"
    BY DEF Running, Job
  <2>2. job' = [job EXCEPT ![p] = j]
    BY <1>2 DEF Running, FetchInv, TypeOK
  <2> HIDE DEF j
  <2> QED BY <1>2, <2>1, <2>2, MoveGood
<1> QED BY <1>1, <1>2 DEF Status

(* The hash is compared: what goes on from here is the file asked for.      *)
LEMMA VerifyGood ==
    ASSUME NEW p, Running(p), Verify(p)
    PROVE  Local(p) /\ Checked(p)'
<1> DEFINE n == job[p].n
<1>1. CASE Fail(p)
  BY <1>1, FailGood
<1>2. CASE RemoveAndReturn(p, "fail")
  BY <1>2, RemoveGood
<1>3. CASE /\ Exists(Out(n)) /\ Out(n).has = Whole(n)
           /\ job' = [job EXCEPT ![p].pc = IF n \in Archive THEN "mkdir" ELSE "seal"]
           /\ UNCHANGED <<store, tmp>>
  <2> DEFINE j == [job[p] EXCEPT !.pc = IF n \in Archive THEN "mkdir" ELSE "seal"]
  <2>1. /\ j.pc = (IF n \in Archive THEN "mkdir" ELSE "seal")
        /\ j.n = job[p].n /\ j.fd # "orphan"
    BY DEF Running, Job, Checked
  <2>2. job' = [job EXCEPT ![p] = j]
    BY <1>3 DEF Running, FetchInv, TypeOK
  <2>3. n \notin Archive => store[n].kind = "file" /\ store[n].has = Whole(n)
    BY <1>3 DEF Running, FetchInv, TypeOK, PlainIsNoDir, Object, Out, Exists
  <2>4. n \in Archive => tmp.has = Whole(n)
    BY <1>3 DEF Out
  <2> HIDE DEF j
  <2>5. /\ j.pc \in {"mkdir", "unpack", "extract"} => tmp.has = Whole(job[p].n)
        /\ j.pc # "returned"
    BY <2>1, <2>4
  <2> QED BY <1>3, <2>1, <2>2, <2>3, <2>5, MoveGood
<1> QED BY <1>1, <1>2, <1>3 DEF Verify

(* chmod() and chown() return with the file that was checked.               *)
LEMMA SealGood ==
    ASSUME NEW p, Running(p), Seal(p)
    PROVE  Local(p) /\ Checked(p)'
<1>1. CASE Fail(p)
  BY <1>1, FailGood
<1>2. CASE RemoveAndReturn(p, "fail")
  BY <1>2, RemoveGood
<1>3. CASE /\ job' = [job EXCEPT ![p] = Returning(job[p], "ok")]
           /\ UNCHANGED <<store, tmp>>
  <2>1. /\ Returning(job[p], "ok").pc = "returned"
        /\ Returning(job[p], "ok").fd = "closed"
        /\ Returning(job[p], "ok").n = job[p].n
    BY ReturningParts DEF Running
  <2>2. /\ job'[p] = Returning(job[p], "ok")
        /\ \A q \in Proc \ {p} : job'[q] = job[q]
    BY <1>3 DEF Running, FetchInv, TypeOK
  <2>3. Local(p)
    BY <1>3, <2>1, <2>2 DEF Local, Running, AloneGood, ArchivePure
  <2>4. job[p].n \notin Archive =>
            store[job[p].n].kind = "file" /\ store[job[p].n].has = Whole(job[p].n)
    BY DEF Running, Checked, Seal
  <2> QED BY <1>3, <2>1, <2>2, <2>3, <2>4 DEF Checked
<1> QED BY <1>1, <1>2, <1>3 DEF Seal

(* The new directory is empty.                                              *)
LEMMA MakeDirGood ==
    ASSUME NEW p, Running(p), MakeDir(p)
    PROVE  Local(p) /\ Checked(p)'
<1> DEFINE n == job[p].n
<1>1. CASE RemoveAndReturn(p, "fail")
  BY <1>1, RemoveGood
<1>2. CASE /\ store' = [store EXCEPT ![n] = EmptyDir]
           /\ job' = [job EXCEPT ![p].pc = "unpack"] /\ UNCHANGED tmp
  <2> DEFINE j == [job[p] EXCEPT !.pc = "unpack"]
  <2>1. j.pc = "unpack" /\ j.n = n /\ j.fd # "orphan"
    BY DEF Running, Job, Checked
  <2>2. job' = [job EXCEPT ![p] = j]
    BY <1>2 DEF Running, FetchInv, TypeOK
  <2> HIDE DEF j
  <2>3. job'[p] = j /\ \A q \in Proc \ {p} : job'[q] = job[q]
    BY <2>2 DEF Running, FetchInv, TypeOK
  <2>4. /\ \A m \in Node : m # n => store'[m] = store[m]
        /\ store'[n].has = {}
    BY <1>2 DEF Running, FetchInv, TypeOK, EmptyDir
  <2>5. Local(p)
    BY <2>1, <2>3, <2>4 DEF Local
  <2>6. tmp'.has = Whole(n) /\ n \in Archive
    BY <1>2 DEF Running, Checked, MakeDir, FetchInv, ForArchives
  <2> QED BY <2>1, <2>3, <2>5, <2>6 DEF Checked
<1> QED BY <1>1, <1>2 DEF MakeDir

(* The archive that is opened is the file that was checked.                 *)
LEMMA UnpackGood ==
    ASSUME NEW p, Running(p), Unpack(p)
    PROVE  Local(p) /\ Checked(p)'
<1>1. CASE Fail(p)
  BY <1>1, FailGood
<1>2. CASE RemoveAndReturn(p, "fail")
  BY <1>2, RemoveGood
<1>3. CASE /\ job' = [job EXCEPT ![p].pc = "extract", ![p].fd = "path", ![p].k = 1]
           /\ UNCHANGED <<store, tmp>>
  <2> DEFINE j == [job[p] EXCEPT !.pc = "extract", !.fd = "path", !.k = 1]
  <2>1. j.pc = "extract" /\ j.n = job[p].n /\ j.fd = "path"
    BY DEF Running, Job
  <2>2. job' = [job EXCEPT ![p] = j]
    BY <1>3 DEF Running, FetchInv, TypeOK
  <2>3. tmp.has = Whole(job[p].n)
    BY DEF Running, Checked, Unpack
  <2> HIDE DEF j
  <2> QED BY <1>3, <2>1, <2>2, <2>3, MoveGood
<1> QED BY <1>1, <1>2, <1>3 DEF Unpack

(* An entry of the file that was checked goes to the directory.             *)
LEMMA ExtractGood ==
    ASSUME NEW p, Running(p), Extract(p)
    PROVE  Local(p) /\ Checked(p)'
<1> DEFINE n == job[p].n
           k == job[p].k
<1>1. /\ job[p].pc = "extract" /\ n \in Archive /\ UNCHANGED tmp
      /\ job[p].fd # "orphan" /\ tmp.has = Whole(n)
  BY DEF Running, Checked, Extract, FetchInv, ForArchives, Extracting
<1>2. CASE job' = [job EXCEPT ![p].pc = "extracted"] /\ UNCHANGED store
  <2> DEFINE j == [job[p] EXCEPT !.pc = "extracted"]
  <2>1. j.pc = "extracted" /\ j.n = job[p].n /\ j.fd # "orphan"
    BY <1>1 DEF Running, Job
  <2>2. job' = [job EXCEPT ![p] = j]
    BY <1>2 DEF Running, FetchInv, TypeOK
  <2> HIDE DEF j
  <2> QED BY <1>1, <1>2, <2>1, <2>2, MoveGood
<1>3. CASE job' = [job EXCEPT ![p].k = k + 1, ![p].last = "fail"] /\ UNCHANGED store
  <2> DEFINE j == [job[p] EXCEPT !.k = k + 1, !.last = "fail"]
  <2>1. j.pc = "extract" /\ j.n = job[p].n /\ j.fd # "orphan"
    BY <1>1 DEF Running, Job
  <2>2. job' = [job EXCEPT ![p] = j]
    BY <1>3 DEF Running, FetchInv, TypeOK
  <2> HIDE DEF j
  <2> QED BY <1>1, <1>3, <2>1, <2>2, MoveGood
<1>4. ASSUME NEW b \in BlocksAt(Readable(p), k),
             store' = [store EXCEPT ![n].has = @ \cup {b}],
             job' = [job EXCEPT ![p].k = k + 1, ![p].last = "ok"]
      PROVE  Local(p) /\ Checked(p)'
  <2> DEFINE j == [job[p] EXCEPT !.k = k + 1, !.last = "ok"]
  <2>1. j.pc = "extract" /\ j.n = n /\ j.fd # "orphan"
    BY <1>1 DEF Running, Job
  <2>2. job' = [job EXCEPT ![p] = j]
    BY <1>4 DEF Running, FetchInv, TypeOK
  <2> HIDE DEF j
  <2>3. job'[p] = j /\ \A q \in Proc \ {p} : job'[q] = job[q]
    BY <2>2 DEF Running, FetchInv, TypeOK
  <2>4. b \in Whole(n)
    BY <1>1, <1>4 DEF BlocksAt, Readable, Out
  <2>5. /\ \A m \in Node : m # n => store'[m] = store[m]
        /\ store'[n].has = store[n].has \cup {b}
    BY <1>4 DEF Running, FetchInv, TypeOK, Object
  <2>6. store[n].has \subseteq Whole(n)
    BY <1>1 DEF Running, AloneGood, ArchivePure
  <2>7. Local(p)
    BY <2>1, <2>3, <2>4, <2>5, <2>6 DEF Local
  <2> QED BY <1>1, <2>1, <2>3, <2>7 DEF Checked
<1> QED BY <1>2, <1>3, <1>4 DEF Extract

(* The temporary file goes; only an archive ends here.                      *)
LEMMA ExtractedGood ==
    ASSUME NEW p, Running(p), Extracted(p)
    PROVE  Local(p) /\ Checked(p)'
<1>1. job[p].n \in Archive
  BY DEF Running, Extracted, FetchInv, ForArchives, Extracting
<1>2. PICK r \in {"ok", "fail"} : RemoveAndReturn(p, r)
  BY DEF Extracted
<1> QED BY <1>1, <1>2, RemoveGood

-----------------------------------------------------------------------------
(* A step of fetch().                                                       *)
LEMMA StepGood ==
    ASSUME FetchInv, Alone, AloneGood, NEW p \in Proc, Step(p),
           UNCHANGED <<crowd, plan, done>>
    PROVE  AloneGood'
<1>1. job[p].pc # "idle"
  BY DEF Step, Open, Transfer, Status, Verify, Seal, MakeDir, Unpack, Extract, Extracted
<1>2. Running(p)
  BY <1>1, IsRunning
<1>3. Local(p) /\ Checked(p)'
  BY <1>2, OpenGood, TransferGood, StatusGood, VerifyGood, SealGood, MakeDirGood,
     UnpackGood, ExtractGood, ExtractedGood DEF Step
<1> QED BY <1>1, <1>2, <1>3, LocalGood DEF Running

(* The next fetch begins; it is not one that is done.                       *)
LEMMA TakeGood ==
    ASSUME FetchInv, Alone, AloneGood, NEW p \in Proc, Take(p)
    PROVE  AloneGood'
<1>1. PICK n \in plan[p] : /\ Begin(p, n) /\ UNCHANGED <<crowd, done>>
                           /\ plan' = [plan EXCEPT ![p] = @ \ {n}]
  BY DEF Take
<1> DEFINE j == [NoJob EXCEPT !.pc = "open", !.n = n]
<1>2. j.pc = "open" /\ j.n = n /\ j.fd = "closed"
  BY DEF NoJob
<1>3. job' = [job EXCEPT ![p] = j] /\ UNCHANGED <<store, tmp>>
  BY <1>1 DEF Begin
<1> HIDE DEF j
<1>4. /\ job'[p] = j /\ \A q \in Proc \ {p} : job'[q] = job[q]
      /\ plan'[p] = plan[p] \ {n} /\ \A q \in Proc \ {p} : plan'[q] = plan[q]
  BY <1>1, <1>3 DEF FetchInv, TypeOK
<1>5. /\ p \in crowd /\ crowd \subseteq Proc /\ (\A q \in crowd : q = p)
  BY <1>1 DEF AloneGood, NobodyElse, Alone, FetchInv, TypeOK
<1>6. NobodyElse'
  BY <1>1, <1>4, <1>5 DEF AloneGood, NobodyElse
<1>7. NotAgain'
  BY <1>1, <1>2, <1>4, <1>5 DEF AloneGood, NotAgain
<1>8. (\A q \in crowd : Checked(q))'
  BY <1>1, <1>2, <1>4, <1>5 DEF Checked
<1>9. FilesWhole' /\ ArchivePure'
  BY <1>1, <1>3 DEF AloneGood, FilesWhole, ArchivePure
<1> QED BY <1>6, <1>7, <1>8, <1>9 DEF AloneGood

(* fetch() has returned; what it reports as fetched has been checked.       *)
LEMMA FinishGood ==
    ASSUME FetchInv, Alone, AloneGood, NEW p \in Proc, Finish(p)
    PROVE  AloneGood'
<1> DEFINE n == job[p].n
<1>1. /\ job[p].pc = "returned" /\ job' = [job EXCEPT ![p] = NoJob]
      /\ UNCHANGED <<store, tmp, crowd>>
  BY DEF Finish
<1>2. Running(p)
  BY <1>1, IsRunning
<1>3. /\ p \in crowd /\ (\A q \in crowd : q = p) /\ crowd \subseteq Proc
      /\ plan[p] \cap done = {} /\ n \notin plan[p]
  BY <1>1, <1>2 DEF Running, Alone, AloneGood, NotAgain, FetchInv, TypeOK
<1>4. job'[p] = NoJob /\ \A q \in Proc \ {p} : job'[q] = job[q]
  BY <1>1 DEF FetchInv, TypeOK
<1>5. /\ \A q \in Proc \ {p} : plan'[q] = plan[q]
      /\ plan'[p] \cap done' = {}
      /\ done' \subseteq done \cup {n} /\ (n \in done' /\ n \notin done => job[p].result = "ok")
  <2>1. CASE job[p].result = "ok"
    BY <1>3, <2>1 DEF Finish
  <2>2. CASE job[p].result # "ok"
    BY <1>3, <2>2 DEF Finish, FetchInv, TypeOK
  <2> QED BY <2>1, <2>2
<1>6. NobodyElse'
  BY <1>1, <1>3, <1>4, <1>5 DEF AloneGood, NobodyElse
<1>7. NoJob.pc = "idle" /\ NoJob.fd = "closed"
  BY DEF NoJob
<1>8. NotAgain'
  BY <1>1, <1>3, <1>4, <1>5, <1>7 DEF NotAgain
<1>9. (\A q \in crowd : Checked(q))'
  BY <1>1, <1>3, <1>4, <1>7 DEF Checked
<1>10. FilesWhole'
  BY <1>1, <1>2, <1>5 DEF Running, Checked, AloneGood, FilesWhole
<1>11. ArchivePure'
  BY <1>1 DEF AloneGood, ArchivePure
<1> QED BY <1>6, <1>8, <1>9, <1>10, <1>11 DEF AloneGood

-----------------------------------------------------------------------------
(* Nothing is fetched at first.                                             *)
LEMMA AloneInvInit == RunInit => AloneInv
<1> SUFFICES ASSUME RunInit PROVE AloneGood
  BY FetchInvInit DEF AloneInv
<1>1. \A q \in Proc : job[q] = NoJob
  BY DEF RunInit, Init
<1>2. NoJob.pc = "idle" /\ NoJob.fd = "closed"
  BY DEF NoJob
<1>3. crowd \subseteq Proc /\ done = {} /\ \A q \in Proc \ crowd : plan[q] = {}
  BY DEF RunInit
<1>4. NobodyElse /\ NotAgain /\ FilesWhole
  BY <1>1, <1>2, <1>3 DEF NobodyElse, NotAgain, FilesWhole
<1>5. \A p \in crowd : Checked(p)
  BY <1>1, <1>2, <1>3 DEF Checked
<1>6. ArchivePure
  BY ArchiveAssumption DEF RunInit, Init, Absent, ArchivePure
<1> QED BY <1>4, <1>5, <1>6 DEF AloneGood

(* Every step of a single invocation preserves the invariant.               *)
LEMMA AloneInvStep == AloneInv /\ [RunNext]_runVars => AloneInv'
<1> SUFFICES ASSUME AloneInv, [RunNext]_runVars PROVE AloneInv'
  OBVIOUS
<1>1. FetchInv /\ FetchInv'
  BY FetchInvStep DEF AloneInv
<1>2. crowd' = crowd
  BY DEF RunNext, Work, Take, Finish, runVars
<1>3. SUFFICES ASSUME Alone PROVE AloneGood'
  BY <1>1, <1>2 DEF AloneInv, Alone
<1>4. AloneGood
  BY <1>3 DEF AloneInv
<1>5. CASE UNCHANGED runVars
  BY <1>4, <1>5 DEF runVars, vars, AloneGood, NobodyElse, NotAgain, Checked, FilesWhole, ArchivePure
<1>6. ASSUME NEW p \in Proc, Work(p) PROVE AloneGood'
  BY <1>1, <1>3, <1>4, <1>6, StepGood, TakeGood, FinishGood DEF Work
<1> QED BY <1>5, <1>6 DEF RunNext

(* What the theorems below rest on: no step of an invocation that is alone  *)
(* comes between the check of a download and its use.                       *)
THEOREM AloneInvariant == RunSpec => []AloneInv
<1>1. RunInit => AloneInv
  BY AloneInvInit
<1>2. AloneInv /\ [RunNext]_runVars => AloneInv'
  BY AloneInvStep
<1> QED BY <1>1, <1>2, PTL DEF RunSpec

(* One invocation of the program, any number of fetches, any failures: a    *)
(* file that fetch() reported as fetched has exactly the expected bytes.    *)
THEOREM FetchedIsVerified == RunSpec => []FetchedFileVerified
<1>1. AloneInv => FetchedFileVerified
  BY DEF AloneInv, AloneGood, FilesWhole, FetchedFileVerified
<1> QED BY <1>1, AloneInvariant, PTL

(* And nothing but the entries of its own archive, whose hash was right,    *)
(* gets into a directory of the store.                                      *)
THEOREM OnlyVerifiedExtracted == RunSpec => []ArchivePureAlone
<1>1. AloneInv => ArchivePureAlone
  BY DEF AloneInv, AloneGood, ArchivePureAlone
<1> QED BY <1>1, AloneInvariant, PTL
=============================================================================
