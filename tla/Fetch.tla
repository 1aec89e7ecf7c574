------------------------------- MODULE Fetch --------------------------------
(***************************************************************************)
(* fetch() and extract_archive() of src/src/calculus/build.c, run by any    *)
(* number of processes at once: nothing in the program keeps two            *)
(* invocations apart, and all of them download archives to the one file     *)
(* /tmp/fetched_file.                                                       *)
(*                                                                          *)
(* A process holds an open file either under its path or, once somebody     *)
(* has unlinked the path, as an orphan whose data only it can see.  Every   *)
(* failure of a library or system call takes one from the budget MaxFaults. *)
(***************************************************************************)
EXTENDS ObjectStore

CONSTANTS
    Proc,       \* processes of the program
    Archive,    \* the fetches with extract = true
    MaxFaults   \* bound: failing calls and wrong downloads

ASSUME ArchiveAssumption == Archive \subseteq Node
ASSUME FaultsAssumption == MaxFaults \in Nat

VARIABLES
    store,      \* the objects under /calc/str
    tmp,        \* /tmp/fetched_file
    job,        \* per process: where it is in fetch(), and its locals
    faults      \* failures so far

vars == <<store, tmp, job, faults>>

Pcs == {"idle", "open", "transfer", "status", "verify", "seal", "mkdir",
        "unpack", "extract", "extracted", "returned"}

Job == [pc : Pcs,
        n : 0..N,                           \* the derivative being fetched
        k : 1..(K + 1),                     \* next block to write
        fd : {"closed", "path", "orphan"},  \* the open file
        data : SUBSET Blocks,               \* what an orphan holds
        last : {"ok", "fail"},              \* `result' of extract_archive()
        result : {"ok", "fail"}]            \* `result' of fetch()

NoJob == [pc |-> "idle", n |-> 0, k |-> 1, fd |-> "closed", data |-> {},
          last |-> "ok", result |-> "fail"]

Fault == faults < MaxFaults /\ faults' = faults + 1
NoFault == UNCHANGED faults

\* outfile_name: the store path itself, or the shared temporary file.
Out(n) == IF n \in Archive THEN tmp ELSE store[n]

SameOut(m, n) == m = n \/ {m, n} \subseteq Archive

SetOut(n, object) ==
    IF n \in Archive
      THEN tmp' = object /\ UNCHANGED store
      ELSE store' = [store EXCEPT ![n] = object] /\ UNCHANGED tmp

\* What process p reads through its open file.
Readable(p) == IF job[p].fd = "orphan" THEN job[p].data ELSE Out(job[p].n).has

\* The jobs after the outfile of n is unlinked: open files become orphans.
Orphaned(n) ==
    [q \in Proc |->
        IF job[q].fd = "path" /\ SameOut(job[q].n, n)
          THEN [job[q] EXCEPT !.fd = "orphan", !.data = Out(n).has]
          ELSE job[q]]

Returning(j, result) == [j EXCEPT !.pc = "returned", !.fd = "closed",
                                  !.data = {}, !.k = 1, !.result = result]

\* goto done, the outfile left as it is.
Fail(p) ==
    /\ job' = [job EXCEPT ![p] = Returning(@, "fail")]
    /\ UNCHANGED <<store, tmp>>

\* remove(outfile_name), then return.  Two error paths remove it twice; what
\* the second call could do to another process, the first already can.
RemoveAndReturn(p, result) ==
    /\ SetOut(job[p].n, Absent)
    /\ job' = [Orphaned(job[p].n) EXCEPT ![p] = Returning(job[p], result)]

-----------------------------------------------------------------------------
Init ==
    /\ store = [n \in Node |-> Absent]
    /\ tmp = Absent
    /\ job = [p \in Proc |-> NoJob]
    /\ faults = 0

(* build_derivative() dispatches n to fetch(). *)
Begin(p, n) ==
    /\ job[p].pc = "idle"
    /\ job' = [job EXCEPT ![p] = [NoJob EXCEPT !.pc = "open", !.n = n]]
    /\ UNCHANGED <<store, tmp, faults>>

(* fopen(outfile_name, "w"): creates the file or truncates the one there.   *)
Open(p) ==
    /\ job[p].pc = "open"
    /\ \/ /\ Out(job[p].n).kind # "dir"
          /\ SetOut(job[p].n, EmptyFile)
          /\ job' = [job EXCEPT ![p].pc = "transfer", ![p].fd = "path"]
          /\ NoFault
       \/ Out(job[p].n).kind = "dir" /\ Fail(p) /\ NoFault
       \/ Fail(p) /\ Fault

(* curl_easy_perform(): blocks arrive, right or wrong, or the transfer      *)
(* breaks off; then the file stays as it is.                                *)
Transfer(p) ==
    LET n == job[p].n  k == job[p].k IN
    /\ job[p].pc = "transfer"
    /\ \/ /\ k <= K
          /\ \E b \in {<<n, k>>, <<0, k>>} :
                /\ IF b[1] = 0 THEN Fault ELSE NoFault
                /\ IF job[p].fd = "orphan"
                     THEN /\ job' = [job EXCEPT ![p].k = k + 1,
                                                ![p].data = {c \in @ : c[2] # k} \cup {b}]
                          /\ UNCHANGED <<store, tmp>>
                     ELSE /\ job' = [job EXCEPT ![p].k = k + 1]
                          /\ SetOut(n, Write(Out(n), b))
       \/ /\ k = K + 1
          /\ job' = [job EXCEPT ![p].pc = "status"]
          /\ UNCHANGED <<store, tmp>>
          /\ NoFault
       \/ Fail(p) /\ Fault

(* The HTTP status; on an error page the file is removed.                   *)
Status(p) ==
    /\ job[p].pc = "status"
    /\ \/ /\ job' = [job EXCEPT ![p].pc = "verify", ![p].fd = "closed",
                                ![p].data = {}, ![p].k = 1]
          /\ UNCHANGED <<store, tmp>>
          /\ NoFault
       \/ RemoveAndReturn(p, "fail") /\ Fault

\* Mutant: the hashes are not compared.
VerifyAnything(p) ==
    /\ job[p].pc = "verify"
    /\ Exists(Out(job[p].n))
    /\ job' = [job EXCEPT ![p].pc = IF job[p].n \in Archive THEN "mkdir" ELSE "seal"]
    /\ UNCHANGED <<store, tmp>>
    /\ NoFault

(* The file is opened again, by its path, and hashed.                       *)
Verify(p) ==
    LET n == job[p].n IN
    /\ job[p].pc = "verify"
    /\ \/ /\ Exists(Out(n)) /\ Out(n).has = Whole(n)
          /\ job' = [job EXCEPT ![p].pc = IF n \in Archive THEN "mkdir" ELSE "seal"]
          /\ UNCHANGED <<store, tmp>>
          /\ NoFault
       \/ Exists(Out(n)) /\ Out(n).has # Whole(n)
          /\ RemoveAndReturn(p, "fail") /\ NoFault
       \/ ~Exists(Out(n)) /\ Fail(p) /\ NoFault
       \/ Fail(p) /\ Fault

(* chmod() and chown() of a plain file; only the second is checked.         *)
Seal(p) ==
    /\ job[p].pc = "seal"
    /\ \/ /\ Exists(store[job[p].n])
          /\ job' = [job EXCEPT ![p] = Returning(@, "ok")]
          /\ UNCHANGED <<store, tmp>>
          /\ NoFault
       \/ ~Exists(store[job[p].n]) /\ Fail(p) /\ NoFault
       \/ RemoveAndReturn(p, "fail") /\ Fault

\* Mutant: an existing directory is accepted.
MakeDirAnyway(p) ==
    /\ job[p].pc = "mkdir"
    /\ store' = [store EXCEPT ![job[p].n] = IF Exists(@) THEN @ ELSE EmptyDir]
    /\ job' = [job EXCEPT ![p].pc = "unpack"]
    /\ UNCHANGED tmp
    /\ NoFault

\* Mutant: an existing directory is replaced by a fresh one.
MakeDirFresh(p) ==
    /\ job[p].pc = "mkdir"
    /\ store' = [store EXCEPT ![job[p].n] = EmptyDir]
    /\ job' = [job EXCEPT ![p].pc = "unpack"]
    /\ UNCHANGED tmp
    /\ NoFault

(* mkdir() of the store path; it fails if the path exists.                  *)
MakeDir(p) ==
    /\ job[p].pc = "mkdir"
    /\ \/ /\ ~Exists(store[job[p].n])
          /\ store' = [store EXCEPT ![job[p].n] = EmptyDir]
          /\ job' = [job EXCEPT ![p].pc = "unpack"]
          /\ UNCHANGED tmp
          /\ NoFault
       \/ Exists(store[job[p].n]) /\ RemoveAndReturn(p, "fail") /\ NoFault
       \/ RemoveAndReturn(p, "fail") /\ Fault

(* extract_archive() opens the archive, again by its path.                  *)
Unpack(p) ==
    /\ job[p].pc = "unpack"
    /\ \/ /\ Exists(tmp)
          /\ job' = [job EXCEPT ![p].pc = "extract", ![p].fd = "path", ![p].k = 1]
          /\ UNCHANGED <<store, tmp>>
          /\ NoFault
       \/ ~Exists(tmp) /\ Fail(p) /\ NoFault
       \/ RemoveAndReturn(p, "fail") /\ Fault

(* The loop over the entries.  `last' is overwritten by every entry; any    *)
(* failure to read the next header, not only the end of the archive, ends   *)
(* the loop and leaves `last' alone.                                        *)
Extract(p) ==
    LET n == job[p].n  k == job[p].k IN
    /\ job[p].pc = "extract"
    /\ \/ \E b \in BlocksAt(Readable(p), k) :
             /\ store' = [store EXCEPT ![n].has = @ \cup {b}]
             /\ job' = [job EXCEPT ![p].k = k + 1, ![p].last = "ok"]
             /\ NoFault
       \/ /\ BlocksAt(Readable(p), k) # {}
          /\ job' = [job EXCEPT ![p].k = k + 1, ![p].last = "fail"]
          /\ UNCHANGED store
          /\ Fault
       \/ /\ job' = [job EXCEPT ![p].pc = "extracted"]
          /\ UNCHANGED store
          /\ IF BlocksAt(Readable(p), k) = {} THEN NoFault ELSE Fault
    /\ UNCHANGED tmp

(* The result of extract_archive(), then chmod() and chown() of the         *)
(* directory, both checked; the temporary file is removed in every case.    *)
Extracted(p) ==
    /\ job[p].pc = "extracted"
    /\ \/ job[p].last = "fail" /\ RemoveAndReturn(p, "fail") /\ NoFault
       \/ job[p].last = "ok" /\ RemoveAndReturn(p, "ok") /\ NoFault
       \/ job[p].last = "ok" /\ RemoveAndReturn(p, "fail") /\ Fault

Step(p) ==
    \/ Open(p) \/ Transfer(p) \/ Status(p) \/ Verify(p) \/ Seal(p)
    \/ MakeDir(p) \/ Unpack(p) \/ Extract(p) \/ Extracted(p)
=============================================================================
